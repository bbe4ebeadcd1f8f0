# SupCode in TLA+

SupCode is a terminal coding assistant: an agent loop that asks language models,
runs tools, keeps sessions, talks to MCP servers and can hand tasks to sub-agents
in git worktrees.  It is built from plugins on a small kernel ("Cordis", `core/`);
the plugins of `plugin/` wrap the packages of `internal/`.

This directory holds TLA+ modules that model the parts of the program whose
correctness depends on order, concurrency or failure, TLC configurations that check
them on small instances, and proofs for TLAPS.  `PROJECT.json` lists the runs, the
source lines each definition stands for, one mutation per property that the
property must notice, the hazards of the code and the findings.

    tlc -workers 2 -config MCKernel.cfg MCKernel       # check
    tlapm KernelProofs.tla                             # prove

## 1. The system's parts

| part | code | state | operations | what makes it hard | what makes it correct |
|---|---|---|---|---|---|
| Kernel | `core/loader.go`, `context.go`, `service.go`, `plugin.go` | plugin registry, service registry, tree of scopes with disposers | Load, LoadPlugins, Unload, Reload, Shutdown; Fork, Provide, On, Effect, Dispose | every operation takes and releases the mutex several times; Apply and disposers may fail half-way | scopes are reversible; a registered plugin is whole; nothing survives its plugin; providers come before consumers |
| Event bus | `core/event.go` | listeners per event | On, Emit, Waterfall, Parallel, Serial, Bail | listeners come and go during a dispatch; Once; panics | a Once listener runs once; a dispatch sees a consistent list |
| Sub-agents | `internal/subagent` | worker pool, task and result channels, wait groups | Dispatch, Submit, Stop, CancelAll | channels closed while others send; one result channel for all; waiting under a mutex | no job lost or run twice; every call returns; a caller gets its own results |
| Worktrees | `internal/worktree` | directories, branches, metadata file | Create, Merge, Abandon, ListActive, Cleanup | steps of git and of the file system fail separately; the file is rewritten in place | a task alone in its worktree; what is finished stays finished; the metadata survives a crash |
| MCP stdio transport | `internal/mcp/stdio.go` | child process, pending calls | Send, read loop, restart, Close | the process dies at any time; answers late or twice; restart against Close | answers reach their own call; the reader never blocks; nobody waits for a dead transport |
| MCP client | `internal/mcp/client.go`, `sse.go`, `bridge.go`, `bootstrap.go` | connections by name | Connect, Disconnect, Close, ListTools, ExecuteTool | look-up and entry under two separate lockings | every transport is closed once; no call on a closed one |
| Session store | `internal/tui/session.go` | cache of ten sessions, dirty flags, JSON file | Create, Get, AppendMessage, SetState, SetPlan, Close, CloseAll, Delete | eviction and file reload around the cache; crash between writes | what was saved is there after a restart; a reload loses no change |
| Agent | `internal/agent` | state, plan, step | Run, RunPlan, ApprovePlan, steps with retries | concurrent runs on one agent; cancellation; retries | each run executes its own plan, in order; retries end; a cancelled run stops |
| Tools | `internal/tools`, `plugin/tools` | registry | Register, Execute, events before and after | veto, hooks, timeouts | a vetoed tool does not run; every run is reported |
| Permissions | `internal/permission`, `plugin/permission` | rules, first-use set, audit channel | Check, Confirm, LogAction, Sync, Close | layers in order; bounded channel against Close | deny wins; no record lost without notice |
| Context manager | `internal/contextmgr` | messages, summary, token count | Append, Compress, Clear | compression in the background, its segments in parallel | no message is lost; a summary is whole, in order, and about what is still there |
| Interaction | `internal/tui/service.go`, `model.go` | a channel per session | RequestConfirm, Confirm, input | a second question before the first is answered; timeouts | an answer reaches the question it was given to |
| Skills | `internal/skill` | cache, files at three levels, watcher | Load, Discover, Install, the watcher's Start and Close | file read and cache fill are not one step; an installation is several | no stale skill after an update |
| Model clients | `internal/llm` | provider chain, a channel per stream | Chat, retries, fallback | a stream that breaks half-way or is abandoned | the caller gets one provider's stream, whole and in order, and is always answered |
| Memory, TUI, CLI, configuration, built-in tools | `internal/memory`, `tui`, `cli`, `config`, `tools/*` | - | - | I/O, layout and construction | - |

How they interact: the kernel applies every plugin on a scope of its own; a plugin
publishes a service with `Provide`, listens with `On` and keeps other clean-ups with
`Effect`, so that disposing the scope takes everything back.  Plugins call each other
through services (agent to tools, tools to permissions) and through events (a tool's
pre-execute event is where permission vetoes).  The agent, the worker pool, the MCP
read loops, context compression, audit writer and skill watcher each
run in goroutines of their own and meet in mutexes, channels and files.

## 2. The modules

| module | models | uses | checked by | proved in |
|---|---|---|---|---|
| `Kernel` | the kernel's calls as interleaved steps | - | `MCKernel` | `KernelProofs` |
| `LoadOrder` | the dependency sort of LoadPlugins and the loads after it | - | `MCLoadOrder` | `LoadOrderProofs` |
| `EventBus` | listeners and the five ways to dispatch | - | through `ToolPipeline` | `ToolProofs` |
| `ToolPipeline` | a tool call through events, permissions, registry and hooks | extends `EventBus` | `MCToolPipeline` | `ToolProofs` |
| `AuditLog` | LogAction, Sync, Close and the writer goroutine | - | itself | `ToolProofs` |
| `AgentLoop` | Run, RunPlan, ApprovePlan and their steps | - | `MCAgentLoop` | `AgentProofs` |
| `ContextManager` | one session's context and its background compressions | - | itself | `StateProofs` |
| `EventStream` | what a Chat call promises its caller (abstract) | - | through `LlmStream` | - |
| `LlmStream` | the model clients, the failover and its forwarders | `INSTANCE EventStream WITH ...` | `MCLlmStream` | `LlmProofs` |
| `WorkerPool` | Dispatch, Submit, Stop, CancelAll, the workers and their worktrees | - | `MCWorkerPool` | `WorkerProofs` |
| `StdioTransport` | the MCP stdio transport | - | itself | `McpProofs` |
| `McpClient` | the MCP client over SSE transports, from boot to Close | - | `MCMcpClient` | `McpProofs` |
| `SessionStore` | the session manager, its cache and its file | - | itself | `StateProofs` |
| `SkillStore` | a skill's files, loader, installer and watcher | - | itself | `StateProofs` |

### Kernel

Several goroutines (`Callers`) call the kernel.  A call is a record in `calls` with a
program counter; an action is the code between two points at which a mutex is
released, since `k.mu` and `Context.mu` protect single steps and never a whole call.
`registry` is `Kernel.plugins` and `services` is `Kernel.services`; a scope is a record
with its parent, its disposed flag, its own services and its disposers in the order
they were added.  A service's disposer remembers the value it found (`prev`), as
`restore` in `context.go` does, and puts it back.  `inForce` is what stands in the
kernel because of a scope: which of its listeners and effects have not been undone.

Load is `Check` (the name is free), `CheckInject` (each dependency, on the parent), fork, the
steps of `Apply` from `Script`, and the entry; an Apply that returns an error goes to
`rollback` and replays the disposers.  One that panics (`core.Use` of a service that is not
there) is not recovered by anything: the process ends (`panic`).  Unload takes the entry out,
then disposes; disposal takes the list under the scope's mutex and replays it without. Reload
is look-up, Unload, Load on the same parent.  LoadPlugins is its sorted list of Loads here (how
it is sorted is `LoadOrder`), Shutdown a snapshot of names in reverse alphabetical order.
`Profiles` are the ways an embedder divides calls among goroutines.

Data left out: what a service is (its identity is the scope that put it), event names,
what a disposer does beyond undoing its registration, error texts.  Not modelled:
`Start`, plugin configuration, a plugin that calls the disposer `Provide` or `On`
returned to it by hand, `MaybeUse`.

At its end the module states what some of its guarantees ask of the embedder
(`PluginsApart`, `ProvidedOnce`, `IsolatesOnlyListen`); section 5 says what needs which and
why the program has them.

Three hypotheses bound the instances: an embedder puts its services on an isolated
scope before plugins are loaded there (`Private`); plugins on an isolated scope inject
none that another plugin provided there; forks are counted (`MaxForks`).

### LoadOrder

`LoadPlugins` from the duplicate check through the depth-first sort, whose recursion is
a `stack` of activations (a name and the next Inject entry to look at), to the loads
in `order`.  A key leads to the plugin that declares it in `Provides`, or else to the
plugin of that name (`DependsOn`); a key that is neither makes no edge, as in the
code.  A plugin here may be honest, provide silently or declare what it never puts.

### WorkerPool

One module for the orchestrator, the pool and the worktree calls the workers make,
because the hazards lie between them.  Each Dispatch, each worker, the canceller and
the goroutine that closes the result channel has a program counter; channels are
bounded queues with a closed flag; `select` with several cases ready takes any of them.
Stop closes `stopped` and `taskCh`, waits for the workers, and a later Dispatch makes
a new pool.  Worktrees are a branch and a directory per task; `Create`, `Merge` and
`Abandon` may fail and then leave what the code leaves.  The agent is one step with
three outcomes: done, failed, cancelled.  It does not work in the worktree that was made for
it: `executeTask` drops the path, and every agent has the program's own tools, which work in the
program's directory (`Workplace`; finding 8).  Results carry the job they are about and
nothing else.

### StdioTransport

Each Send, the read loop (which also restarts, one goroutine or the next it starts) and
Close are sequences of steps cut at `mu`.  The child process is external: it answers in
any order, may repeat an answer, may write a line over the scanner's megabyte and may
die with lines unread.  Requests are their own ids, since the counter makes them
unique.  An error response of the server is an answer; lines that are no JSON, or that
have an id nobody waits for, are read and dropped.

### SessionStore

`cache` and `disk` say of each session which state of it the cache and the file have; a state
is the stamp of the change that made it (`UpdatedAt`), and no two changes have the same.
Operations under `sm.mu` are one action each, a save included: it writes a temporary file and
renames it, so the file is the old or the new one whatever happens. A save or the load at the
start may fail, which the code logs (`alarm`).  Get of an id that is not cached is two kinds of
steps, since `loadFromDisk` takes no lock: `GetMiss` reads the file, `GetFill` enters one of
its sessions, and what other goroutines do comes between.  `overtaken` remembers which sessions
the last save changed while a reload still had to enter them; that the runtime may notice two
goroutines in the map is a crash.  A crash forgets the cache; `Start` is `NewSessionManager`.
`List` only reads; two processes that share one file are not modelled.

### EventBus and ToolPipeline

`EventBus` is `core/event.go`: `listeners` per event, and for each goroutine one
`dispatch` in progress, which works on the list it copied (`snapshot`) while others register and
remove.  Each call of a listener is a step; Emit, Parallel, Serial, Bail and Waterfall
differ in what the answers make them do next, and in what they do with a failure.
A Once listener is removed after it was called, as in the code.  What a listener answers is the
parameter of `Invoke`, and what it makes of the answer its `next` gave that of `Leave`, so that
the module over it decides.  Not modelled: a handler that
panics, or that calls `next` twice.

`ToolPipeline` extends it with what listens to the events of a tool call.  `Execute` of
`plugin/tools/registry.go` is pre-execute (a waterfall: `permission` may refuse, any listener
of another plugin may rewrite the call, its tool's name included), execute (a waterfall too),
the registry's own `Execute` with its hooks before and after, post-execute and result.  `asked`
is the tool a call came for, `tool` the one its invocation names by now (`Renamed`), which the
registry looks up.  The registry's own check sets no target, so the engine allows whatever it
asks.  The permission plugin's answer is computed from the rules as they are when it is asked
(`Check`, in order of priority), then the first-use layer.  Tools, hooks, rules and listeners
come and go at any moment of it (`Change`, bounded).  `MCSetups` are the states the first call
may find, among them the permission plugin behind another listener, and none at all.  What a
pattern of a rule matches is the set of tools it covers; the engine's third layer (paths) has
no caller that reaches it.  LogAction is a call that does not wait; its record's way to the
database is `AuditLog`.

### AuditLog

A record is counted in the wait group, then sent or dropped; these are separate steps, since a
Sync, a Close or the writer may come between.  `pendingWg` is the set of the records counted.
The writer prepares its statement (which may fail, and then it ends), inserts what it receives
(each insert may fail) and ends when the closed channel is empty.  Close looks at `closed` and
sets it, and closes the channel in a later step.  A send on a closed channel is a panic, after
which nothing happens.  That `sync.WaitGroup` panics when it is counted up from zero while a
Sync waits is left out.

### AgentLoop

Calls of Run, RunPlan and ApprovePlan on one agent and one session.  A call has a program
counter for planning, the head of the loop, selection, execution, backoff and what follows a
failure; `plan` and `state` are the agent's, which the calls overwrite for each other, and
`session` is what the session manager has stored, which ApprovePlan reads.  `ran` is what a
call has executed.  Errors are told apart as the code tells them (`Wrapped`: a type assertion
does not see through `%w`).  The planner, the selector, the tools, the session manager and the
context manager answer or fail freely; the context of a call may end at any moment, and its
error then is the one the code reports.

### ContextManager

`contexts` are the records made, `current` the one the map holds: the first operations of a
session race in `getOrCreate`, whose two lockings are two steps.  A message is the number of
its append. Compress starts a goroutine and looks at nothing; the goroutine copies the
messages, leaves the recent ones, and is done when there are no others; else it starts one
goroutine per segment (which may fail or be answered with nothing, and they end in any order),
has the summaries merged, and stores the result under the lock, whatever has been cleared or
appended since.  A compression of one segment skips the merging, as in the code.

### McpClient

`servers` is `Client.servers` and `conns` every connection that was ever made, with its event
stream, its pending requests and their channels.  Connect is look-up, transport, handshake and
entry, under two lockings; Disconnect, Close, ConnectConfigured and RegisterTools follow the
code in the same grain, a failing step included.  The server is external: a POST may fail
before or after it arrived, an answer may be late, twice, malformed or never come, the stream
may end at any moment.  Closing an SSE transport sets a flag (`sse.go:187`), after which it
sends nothing; its stream is not closed, so "open" here speaks of that flag.  One manager boots
and then connects, disconnects or closes; users execute registered tools meanwhile.  The JSON,
headers, and a connection's state field (read by nobody) are left out.

### SkillStore

`dirs` is what each of the three levels has of one skill: its manifest, its prompt, whether the
manifest is valid, each with the number of the change that wrote it.  Load asks the cache, then
reads the levels file by file without a lock, then caches.  The installer removes the old
directory and writes the new files step by step, or fails in between, the removal half-way
included; an editor changes a file in place.  `reports` is the queue of the operating system,
which names entries of the watched directory and nothing deeper; in the reports of the levels
in `Misnamed` the watcher does not find the skill's name.  `missed` remembers that a file
changed without a report that drops the skill.  The watcher's goroutine, `StartWatching` and
Close are cut at the mutex and at the channel `Changes`.

### EventStream and LlmStream

`EventStream` has three variables: the events emitted and not yet received (`queue`), those
`got`, and whether the caller has stopped (`over`).  It may emit, let the caller
receive, end, and give up what was emitted, the last only while the caller has nothing
and the stream begins with an error.

`LlmStream` has a goroutine for each client, which requests, retries with a backoff and parses
a reply into its bounded channel; Chat, which asks one client after the other for its first
event; a forwarder which passes a stream on; and the caller.  The clients differ as their code
does: which failures each retries, when it says done, whether a reply that broke off is asked
for again.  The refinement maps `queue` to what lies between the caller and the client of its
stream, in order: the channel the caller reads, the event in the forwarder's hand, the client's
channel (`InFlight`).

## 3. The runs

| run | instance | states | asks |
|---|---|---|---|
| `kernel` | 3 plugins, 1 isolated scope, 2 goroutines, 4 forks | 173,000 | `RegisteredScopeLives`, `EveryEffectReversible`, `UndoneBackwards`, `NoResidue`, `RegisteredPluginWhole` |
| `load_order` | lists of 2 and 3 plugins, 4 keys | 164,000 | `OrderTopological`, `CycleReported` |
| `tools` | 2 goroutines, 2 tools, 2 rules, 2 hooks, 7 listeners, 5 setups, 1 change | 988,000 | `OnceIsOver`, `VetoHolds`, `AfterHooksRun`, `EveryRunReported` |
| `audit` | 3 records, channel of 1, 2 Syncs, 2 Closes | 276,000 | `SyncStored`, `CloseStored`, `SyncEnds` |
| `agent` | 2 calls, plans of 3 and 1 steps, 2 iterations, 2 retries | 1,762,000 | `RetriesBounded`, `CancelStops`, `OnePlan`, `CompletedMeansAll` |
| `context` | 1 goroutine appends, 1 clears, 2 compressions, 4 messages, segments of 2, 1 kept | 131,000 | `NothingLost`, `SummaryWhole`, `SummaryOfThese` |
| `llm` | 3 clients, 2 attempts each, channels of 1, replies of 1 line | 214,000 | `IsOneStream`, `DoneIsLast`, `CallIsAnswered` |
| `workers` | 2 workers, 2 Dispatches, 2 task ids, channels of 1, 2 pools | 397,000 | `NoWorkerOutlivesStop`, `JobInOnePlace`, `SettledTreeStays`, `DispatchReturns`, `CancelReturns` |
| `stdio` | 2 Sends, 2 restarts | 93,000 | `AnswersOwnRequest`, `NobodyLeftWaiting`, `SendReturns` |
| `mcp` | 2 servers that share a tool's name, 1 manager, 1 user, 3 connections of 3 requests | 234,000 | `NoAnswerLost`, `OpenIsReachable`, `BootComplete` |
| `sessions` | 3 sessions, room for 2, 4 stamps, 2 goroutines | 739,000 | `CleanIsOnDisk`, `ReleasedIsStored` |
| `skills` | 2 loaders, 2 changes, 2 reports, channel of 1, 1 of 3 levels misnamed | 2,097,000 | `CacheIsCurrent`, `ChangesOpenWhileTold` |

What they say:

- *Kernel.* `RegisteredScopeLives`: an entry points to a scope that is not being taken down.
  `EveryEffectReversible`: every listener and effect that stands has its disposer on its
  scope's list or in the hands of the goroutine that replays it. `UndoneBackwards`: disposers
  run in reverse order.  `NoResidue`: when nobody is in a call, what stands belongs to
  registered plugins.  `RegisteredPluginWhole`: every service, listener and effect of a
  registered plugin stands.  The last three need goroutines that do not race on one plugin
  (`MCKernelTogether.cfg` shows why) and keys with one provider (`MCKernelShadow.cfg`).  That
  Apply finds what Load has checked is not among them: it is false as soon as provider and
  consumer have a goroutine each (`MCKernelViolated.cfg`).
- *LoadOrder.* `OrderTopological`, and `CycleReported`: exactly when there is one.
- *Events and tools.* `OnceIsOver`: once a dispatch that called a Once listener has returned,
  no later dispatch calls it.  `VetoHolds`: a call that came for a tool which the rules deny
  for the whole of it runs nothing, whatever name listeners give it, as long as the permission
  plugin is first on its event.  That no denied tool runs at all is false: a call for another
  tool may be renamed, and a listener in front of the plugin may answer for it
  (`MCToolPipelineViolated.cfg`).  `AfterHooksRun`: a run that is not cancelled is followed by
  the AfterTool of every hook that stood at its look-up.  `EveryRunReported`: a tool that ran
  is reported to an audit plugin that stood all the while.
- *AuditLog.* `SyncStored`, `CloseStored`: when Sync, or the Close that closes the channel,
  returns, what had been accepted is in the table or its insert failed.  `SyncEnds`.
- *AgentLoop.* `OnePlan`: each of two overlapping calls executes its own plan, in
  order, though they overwrite each other's in the agent and the session.
  `RetriesBounded`, `CancelStops` (one more tool at most), and `CompletedMeansAll`: only a
  call that has executed its whole plan marks the session completed.
- *ContextManager.* `NothingLost`: the race for the first context loses no message.
  `SummaryWhole`: a summary tells of every old message of its copy, in order, whatever order
  the segments end in.  `SummaryOfThese`: and of messages that are still there, unless a
  Clear overtook the compression.
- *LlmStream.* `IsOneStream`: the clients, the failover and its forwarders implement
  `EventStream`, so the caller receives one client's events, all of them and in order.
  `DoneIsLast`: nothing follows "done" (the deepseek client excepted, finding 25).
  `CallIsAnswered`: every call ends, though an abandoned client's stream is never read.
- *WorkerPool.* `NoWorkerOutlivesStop`.  `JobInOnePlace`: no task is lost, run twice or
  answered twice. `SettledTreeStays`: merged or abandoned work is not revived by a task id that
  comes back.  `DispatchReturns`, `CancelReturns`.
- *StdioTransport.* `AnswersOwnRequest`, `NobodyLeftWaiting` (after the transport has given up
  every waiting Send has its failure; a reader that ends at an overlong line is not meant: its
  process lives on, and a Send that comes later waits for its context), `SendReturns`.
- *McpClient.* `NoAnswerLost`: an answer that comes before its POST has returned still finds
  its request.  `OpenIsReachable`: with one goroutine that connects and disconnects no
  transport is left open that nobody can close.  `BootComplete`: a server that fails, or shares
  a tool's name, takes nothing from the others.
- *SessionStore.* `CleanIsOnDisk`: Close drops a session that is not dirty without saving it,
  so the file must have it.  `ReleasedIsStored`: what Close, CloseAll or an eviction takes out
  of the cache is in the file then, or a failing save was logged.  Both with two goroutines,
  and but for a session that was saved between `GetMiss` and `GetFill`: that one is undone
  (`NeverOlder` is violated, finding 11); the two say that nothing else goes wrong, and not for
  longer than to the next save.
- *SkillStore.* `CacheIsCurrent`: once the watcher has handled the reports a cached skill is
  the one on disk, of the highest level that has it, unless since its Load began a file changed
  without a report, a report's name was not found or the watcher overtook the Load (`missed`).
  With these `CacheFollowsFiles` is violated (finding 23).  `ChangesOpenWhileTold`: whichever
  of Start, Close and a report comes first, nothing is sent on the closed channel.

**Further configurations.**  These pass and check what the runs above do not name, the type
invariants of these modules among it: `MCKernelMore` (`OneGeneration`), `MCLoadOrderMore`
(`OrderComplete`, `ProvidersServeConsumers`, `Returns`), `MCWorkerPoolMore` (`OneOwner`,
`OwnResultsWhenAlone`), `ContextManagerMore` (`CompressionEnds`).  Those below check properties
that the code does not have, one at a time (the others of a configuration are in its comments);
TLC's counterexample is what section 6 describes.

| configuration | violated | |
|---|---|---|
| `MCKernelViolated` | `ShutdownInReverseLoadOrder` | finding 1 |
| | `InjectHonoured` | finding 3; provider and consumer are two goroutines' |
| `MCKernelTogether` | `NoResidue` | finding 2; two goroutines load one plugin |
| `MCKernelShadow` | `RegisteredPluginWhole`, `NoResidue` | finding 4; two plugins provide one key |
| `MCLoadOrderUnknown` | `UnknownReportedFirst` | finding 5 |
| `MCWorkerPoolViolated` | `SubmitReturnsFalseWhenStopped` | finding 6 |
| | `ReturnsResultOfEachTask` | finding 7 |
| | `AgentsApart` | finding 8 |
| `StdioTransportClose` | `CloseLeavesNoProcess` | finding 9 |
| `SessionStoreViolated` | `ClosedStaysStored` | finding 10 |
| | `NeverOlder` | finding 11 |
| | `CacheWithinSize` | finding 12 |
| `MCToolPipelineViolated` | `DeniedNeverRuns`, `DeniedNeverPasses` | findings 16 and 17 |
| `AuditLogClose` | `NeverPanics` | LogAction against Close: a send on the closed channel |
| `MCMcpClientTwo` | `OpenIsReachable` | two goroutines connect one server: the first transport is lost |
| `SkillStoreViolated` | `CacheFollowsFiles` | finding 23 |
| | `ListedIsLoadable` | an invalid manifest hides the valid one below it from Load, not from Discover |
| `MCLlmStreamTwice` | `TextOnce` | a reply that broke off is asked for again after its text was passed on |
| `MCLlmStreamWriters` | `NobodyLeftWriting` | a caller that stops at an error leaves a writer blocked |

**Why the bounds are enough.**  Three plugins make a provider, a consumer and one that
fails; four forks allow each of them a generation and one a second one, which is what a
stale value, a residue or a double load needs.  Three plugins with two injects each make
chains, diamonds, self-dependencies and cycles of length one to three.

Channels of one fill up with two tasks, records or events, so every blocking or dropping
send occurs; two pools let an old worker meet a new pool.  One of two Sends may
be cancelled; two restarts let a request wait on an earlier process than the one that
dies last.  Three sessions fill a cache of two and evict; four stamps create all three
and change one; two goroutines let a change and its save fall into the other's reload.

Two goroutines dispatch the same Once listener at once or one changes what the other is using;
one change of the configuration is enough to fall between any two steps of a call.  Plans of
three steps pass `MaxIterations` 2, that of one does not; two retries are a first and a last
one.  Four messages with one kept make two segments, so that a summary is merged and may come
out of order, and two compressions overlap.  Three clients give a failover that succeeds, one
that fails over twice, and one that ends with no client left; two attempts are one retry. The
anthropic client is left out of `MCLlmStream`: each thing it does one of the others does too.
(The proof of `IsOneStream` is for all four.)  Three connections of three requests allow both
servers to be connected, listed and called, and one to be connected again. Two changes of a
skill are an installation and another one, or an edit, at a level above or below it.

The proofs of section 5 remove the bounds for the properties they name.

**Deadlock** is checked for `Kernel` and `SessionStore`.  The other models stop of their
own accord: a sort that has returned, calls that have all been made, a transport that is
closed or has given up have nothing to do.  Their configurations say `CHECK_DEADLOCK
FALSE`, and the liveness properties say what must have happened before.

## 4. Fairness

The scheduler of Go never stops the whole program while one goroutine can run.  The
modules assume that, and no more where it is enough.

- `LoadOrder` is one goroutine that never waits: weak fairness of its next step.
- `WorkerPool`: `WF_vars(Running)`, where `Running` is a step of any goroutine that can
  go on.  Since the tasks and pools are finite every goroutine's steps are finite too, so
  this weak assumption is enough.  Making a call, cancelling a context and calling
  CancelAll are never forced.
- `StdioTransport`: the same, and a living server answers what it is asked.  Dying,
  repeating an answer, calling Send or Close and cancelling are never forced.  A
  server that never answers leaves a Send waiting for its context, by design of the code.
- `AuditLog`: the same, until a panic.  Logging, Sync, Close and a failing statement
  are never forced.
- `ContextManager`: the steps of each compression's goroutines; the model that summarises
  answers or fails.
- `LlmStream`: weak fairness of Chat, of the caller, of each client's goroutine and of each
  forwarder, separately, since a writer that is blocked for ever must not stop the others.  A
  provider answers or fails, which the HTTP client's timeout sees to.
- `Kernel`, `ToolPipeline`, `AgentLoop`, `McpClient`, `SessionStore` and `SkillStore` state
  safety only.

## 5. The proofs

Every safety invariant and action property that a configuration checks and that holds is
stated by a theorem.  Assumed of the constants: the `ASSUME`s of the modules (types,
finiteness, bounds above zero), and where a theorem says so a named hypothesis, each
explained with its proof below.

- `KernelProofs`.  `IInv` = `TypeOK`, `CallsWellFormed` (a call has a plugin in hand),
  `ScopesOwned` (a scope between fork and the end of its disposal is in one
  goroutine's hands and in no entry), `ScopesForked` (nothing stands for a scope that was
  not forked), `RegisteredScopeLives` and `EveryEffectReversible`.  The last two are not
  inductive alone: that Unload disposes the scope of an entry without disturbing another
  entry needs ownership.  Each action has its lemma.  Proved from it: `KernelType`,
  `KernelRegisteredScopeLives`, `KernelEveryEffectReversible` and
  `KernelDisposedScopeClean` (a disposed scope whose replay is over has nothing in force).
  They hold for every profile, those that race on a plugin included: the
  race loses entries, it never makes one dangle or an effect irreversible.
  `KInv` is for what the order of the disposers has to do with what stands.  It says that
  each scope has one disposer list, its own or in the hands of the goroutine that replays
  it, which undoes exactly what stands, later effects first (`Lists`); how far into the
  plugin's script the list goes, and that only the scope of an entry or in a call's hands has
  one (`Extent`); that a service in the registry is one its scope's plugin provides
  (`Provided`); what a Load has found on its parent (`Seen`); that a plugin's name is free
  while a call works on it (`FreeAtWork`), after a panic too (`Panicked`); and that a call is one
  its goroutine may make (`Asked`).  From it
  `KernelUndoneBackwards`, `KernelNoResidue`, `KernelRegisteredPluginWhole` and
  `KernelOneGeneration`.  Their hypotheses:
  - `PluginsApart`, of no two callers with a plugin in common.  The program drives the
    kernel from one goroutine; only tests and the demo call Load, Unload and Reload otherwise.
    Without it `NoResidue` is false: `MCKernelTogether` shows the scope that is lost.
  - `ProvidedOnce`, of no two plugins that provide one key.  `plugin/tui` and `plugin/cli` both
    provide the interaction service, but are never loaded together.  With two providers that
    are not unloaded last first a disposer takes away a service in use or brings back one whose
    plugin has gone: `MCKernelShadow`, finding 4.
  - `IsolatesOnlyListen`, of no plugin that provides from an isolated scope: there Provide
    leaves no disposer (finding 14).  Nothing but tests calls Isolate.
  `MCKernel` assumes them of its instance (`MCApart`), so TLC evaluates them.
- `LoadOrderProofs`.  `IInv` says what an activation has seen is done or is what it waits for
  (`SeenSettled`), that `done` and `order` agree, and that loading begins only after a sort
  without error.  From it `LoadOrderTopological` and `LoadOrderNothingLoaded` for lists of any
  length.  `CycleInv` says that the names being visited are those on the stack, each once
  (`Visiting`, `Once`, `NotDone`), that each of them depends on the next (`Chain`), and that
  every name of the list is done or still to come (`NoneForgotten`).  A name that is visited
  twice closes the chain into a cycle (`StackIsCyclic`); a sort that ends has put each name
  after what it depends on, and a set in which everything depends on a member would have one
  that is first in the order (`OrderedIsNotCyclic`).  Hence `LoadOrderCycle`, that the sort
  reports a cycle when there is one and only then.  `LoadOrderComplete` counts: an order
  without repetition that has every name has the length of the list.  `LoadOrderServes`: a load
  that finds a service missing is of a plugin none of whose dependencies provides it. `Values`
  types the remaining variables, for `LoadOrderType`.
- `ToolProofs`, the audit log.  `AInv` follows a record: it is in the channel or in the
  writer's hand, once (`OnceInTransit`), and counted as long as it is (`TransitCounted`,
  `InHandKnown`); what was accepted is in transit, stored or failed (`AcceptedSomewhere`), what
  a Sync owes had been accepted (`OwedAccepted`), and the writer that has gone left the closed
  channel empty (`GoneIsEmpty`).  Hence an empty wait group means that everything owed is
  settled: `AuditSyncStored` and `AuditCloseStored`, with `AuditType`.
- `ToolProofs`, the pipeline.  `BusInv`: a listener is listed once (`ListedOnce`), one that has
  gone is listed nowhere again (`GoneForGood`), a Once listener that a dispatch has called is
  removed or has not returned (`CalledIsOpen`), and a Once listener that was spent is removed.
  `PipelineInv` adds the types, the rules among them, sorted by priority; what each call
  carries at each place (`CallsInv`); that a call which came for a tool that is denied all the
  while comes no further than pre-execute, and keeps its name until the plugin has seen it
  (`Guarded`); that a result is emitted, so that every listener gets it (`ResultEmitted`); and
  that an audit plugin which stood all the while has been told of a run or will be (`Hearing`).
  From it `OnceIsOverAlways`, `VetoHoldsAlways`, `AfterHooksRunAlways`,
  `EveryRunReportedAlways` and `PipelineTypes`, for any tools, hooks and rules and any number
  of goroutines that register and call.
- `AgentProofs`.  `LInv` is `TypeOK` and for each call that it has its plan from the end of its
  planning on (`HasItsPlan`), that what it has executed is that plan up to its index
  (`ExecutesItsPlan`), that the tries of a step are its attempts (`TriesCounted`), and where it
  may be once a tool has run after the end of its context (`LateIsSeen`).  From it
  `AgentRetriesBounded`, `AgentCancelStops`, `AgentOnePlan`, `AgentCompletedMeansAll` (an
  action property) and `AgentType`, for any number of calls, plans and limits.
- `LlmProofs`.  `SInv` = `TypeOK`; a client Chat has not come to has done nothing
  (`Untouched`); Chat is at a client of the chain (`AtAClient`); while Chat is choosing the
  caller has nothing (`NothingYet`) and no forwarder holds anything (`NotForwarded`); what is
  left behind is left at an error (`LeavesNothing`).  Under it every step is mapped: a client's
  step to `Emit` or a stutter (`ClientMaps`), Chat's to `GiveUp` or a stutter, the forwarder's
  to a stutter, the caller's to `Receive` and `End`.  From it `LlmIsOneStream`, the refinement,
  for any chain, capacity, number of attempts and length of replies; and `LlmType`.  `DInv`
  looks at a client's whole stream, what the caller has had of it and what is on its way: it
  has at most one done, and that at its end, except where the deepseek parser says done and
  then fails (finding 25).  From it `LlmDoneIsLast`.
- `McpProofs`, the stdio transport.  `IInv` says that a channel is empty as long as its request
  is in `pending` or in the reader's hands, and that what it holds is the request's own answer
  or a failure.  From it `StdioType`, `StdioAnswersOwnRequest` and `StdioNeverBlocksOnChannel`.
  `JInv` adds that a waiting Send is in `pending`, in the reader's hands or told
  (`WaitsOrTold`), that the reader leaves a process only when that has ended and never gets two
  processes mixed up (`ReaderFollows`), and that a Send which comes after `failPending` has
  only an ended process to write to (`CameTooLate`).  From it `StdioNobodyLeftWaiting`.  All
  for any number of requests and restarts.
- `McpProofs`, the SSE client.  `ReplyInv`: what a connection was asked was sent
  (`AskedWasSent`), who has a request has a connection (`HasConn`), and until it takes its
  reply it has one, or it is in `pending` and not answered yet (`ReplyOrPending`).  From it
  `McpTypes` and `McpNoAnswerLost`, for any number of goroutines.  `MInv` follows the manager:
  what it knows at each place of a connect or disconnect (`ManagerAt`), that an entry is a
  connection of its server (`EntriesTrue`), that a tool is registered for a server that has it
  (`RegistryTrue`), that an open connection is in the map or in the manager's hands
  (`Reachable`), and that while the bridge is at work a server that was connected when it began
  still is, and is bridged or its turn will come (`BridgeGoesOn`).  From it
  `McpOpenIsReachable` and `McpBootComplete` under `OneManager`, that only the start-up
  goroutine connects and disconnects, as in the program.  `MCMcpClientTwo` shows what a second
  manager breaks.
- `StateProofs`, the sessions.  For any number of callers: `TInv`, the types and that a manager
  which does not run holds nothing (`NoMemory`); that what is cached, stored or in the hands of
  a reload was created (`WasCreated`: the eviction that makes room for a new session cannot hit
  the new one); and that what a reload still has to enter is what the file holds, unless a save
  has overtaken it (`FetchedOrOvertaken`).  From it `SessionType`, `SessionCleanIsOnDisk` and
  `SessionReleasedIsStored`, for any number of goroutines and sessions and any size of the
  cache.
- `StateProofs`, the skills.  `SkillInv`: a directory that is not there has no manifest
  (`DirsTrue`); as long as no report is waiting that drops the skill (`Quiet`), a Load in
  progress that missed nothing has read what is there (`LoadsTrue`), and a cached skill that
  missed nothing is what the directory of the highest level that has it holds (`CachedTrue`);
  and the watcher has told everything before the channel closes (`WatcherInOrder`).  From it
  `SkillCacheIsCurrent` and `SkillChangesOpen`, for any number of loaders and changes and any
  levels misnamed.
- `StateProofs`, the context.  `ContextInv`: one context for the session (`OneContext`), that
  the result of each segment is in the channel or being made, and a summary tells of the
  messages copied (`JobsTrue`), that a stored summary is of a compression that has ended
  (`StoredTrue`), and that nothing kept was lost (`KeptTrue`).  From it `NothingLostAlways`,
  `SummaryWholeAlways`, `SummaryOfTheseAlways` and `ContextTypesAlways`, for any list of
  messages, any segment size and number of compressions.  The proofs need a little theory of
  flattened and of sorted sequences, stated as lemmas before them.
- `WorkerProofs`.  `WInv` has three parts.  `Shape`: types, and that a call and a worker have
  the pool and the job their places need.  `Life`: a pool that is closed is over for every
  worker (`ClosedIsOver`), so that CancelAll returns to none.  `Tree`: whoever is in a
  worktree has an active entry for it (`InActiveTree`), and an entry keeps its branch for
  ever (`BranchStays`), which is what makes `git worktree add -b` refuse the id a second time.
  From it `WorkerNoneOutlivesStop`, `WorkerOneOwner`,
  `WorkerSettledTreeStays` and `WorkerType`, for any number of workers, calls, ids and pools.
  `JobInv` follows a job from its pusher through the task queue, a worker and the result queue to
  the call that collects it.  It is never in two of these (`Apart`), nor with two workers or
  two calls (`Once`), nor twice in a queue (`NoneTwice`); wherever it is, that is its own
  call's pool (`Owned`); and it is somewhere until the pool is stopped (`NoneLost`), which needs
  that nothing is closed or cancelled before `stopped` is (`StoppedFirst`).  From it
  `WorkerJobInOnePlace`; and `WorkerOwnResultsWhenAlone`, since a call returns when it has
  as many results as tasks (`Collecting`), they are all its own, and none comes twice.

Induction over data is out of this prover's reach, but several of these theorems need only a first
position: a first name in an order, a first message that differs.  The least-number
principle gives it (`LeastNumber`, from the library's `NatLessThanWellFounded` and
`WFMin`, of which neither takes an operator as a parameter).

Only model-checked: liveness, since no prover here handles fairness with ENABLED (`Returns`,
`DispatchReturns`, `CancelReturns`, `SendReturns`, `SyncEnds`, `CallIsAnswered`,
`CompressionEnds`).

## 6. Findings

Each is in `PROJECT.json` with the line it contradicts.

1. `Shutdown` unloads in reverse alphabetical order, not reverse load order
   (`core/loader.go:256`).
2. Two Loads of one plugin both succeed, and the first scope is lost (`core/loader.go:93`).
3. A provider that is unloaded between Load's look at the injected keys and Apply makes
   the consumer's `Use` panic (`core/loader.go:77`).
4. Of two plugins that provide one key, unloading the first takes the second one's service away, and
   unloading the second brings back the first one's (`core/context.go:120`).
5. LoadPlugins finds an unknown dependency after it has loaded the plugins before it
   (`core/loader.go:173`).
6. `Submit` on a stopped pool may panic (`internal/subagent/worker.go:72`).
7. Concurrent Dispatches may return each other's results (`internal/subagent/orchestrator.go:70`).
8. Agents do not work in the worktrees made for them: the path is discarded, and they share the
   program's directory (`internal/subagent/worker.go:119`).
9. Close during a restart leaves the new MCP process running (`internal/mcp/stdio.go:116`).
10. A save drops every session that was closed or evicted (`internal/tui/session.go:90`).
11. A reload takes no lock: it puts old states over newer ones, which a save then
    writes (`internal/tui/session.go:144`).
12. A reload makes the cache outgrow its size for good (`internal/tui/session.go:83`).
13. Delete leaves the session in the file, and the next reload brings it back
    (`internal/tui/session.go:217`).
14. On an isolated scope `Provide` leaves no disposer (`core/context.go:91`).
15. Two dispatches at once both run a Once listener (`core/event.go:79`).
16. The registry runs the tool of the name that listeners leave in the call, and the permission
    plugin has checked the name it came with (`plugin/tools/registry.go:57`).
17. The registry's own permission check never denies (`internal/tools/registry.go:131`), so a
    listener in front of the plugin lets a denied tool run.
18. The after hooks of a cancelled call do not run (`internal/tools/registry.go:171`).
19. The agent wraps errors and then tests their type, so an `ErrRetryable` is not seen at a
    step's first failure (`internal/agent/loop.go:213`).
20. After `RunPlan` the agent's state is idle, not waiting for approval
    (`internal/agent/plan_mode.go:15`).
21. Compression removes no message, so the context grows; and nothing calls it
    (`internal/contextmgr/manager.go:183`).
22. No code makes a skill Watcher, so an update is seen after a restart only
    (`internal/skill/loader.go:109`).
23. With a Watcher too a cached skill may stay old: files changed in place, a removal that
    fails half-way, a name that is not found, a Load the watcher overtakes
    (`internal/skill/watcher.go:32`).
24. A 5xx answer is never retried by the anthropic and deepseek clients: their test for it
    looks for other words than their error has (`internal/llm/anthropic/client.go:213`).
25. The deepseek parser says done before it looks at the scanner's error
    (`internal/llm/deepseek/client.go:195`).
26. The failover is wired to nothing: only tests make a `FallbackClient`
    (`internal/build.go:78`).

## 7. Not modelled

- *Interaction service* (`internal/tui/service.go`): a channel per session, with timeouts. Its
  hazard, a second question that takes the first one's channel, needs two questions of one
  session at a time, and `RequestConfirmation` has no caller in the program.
- *Long-term memory*: SQL statements and vector arithmetic, no state between two statements.
- *Terminal UI*: one goroutine that turns keys and messages into text.
- *Command line, configuration, wiring*: sequential construction.  The plugins' Inject and
  Provides are constants of `Kernel` and `LoadOrder`; the order in which servers are connected
  is `McpClient`'s.
- *Built-in tools*: each is a call to the system; to the rest it is a tool that succeeds,
  fails or is late.
- Parts of modelled components: the panic of a wait group that is counted up while a Sync waits
  on it; tools that are in the registry before the MCP servers' are (the built-in ones); the
  worktree metadata file, ListActive and Cleanup; the permission engine's third layer and the
  first-use table's file; `Start`, plugin configuration and `MaybeUse` of the kernel; handlers
  that panic; two processes on one session file; what texts, results and schemas say.

What would come next: the worktree metadata with a crash between its write and the next
read; `Interaction` once something asks a question;
abstract specifications of the kernel (a registry of plugins) and of the pool (a set of jobs).
