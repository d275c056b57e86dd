# Aurict in TLA+

TLA+ models of the concurrent core of Aurict, a terminal coding agent: what
several agents, tools and the user do to the same files, workers and sessions at
once. Each module is translated from the code at this commit, model-checked with
TLC on small instances, and, where it pays, proved with TLAPS for every value of
its constants.

Paths are under `src/packages/core/src/` unless they begin with `cli/`, which
stands for `src/packages/cli/src/`. `PROJECT.json` maps each definition to its
lines and lists components, runs, mutants, findings, hazards and theorems.

| | module | models | state |
|---|---|---|---|
| 1 | `FileLock` | `agent/file-lock.ts` | checked; safety proved in `FileLockProofs` |
| 2 | `SnapshotHistory` | `snapshot/*`, the file tools, `cli/tui/app/turn-checkpoints.ts` | checked; safety proved in `SnapshotHistoryProofs` |
| 3 | `AgentPool` | `agent/pool.ts` | checked; safety proved in `AgentPoolProofs` |
| 4 | `ToolMutation` | `tool/executor.ts`, `transaction/*`, `acquireFileLocks` | checked; safety proved in `ToolExecutorProofs` |
| 5 | `TaskGraph` | what an orchestration promises (`docs/multi-agent.md`) | abstract |
| 6 | `Orchestrator` | `agent/dag-orchestrator.ts`, `task/manager.ts`, `tool/built-in/orchestrate.ts` | checked; safety and the refinement of `TaskGraph` proved in `OrchestratorProofs` |
| 7 | `PermissionGate` | `permission/store.ts` and the clients that answer it | checked; safety proved in `PermissionGateProofs` |
| 8 | `AgentTurn` | `runtime/agent-runtime.ts`, the attempts of `agent/loop.ts`, `provider/fallback.ts` | checked; safety proved in `AgentTurnProofs` |
| 9 | `McpManager` | `mcp/manager.ts`, `mcp/client.ts`, `mcp/bridge.ts` | checked; safety proved in `McpManagerProofs` |
| 10 | `ToolCache` | `tool/cache.ts` as `tool/executor.ts` uses it, `tool/semantic-cache.ts` as `tool/built-in/read.ts` uses it | checked; proved in `ToolExecutorProofs` |

`MC*` modules give the constants of a module their values for TLC; a `.cfg` names
a run. Each passing run asks several properties of one instance.

## The system

A user's prompt becomes a *run*: the agent loop asks a model for the next step,
executes the tool calls of that step in parallel, and repeats. A tool may start
subagents, each in a worker thread with a loop and a session of its own; the
`orchestrate` tool starts a whole graph of them. All of them work in one
directory. Everything is asynchronous TypeScript: one thread interleaves at every
`await`, and worker threads share nothing but the file system and messages.

| component | state | operations | interacts through | hard behaviour | correct means |
|---|---|---|---|---|---|
| **File lock** `agent/file-lock.ts` | one lock file per edited path, private claim files | acquire, takeover of stale locks, release, sweep | the file system, from every worker thread; called by the tool executor | any interleaving of system calls, leases that run out under a working caller, deaths | live leases of different owners exclude each other; nothing blocks a path for ever |
| **Snapshots** `snapshot/*` | histories per session, a queue of persists, one history file | take a snapshot, undo, roll a patch back, rewind a turn | called by `write`, `edit`, `apply_patch`, `undo`, by the turn checkpoints of the TUI and of the desktop | state copied before an `await` and put back after it; indices kept across trimming; parallel tools | a rewind leaves the session's files as they were at the checkpoint; a failed patch leaves no trace |
| **Worker pool** `agent/pool.ts` | entries by caller-chosen id, a name table, a timer, a promise, a thread and a session for each worker | spawn, handle a message, onerror, timeout, cancel, startup scan | messages of the workers; called by subagent tools and the orchestrator | late messages, retries under an old id, error against timeout against cancel, process death | each caller gets its own worker's result, once; no worker leaks; a worker that falls silent is given up |
| **DAG orchestrator** `agent/dag-orchestrator.ts`, `planner-dag.ts` | status and attempts of the nodes of a plan | start a batch of ready nodes, retry, block descendants | spawns through the pool, writes the task manager | pool limits beneath it, failed ancestors, deadlock detection | every node ends; dependents run after dependencies; nothing runs after a failed ancestor |
| **Worker runtime** `agent/worker-runtime.ts` | inbox of messages, the current batch | run batches, drain the inbox, post the outcome | messages to and from the pool | a message that arrives after the last drain | a message that was accepted is read |
| **Tool executor and workspace transaction** `tool/executor.ts`, `transaction/workspace-transaction.ts` | pre-images and fingerprints of the files of one call, the locks it holds | lock, begin, run with a timeout, commit or roll back, release | file lock, tools, disk | a tool that goes on after its timeout, a writer beside it | a failed call leaves no trace and destroys nobody else's write |
| **Permission gate** `permission/store.ts` | waiting requests, early responses | wait, respond, time out, abort, cancel | UI and tools | responses before the request or after its end | each request settles exactly once, with its own response |
| **Agent loop, provider fallback** `agent/loop.ts`, `provider/fallback.ts` | position in the chain, retries, the attempt and its open tool calls | attempt, retry, fall back, give up, stop at the deadline | model APIs, tools, the signal of the run | streams that fail or stall after tools have run; aborts while a driver waits | no effect twice; every run ends |
| **Run state** `runtime/run-state.ts`, `runtime/agent-runtime.ts` | phase of a run | transition | agent loop, UI | abort and failure against completion | a run ends in one final phase |
| **MCP manager** `mcp/manager.ts` | servers, clients, registered tools | connect, disconnect | child processes, tool registry | connect and disconnect of one name overlapping | registered tools belong to a live client |
| **Task manager, checkpoint store** `task/*` | tasks and their dependencies, one JSON file | add, update, persist | orchestrator, UI | two processes on one file | no lost task |
| **Tool caches** `tool/cache.ts`, `tool/semantic-cache.ts` | results, and below them file contents, with a stamp of their source | get, put, invalidate, expire, prefetch | file tools, caches of their own per thread | stamps taken after the read, changes by others, prefetches beside reads | no answer older than its call; own edits are seen |
| **Compaction** `session/compaction-runtime.ts` | a circuit breaker | compact, trip, half-open | a model | | not modelled: sequential, and what it computes is text |
| **Tools, skills, recipes, providers, storage** | none that outlives a call, or rows of a database | | | external programs and services | not modelled: pure I/O and text |
| **TUI, desktop, server, remote control** | what is on the screen | | the components above | | not modelled: rendering and transport |

The components meet at the tools. A run (`AgentTurn`) starts tools as their calls
arrive. The executor looks into the cache, asks for permission, takes the locks
of a subagent's `write` (pool, file lock), reads the pre-images (transaction), and
runs the tool, which takes a snapshot (snapshots) and writes. The `orchestrate`
tool drives the pool and the task store. Where one module relies on another it
says so: `Orchestrator` takes from `AgentPool` that a spawn settles at most once
and that `spawn()` refuses beyond `maxWorkers` entries, and nothing more: not that
a worker ever ends; `ToolMutation` takes a lock for granted that `FileLock` shows
can be lost; `AgentTurn` knows of a tool only when it starts and when it ends.

## 1. FileLock

`acquireFileLockResult` and `releaseFileLock` for the lock file of **one** edited
path; paths are independent files, no call waits for a lock, so nothing ties two
paths together.

*State.* `slot` is the file at `lockPathFor(...)`, `claim[c]` the
`.reclaim.`/`.release.` file of caller `c`. A file has bytes, a modification time
and possibly a `writer`, the caller that has opened it and not yet written: it is
visible and empty then, and the write goes to the file wherever a rename has
taken it. If that write fails (a full disk) the file stays empty and the call gets
the exception. `pc[c]` names the `await` a call is suspended at; `stamp` is the `now`
it read when it started, `kept` the bytes it remembers (`existingRaw`, then
`capturedRaw`), `lease` the lock whose acquire succeeded. Three history variables:
`lost`, the locks taken by a capture that had read other bytes and not put back;
`torn`, set when a capture took a file between its open and its write; `failed`,
set when a write failed after its open.

*Actions.* One per system call with the code around it: `Create`/`CreateWrite`
(`writeFile` with `wx`), `CreateFails`, `ReadLocked`/`ReadOwned`/`ReadStale` (the
three outcomes of the read), `PruneOrphanClaims`, `RenameToReclaim`,
`RenameFails`, `CheckMatches`/`CheckMismatch`, `Install`/`InstallWrite`,
`SlotReoccupied`, `Restore`/`RestoreWrite`, `WriteFails`, `UnlinkClaim`; the same for release;
`FinishShared` ends a call that found the lock already its owner's and does not
give it back; `Crash` is `AgentPool.terminate` or the end of the process at any
point; `Tick` is time.

| run | question | outcome |
|---|---|---|
| `lock_contend` | three callers, lease of 2 ticks, clock to 3, one death | a live lease stands in the slot (`LeaseStandsUnlessLost`) and is exclusive (`ExclusiveUnlessLost`) unless a mistaken capture took it; an unreadable slot needs a death, a failed write or a torn capture (`BlankNeedsTear`) |
| `lock_exclusive` | is it exclusive outright? | **no** - finding 1 |

*Bounds.* Three callers: one whose lease goes stale, one that takes it over, one
that finds the slot empty - the shape of every known way to lose a lock. `TTL = 2`
and `MaxTime = 3` let a lease be read live and stale, run out during an acquire,
and be renewed once. `PruneAge = 0` lets the sweep delete any claim; the code's
age is reached as well because a rename keeps the modification time of the lock.
Callers are symmetric, as each acts for an owner of its own.

*Proved* (`FileLockProofs`), for any callers, owners, lease, sweep age, clock and
crash bounds, from `ConstantsAssumption` and `NullsAssumption` only:

- `TypeCorrect`: `Spec => []TypeOK`.
- `LeaseStands`: `Spec => []LeaseStandsUnlessLost`.
- `Exclusive`: `Spec => []ExclusiveUnlessLost`, from the former: both leases would
  be the bytes of the one slot, and a lease names its owner (`LeaseIsOwn`).
- `BlankOnlyByTear`: `Spec => []BlankNeedsTear`, with an invariant of its own,
  `Readable`: unless a capture, a death or a failed write has come in between, a file
  without bytes has a writer that is still to come.

`LeaseStandsUnlessLost` is not inductive: it says nothing of a call before its
acquire returns. `LeaseInv` adds what it needs there:

- `KeptIsStale`: what a reclaim is about to take over had already run out when the
  call started, so a rename that finds those bytes takes no live lease;
- `LeaseIsOwn`: a lease names the owner of its caller, so the lock of a caller that
  is alone of its owner is mistaken for no other;
- `PendingStands`: the lock of a caller between the open and the write is as safe
  as that of one inside its lease, as another rename may come in between.

`LocalStep` shows that each action keeps the first two, `StandsStep` that it keeps
the lock in the slot; the hard cases are the renames, where either the capture is
the caller's own, or takes something that has run out, or is recorded in `lost`.

## 2. SnapshotHistory

*State.* `histories` is the Map of `SnapshotManager` and `order` the insertion
order of its keys, which decides what trimming drops. `queue` is the promise
chain `persistQueue`, `copy` the array the persist at its head is writing.
`disk` has one content per file: `Original`, or the call that wrote it last; a
file that does not exist is a content like any other, as a restore writes or
unlinks what the snapshot says. `at` is the file of its list a call has got to.
`checkpoint` is the user's turn checkpoint: the length of the history, as the
code keeps it, and the disk at that time, to state the promise.

*Actions.* A file tool reads the pre-image (`ReadPreImage`), pushes it and queues
a persist (`PushSnapshot`), waits for that persist, then writes (`WriteFile`) or
fails, the file changed or not (`FailWrite`; for a patch `FailPatch`, which goes
on to `restoreToMark`). A patch does all its snapshots first, then all its
writes. `Undo`, `Rewind` and the rollback share `TakeBack` (`pop`/`splice`) and
`RestoreNext`/`RestoreFails`/`RestoreDone`. `PersistStart` copies and trims,
`PersistEnd` rebuilds the Map from the copy and resumes the caller; the write of
the history file may have failed, which turns `storage` off for good.
`SkipSnapshot` is a file over the size limit or an unreadable one.

The code does not keep the promise of a rewind outright; `accidents` records what
has come between, and the property is that nothing else ever does:

- `rebuild`: a persist put back histories other than those that stood, having
  copied them before a push or a take-back, or having dropped the oldest entries;
- `overlap`: a rollback, an undo, a checkpoint or a rewind ran beside another call
  of its session;
- `below`: an undo reached below the user's checkpoint;
- `fault`: a snapshot was skipped or a restore failed.

Both properties speak of a session's own files, those that calls of no other
session change (`Own`): another session's history knows nothing of this one's
writes, and its rollback may put them back. With that, a failed patch leaves no
trace then or ever after, whatever is undone or rewound later.

| run | question | outcome |
|---|---|---|
| `snapshot_turn` | a write, an undo and a two-file patch, two at once (a rewind counts), one fault, a rewind at any time | `RewindRestoresUnlessAccident`, `FailedPatchLeavesNoTrace`, `EveryCallReturns` |

*Bounds.* Two at once, rewinds included (`MaxParallel`), give every pair of
operations; a third would only add persists to the queue. The calls can push three entries and the history holds
three, so trimming stays out of this run: an accident in any case. The two-file
patch shares a file with the write, so that entries of one file stack up.

*Fairness.* File operations end and the event loop runs some continuation that is
ready (`WF_vars(Continue)`). This does not favour the persists: `EveryCallReturns`
needs the chain itself to hand on to the next, and each call to be a bounded series
of steps. Nobody has to start a call, undo or rewind.

*A rewind beside tools.* The UI looks at `loading` only
(`cli/tui/hooks/useCommandController.ts:30`), which `finalizeTurn` has set to false
(`useAgentSubmit.ts:147-149`) while tools of the aborted turn may still write. So a
rewind, like a checkpoint, may start at any moment; if it meets a call of its
session that is the accident `overlap`. The same goes for the hazards of
`persist` and of marks: nothing in the code protects from them, so they are named
and set aside, and `PROJECT.json` lists them without a property.

Left out: `loadPersisted` and `clear`, which nothing calls; undo without a scope;
and the 5 s limit of `takeSnapshotBestEffort`, after which a tool writes while its
snapshot is still on its way.

## 3. AgentPool

*State.* `entries` (id -> spawn) and `byName` are the Maps of `AgentPool`.
`promise`, `thread`, `timer`, `session` and `outbox` belong to the spawn that made
them, not to the id: the difference between the two is what the module is about,
since handlers, timers and `cancel` look the id up when they run. `result` is the
worker whose outcome resolved a promise. `Predecessors` are the earlier attempts
of the same orchestration node, under the same id and in the same session, each
settled before the next is made: it failed, or it was completed and the write of
that failed, which is retried as well (`dag-orchestrator.ts:97-104`).
`PoolAssumption` says so.

*Actions.* `Spawn`/`SpawnFull`; the worker posts "done" or "error", throws, or
falls silent; `HandleDone`, `HandleError`, `HandleStray` (nobody under the id),
`HandleOnError`; `Send` and `Route`, the letter of a worker (`send_message`) and
its way to the recipients the pool finds for the name, id or `*` it is addressed
to, by then; `Timeout`; `Cancel`; `Restart`, the death of the process and the
startup scan of its successor (only of a process that has a worker or a name to
lose: any other restart changes nothing). A heartbeat only re-arms a timer, so it is the
guard `Beating` of `Timeout`: while a worker under the id runs, the entry of that
id does not time out.

| run | question | outcome |
|---|---|---|
| `pool_ids` | five spawns of two sessions, one a retry, two under one id, one letter to a name that three agents may have; at most 2 workers a session, one restart | entries, threads, promises, timers and sessions of a spawn live and end together (`PoolMirrorsWorkers`, `EntryIsLive`), a caller gets its own result as long as nobody else uses its id (`OwnResultIfUndisturbed`), names resolve (`AddressableByName`), letters stay in their session (`MailStaysInSession`) |
| `pool_threads` | does `maxWorkers` bound the threads of a session? | **no** - finding 3 |

*Bounds.* The five spawns contain a retry, a neighbour in the same session with a
name of its own, a node of the same session and one of another session under one
id. `MaxWorkers = 2` lets the pool be full and not full with them (8 in the code);
`pool_threads` needs only one. One letter is enough, as letters do not meet:
routing reads the tables and changes none of them.

*No liveness.* `docs/multi-agent.md:88` says of the in-process pool "5 minutes per
task", and the code does not keep that: the heartbeat of a worker is an interval of
its own (`worker.ts:27`), the pool starts the timer anew with each one
(`pool.ts:314-318`), and a provider that does not stream has no deadline
(`agent/loop.ts:745-754`). A worker that hangs in such a call beats for ever and
keeps its caller waiting. So no fairness makes a worker end, and the module promises
no settlement. What it does promise is safe: a promise that waits always has a living
worker and a timer behind it (`EntryIsLive`), and a worker that falls silent leaves
that timer to run out.

*External, as the code uses it.* `Worker.terminate` drops events not yet
dispatched; an uncaught error raises `onerror`. A worker thread imports the pool
as well and so runs the startup scan, which is harmless, as it finds nothing.

## 4. ToolMutation

One execution of a file tool, as `executeTool` runs it, with others beside it.

*State.* `disk` has the call that wrote each file last, `locks` the session that
has each lock. Per call: `pc` and `at`, the stage of the executor and the file it
has got to; `acquired` is `acquiredLockPaths`; `pre` and `seen` are the captured
files and the result fingerprint of its `WorkspaceTransaction`; `tool`, `tat` and
`snap` belong to the tool, which has a life of its own once its time is up.
`stray` is history: the calls whose tool changed a file after the executor had
gone on without it.

*Actions.* `LockAcquired`/`LockOwned`/`LockRefused` for each path in turn;
`Begin`, `Commit`, `Compare` and `Restore` for each file, as every read and write
is an `await` of its own; `Timeout`, with a tool that stops or goes on;
`Release`; `Fault`, a file operation of the executor that throws. The tool takes
snapshots (a patch), writes, fails before or after a write, and undoes (a patch).
`Save` is the user's editor, which knows no locks.

A call is *isolated* if everybody who had to do with its files is a worker of
another session, and nobody's tool wrote late or broke off with an exception. For
these the locks keep their promise; nothing does for the others.

| run | question | outcome |
|---|---|---|
| `tool_workers` | a two-file patch, an edit of another worker, a sibling of the first and a save of the user, on shared files; one fault | isolated calls are atomic (`IsolatedCallIsAtomic`) and see only committed results (`NoDirtyRead`); a lock stands exactly as long as a call in flight has to give it back (`LocksAreHeld`); a call waits for nobody (`WaitsForNobody`) |
| `tool_user` | does a rollback spare the user's concurrent change? | **no** - finding 2 |

*Bounds.* Two files and three workers are the least in which a call is refused its
second lock, shares one with a sibling and meets a half-done change. One fault,
of the edit or its late tool; a tool that hangs, fails or is in time costs none.

*Assumed.* A lease outlives its call: its length is the tool's time limit plus the
default TTL, and what happens if it does not is the subject of `FileLock`. A tool
that hangs at its limit never writes again, or goes on; its validation errors look
like a hang that ends at once. Validation, diagnostics and formatting
around the transaction are left out. Files are compared by their last writer, not
by a hash, so two writers of one content count as different.

## 5. TaskGraph and Orchestrator

`TaskGraph` is what the documentation promises of an orchestration: a graph whose
nodes run at most once, after everything they depend on has completed, and are
blocked when something they depend on was lost. It knows no attempts, batches,
pool or task store.

`Orchestrator` is the code: `run()` of any number of calls of the tool in one
session, over one pool and one task store.

*State.* `call` is where each `run()` stands, `tool` what the agent loop knows of
the tool call, `status`/`attempts` the fields of a node, `worker` whether the
promise of its `spawn()` is awaited. `toStart` are the nodes of a batch that
`map()` has not reached, `batch` those the `Promise.all` waits for. `outputs` and
`errors` are the result tables, `tasks` the store of `task/manager.ts`. Histories:
`hit`, the calls one of whose writes failed; `redone`, the nodes that had
completed when their write failed.

`dependencies` and `blank` are what the task store knows of its tasks beyond their
status; `refused` are the calls whose tasks would have closed a cycle.

*Actions.* `Begin`/`BeginFails`/`BeginCyclic` (creating the tasks: all written, one
not written, one refused by `assertNoCycle`), `BlockDescendant` (one round
of `blockFailedDescendants`), `SelectBatch`, `Return`; `StartNode`,
`StartNodeFails` (`updateTask` outside the `try` of the attempt: the write fails, or
the task is blank), `RefuseNode` (`PoolFullError`); `WorkerSucceeds`,
`CompletionLost`, `Retry`, `GiveUp`, `LastCompletionLost`; `Abandon`, the executor
giving the tool call up. The thread runs until it awaits: while a call is
`looping`, `starting` or `failing` no worker's message is handled (`Quiet`).

| run | question | outcome |
|---|---|---|
| `dag_plan` | a plan of five nodes, two of them with overlapping scopes and one with a retry, beside a plan of one node, on two workers; a store that fails once; a task left over from before, of four kinds; a node whose description may be blank | overlapping scopes exclude each other (`ScopesSerialized`), the loop never reaches its deadlock error and throws only for a write, a blank task or a cycle with old tasks (`NeverDeadlocks`), the store shows the nodes (`TasksMirrorNodes`), results are complete (`EveryNodeAccounted`), calls end or wait for a worker (`EveryCallEnds`), and the whole implements `TaskGraph` (`ImplementsTaskGraph`) |

*Refinement.* `Graph == INSTANCE TaskGraph WITH state <- NodeState`. `NodeState` is
`status`, but `"running"` as long as a worker is at the node: after a completion
whose write failed, `status` says "completed" while the next attempt runs.

*Bounds.* The plan has a fan-out, a join, an independent node and a conflict; two
workers and a batch of two let the pool be full because of the other call. One
failing write meets every write of the code.

*Fairness.* The thread finishes what it has begun. No worker has to end (see
`AgentPool`), so a call may wait for one for ever, and `EveryCallEnds` says so.

*Throws.* `orchestrate.ts:70` admits a description of white space, `createTask` trims
it to nothing (`manager.ts:67`) and the first `updateTask` of that node throws from
`normalizeTask` (`manager.ts:89`, `:206`), which ends the run outside the `try`
(`dag-orchestrator.ts:81`). `createTask` throws if a task would close a cycle with
tasks that were left over (`manager.ts:79`), of any status and dependencies
(`OldTasks`). The same check in `updateTask` (`manager.ts:91`) cannot fail, as the
store stays acyclic (`AcyclicStep`). `load()` parses the file only if the session is
not in memory; `createTask` has put it there when `run()` updates it, so its errors
come before the first task and look like a failed write.

*Assumed*, as `validate()` has checked it before `run()`: dependencies are known,
of the same plan and without a cycle (`PlanAssumption`). Calls use different node
ids; what happens if they do not is the subject of `AgentPool`.

## 6. PermissionGate

*State.* `gate[r]` and `answer[r]`, a request and what its `wait()` resolved with;
`settlements[r]`, how often the listeners were told; `early`, `earlyResponses`.
`queue` and `screen` are the prompts of the terminal UI and the one drawn last,
`checking` and `microtask` the requests a mode answers without a prompt,
`published` what a phone was told of, `aborted` the turns whose signal is aborted.
`stage` is the turn's: it works, has lost its controller to an interrupt, or is over;
`forgotten` is history, see below.

*Actions.* A tool asks (`AskUser`, `AskProjectAuto`, `AskFullAccess`,
`AskHeadless`, by the mode the client is in); `Microtask`, `VerdictAllows`,
`VerdictAsks`, `UserAnswers`, `RemoteAnswers` respond; `Timeout`,
`UserInterrupts`, `RemoteInterrupt` and `CancelActiveTurn` settle without one.
`TurnEnds` is `finalizeTurn`, at any moment: a turn whose stream has failed ends with
its requests pending (`useAgentSubmit.ts:252-258`), and `NextTurn` finds them. `Draw`
is the UI catching up, `Switch` the user changing the mode; full access keeps Project
Auto on for the requests it does not grant (`useProjectAutoMode.ts:23-26`).

Esc on a prompt when no turn has a controller denies that request and empties the
queue, and nothing cancels the others (`app-keyboard-actions.ts:21-22`, `:88-89`):
they wait for their timers without a prompt, and are `forgotten`.

| run | question | outcome |
|---|---|---|
| `gate_settle` | two requests of one turn and one of the next, in each of four modes, all answers and interrupts | each settles exactly once (`SettledOnce`); one that waits can be answered unless forgotten, and a prompt is live (`PromptsMatchPending`); none is allowed after its interrupt (`InterruptDenies`); all settle (`EveryRequestSettles`) |

*Bounds.* Two requests of one turn share the prompt queue and the interrupt; one
of the next turn meets what the first has left behind.

*Fairness.* Timers fire and queued microtasks run. Nobody has to answer, and a
check of Project Auto need not end.

## 7. AgentTurn

One run: `AgentRuntime.run()`, the drivers that repeat an attempt (`withRetry` or
`ProviderFallback`), and the attempt itself, over a chain of providers.

*State.* `phase`, `pos`, `tries`, `attempt` of the drivers; of the attempt, `calls`
(the tools the SDK has started), `parts` (what is on the stream and unread),
`open`, and what the loop has read: `names`, `happened`, `completed`. `aborted`,
`spent`, `state`, `event` and `promise` are those of the run. `zombies` are tools
that go on after their attempt. Histories: `wrote`, the attempts that started a
tool with effects; `dropped`, those whose stream broke over an unread call.

*Actions.* `EmitCall`, `ToolEnds`, `EmitLast` put parts on the stream; `ReadCall`,
`ReadResult`, `ReadError`, `ReadEnd` take them off; `StreamBreaks`, `CallRejects`,
`DeadlineFires` (whatever is unread or still running), `AttemptAborted` end an attempt, `CallResolves` one of a provider
that does not stream; `BackoffOver`, `DriverAborted`; `Abort`, by the user or the
tool budget; `RunFinishes`, completed or blocked (both are told of as
`run.completed`, `agent-runtime.ts:122-136`), and `RunFails`.

| run | question | outcome |
|---|---|---|
| `turn_run` | a streaming provider and a fallback that does not stream, a retry each, two tool calls an attempt and a budget of two | no attempt follows one that had effects, but for a stream that broke over an unread call (`EffectsNotRepeated`); the run ends once, event, state and promise agreeing (`OneEnding`); it ends (`EveryRunEnds`) |

*Bounds.* One streaming and one other provider reach both branches of
`runOneAttempt`, a retry each both branches of the driver. Two calls let one be
read and one not, one have effects and one not, and together with a retry exceed
the budget.

*Fairness.* The drivers and the loop go on, what is on a stream is read, tools
end, an armed deadline fires: text keeps it from firing, and a stream has only so
much of it. A provider need not send anything; one that does not
stream may hang for ever, as there is no deadline for it, and `EveryRunEnds` says so.

## 8. McpManager

*State.* `server`, the entry under one name; `registry`, the client behind each
tool id; `link`, the connection of each client; `pc` and `took` of each call.
Histories: `raced`, calls pending together with another; `torn`, connects whose
registration threw half way; `last`, the call that began last.

*Actions.* One per stretch between two awaits of `connect()` and `disconnect()`:
`ConnectReplaces`, `Opens`, `OpenFails`, `Registers`, `RegisterFails`,
`ConnectFails`, `Detach` and the rest; nothing orders the calls of the session
start, the HTTP server and the desktop. `ServerDies` is a process or a connection
that goes away by itself: `client.ts` has no `onclose`, so the server stays
"connected" and its tools in the registry until somebody disconnects it, and calls of
them fail.

| run | question | outcome |
|---|---|---|
| `mcp_calls` | two connects and two disconnects of one name in any order and overlap, two tools | a tool in the registry is one of the listed server's and the other way round, the server being there or gone (`ToolsAndServerAgree`); no process is left behind (`NoClientLeaks`); the last call decides (`LastCallWins`); `disconnect()` returns even if the server never closes (`DisconnectReturns`) |

The first three set aside calls that met another one, since for those the code
does not keep them; that no name stays "connecting" holds for all.

*Bounds.* Two of each kind give every pair and every order of a replacement; two
tools let a registration throw between them.

*Fairness.* Requests of the MCP client end or time out, and `disconnect()` gives a
close one second. Nothing is assumed of the close itself: a server may never exit.

## 9. ToolCache

*State.* `version` is that of the file. `cache` has the result per thread and tool,
`sem` the file contents per thread, each entry with the version it has `seen`, the
stamp of the moment it was stored, and `late`: the file had changed in between. A
running call has `got` a version, and a read holds the entry of `sem` it asks
`stat()` about (`held`); `floor` and `own` are what it must not fall behind.
`validates` are the calls for which `mtime_tool_cache` is on (`executor.ts:596-600`).
Histories: `old` and `blind`, the calls whose answer was too old; `spoiled`, those
answered by a late entry of either cache; `unchecked`, those answered by a result
whose stamp was not compared, because there is none or the feature is off.

*Actions.* The lookup: `Hit`, `Miss`, `Run`. The read tool: `AskSemantic`,
`SemanticAnswers`/`SemanticDrops`, `ReadFile`, `SemanticSet`; a `Prefetch` takes the
last two steps for a file that another one imports. Other tools: `Look`, `Change`.
The end: `Store`, `Fails`, `ReturnEdit` with the invalidation, `ReturnQuietly`
without: only `write`, `edit` and a patch that succeeded empty the cache
(`executor.ts:777-785`), not a failed `apply_patch`, `ast_edit`, `notebook_edit` or
`bash`. `Expire` (time to live, or the size limit) and `SaveFile` by somebody else.
`CacheInit`, `CacheNext` and `CacheSpec` have names of their own, so that one module
can hold the proofs about both parts of the executor.

| run | question | outcome |
|---|---|---|
| `cache_reads` | two reads, one of them perhaps with the feature off, a search, a prefetch and a patch of one agent, side by side, and a save of the user | a read is no older than its call (`ReadsAreCurrent`), an agent that looks again finds its edit (`OwnEditsAreSeen`), unless an entry was late, or for the first unchecked |

*Bounds.* An entry needs one call to store and one to read it; a patch and a save
are the two ways it gets old. Threads have caches of their own, so another thread
is a `SaveFile` to this one. The two reads are alike, so they are symmetric.

## Findings

1. **A lock can be lost to a late release or a second reclaimer**
   (`lock_exclusive`). The rename captures whatever is at the path. A release
   whose lease ran out after its read, or the second of two callers that read the
   same stale lock, takes the fresh lock away; while the slot is empty a third
   caller creates its own, the restore gives up, and two owners are in live leases.
2. **A rollback overwrites a change of the user** (`tool_user`): the fingerprint it
   compares with is taken after the tool has ended and so contains the change; the
   base revision is recorded and never compared.
3. **A session can have more threads than `maxWorkers`** (`pool_threads`).
   `docs/multi-agent.md:81` says "up to 8 concurrent workers per parent session".
   `spawn()` counts the entries of the session (`pool.ts:223`), and a spawn of
   another session under the same id takes the entry over (`pool.ts:269`): the first
   worker runs on and counts no more.

### What the named exceptions stand for

Properties that hold "unless" name what the code does not guard against. Each is a
history variable set by the step that does it, so that the property says nothing
else breaks the promise.

- `torn`, `failed` (FileLock): an empty lock file, left by a death or a failed write
  after the open (`file-lock.ts:114-116`, `:142-149`, `:220`), is never reclaimed (`file-lock.ts:123`), although line 59 says orphans never block.
- `accidents` (SnapshotHistory): `persist` rebuilds all histories from a copy made
  before an `await` (`snapshot.ts:39`); a mark is an index that trimming and undos
  move (`snapshot.ts:144`, `store.ts:27`); a rollback or a rewind takes back what
  tools beside it have written (`apply-patch.ts:380`).
- `Undisturbed` (AgentPool): ids are chosen by callers, and a second spawn under
  one replaces the entry (`pool.ts:269`). Also in `Restart`: the startup scan looks
  for the status "running" (`pool.ts:100`), which is never stored
  (`storage/queries.ts:19`), and so closes nothing.
- `stray` (ToolMutation): a tool that writes after its time limit.
- `redone` (Orchestrator): `completeTask()` is inside the `try` of the attempt
  (`dag-orchestrator.ts:97-104`), so a store that cannot be written makes a
  completed worker run again, or counts it as failed.
- `RefuseNode`: nodes beyond `maxWorkers` fail without having run, all attempts
  used up at once (`pool.ts:223-228`); `orchestrate.ts:14-17` bounds the nodes of a
  plan, not those of a batch. `Abandon`: `orchestrate` does not listen to its abort
  signal, so its workers go on.
- `late` (PermissionGate): Project Auto puts up a prompt for a request that settled
  while it was checked; nobody waits for the answer. `forgotten`: see section 6.
- `dropped` (AgentTurn): a stream that breaks over a call the loop has not read
  counts as one without tool calls, and the attempt is repeated although the tool
  runs (`fallback.ts:14-19` promises otherwise). `zombies`: the idle deadline of
  240 s (`loop.ts:80`) is shorter than the limits of `subagent` (600 s) and
  `orchestrate` (900 s), so it may end an attempt whose tools go on.
- `Classes` (AgentTurn): the deadline's own messages (`first-response-deadline.ts:39`
  and `:55`) match no trigger of `fallback.ts:164-182`, so a stalled provider is not
  fallen back from, which `fallback.ts:8` says of timeouts. The circuit breaker
  is made anew for each run (`loop.ts:180`), in which a provider fails once.
- `raced` (McpManager): a `disconnect()` during a `connect()` finds a client without
  a connection, and the connect brings the server back (`manager.ts:52-89`);
  `torn`: a registration that throws half way leaves its first tools registered
  (`bridge.ts:73-84`, `manager.ts:68` knows of none).
- `spoiled` (ToolCache): the stamp is taken when the result is stored
  (`cache.ts:88`) or when the file has been read (`semantic-cache.ts:41-44`), and a
  stamped entry of a `read` has no time to live in either cache; a search that
  overlaps an edit is stored after the invalidation. `symbols`, `lsp` and
  `code_map` are not invalidated at all (`cache.ts:115`).

## Checked and proved

Each module has a type invariant (`ToolCache`'s stands with its proofs); a run
checks it where no theorem states it. Proved with TLAPS, for all values of the
constants, are the theorems below. Each rests on the `ASSUME` of its module and on
an inductive invariant, `IInv` where no other name is given, which TLC checked on
an instance before it was proved. The `...Proofs` modules have one lemma per action
or per group of actions and one step per conjunct that the action can disturb.

*FileLock* - see section 1.

*SnapshotHistory*, from `SnapshotAssumption`, for any calls, files, sessions,
length of the history and number of faults: `TypeCorrect`, `PersistsReturn`
(`Queued`), `RewindCorrect` (`RewindRestoresUnlessAccident`), `RollbackComplete`
(`FailedPatchLeavesNoTrace`). The two promises are about the moment a restore is
over; the invariant says at every moment before where a restore would lead:

- `Log(s)`: the history of a session followed by what has been taken back from it
  and not yet restored. Taking back moves entries between the two and leaves the
  log as it was, a push adds its last entry, a restore takes it away (`LogStep`);
- `LeadsBack(s, p, m, G)`: the oldest entry of `p` above `m` has a content in `G`,
  or, if there is none, `p` has one now and so has every pre-image of it that is
  read and not yet pushed. For a rewind `m` is the checkpoint and `G` the content
  at that time, for a rollback `m` is the mark of the patch and `G` all but its own;
- `Covered(c, m)`: above `m` there is an entry of every file `c` has got past, so
  that whoever writes a file finds one in the log. `BareStep` needs `Sole` for it:
  whoever restores is alone in its session, and takes no entry from a call under way;
- `Marked`, `CheckpointInv`: marks and the checkpoint stay within the history;
- `Free`: no entry below its mark has the content of a patch, so no later undo or
  rewind brings it back;
- `Foreign`: a history has entries of its session's files only, which is what
  keeps another session's restore from a session's own files;
- `Queued`: a persist resumes the call that waits for it, and no other.

All but the types, `Queued` and `AtFile` holds as long as `accidents` is empty.
`Combined`, `KeysOf` and `Entries` are recursive functions over a sequence; that
there is such a function, and its type, are shown by induction over the positions
(`Recursion`, `Reached`).

*Orchestrator*, from `PlanAssumption` alone: `TypeCorrect`, `Serialized`
(`ScopesSerialized`), `AlwaysRunnable` (`NeverDeadlocks`), `AllAccounted`
(`EveryNodeAccounted`), `StoreMirrors` (`TasksMirrorNodes`), `Refinement`
(`ImplementsTaskGraph`), `NodesInOrder` (the invariant of `TaskGraph`, carried
over). The inductive invariant adds to the types

- `BatchOf(c)`: in which phases a call has a batch and nodes still to start, and
  that the whole batch is free of conflicts. `ScopesSerialized` does not say what
  the nodes still to start may meet;
- `WorkOf(n)`: workers are the nodes of the batch that have been started, with the
  statuses that go with them, and what is still to start has its dependencies
  completed;
- `ResultOf(n)`: which statuses go with an output and an error.

`NeverDeadlocks` follows from these and the acyclicity of the plan: among the
pending nodes one depends on no other of them, so it is ready or blockable.
`AcyclicStep` shows that no cycle ever gets into the task store, so that `updateTask`
has none to refuse.
`StoreMirrors` needs `MirrorInv` on top, one formula per node over its status and
its task; `GraphStep` takes each action to a step of the graph or a stutter.

*PermissionGate*, from `GateAssumption`: `TypeCorrect`, `SettlesOnce`
(`SettledOnce`), `InterruptsDeny` (`InterruptDenies`) and `PromptsMatch`
(`PromptsMatchPending`). Every step is a `Moves(S, W, d)`: some requests settle with
one decision, some begin to wait, nothing settled is touched.
The invariant adds `NoneLeftWaiting`: no request of an aborted turn is pending,
without which a later answer could allow one. `PromptsMatch` needs `PromptInv` on
top: `Placed(r)`, a request is in at most one of the queue, the checks and the
microtasks, and in none before it is made, and while it is pending it is in one of
them or in `forgotten`, the requests Esc dropped from the queue
when no turn was active. What `filter()` leaves of the queue (`WithoutIs`)
is shown by induction over its positions, with a set in place of the predicate
(`Induction`), as the provers cannot instantiate the library's theorems.

*AgentPool*, from `PoolAssumption`, for any spawns, ids, names, sessions, letters
and restarts: `TypeCorrect`, `PoolMirrors` (`PoolMirrorsWorkers`), `EntriesLive`
(`EntryIsLive`), `OwnResults` (`OwnResultIfUndisturbed`), `Addressable`
(`AddressableByName`), `MailStays` (`MailStaysInSession`). What the properties leave out and the next step needs:

- `Begun(s)`: a spawn that was made has all its earlier attempts settled, so two
  attempts under one id never live side by side, and the entry is the last one's;
- `Posted(s)`: only a living worker has events that are delivered. Without it the
  late message of an attempt that was given up could settle the promise of the next;
- `Closed(s)`: the session is complete once the promise has settled or the thread
  was terminated, whichever comes first;
- `Named(k)`: a name stands for the id of somebody spawned under it, by which
  `Route` stays in the session it starts in;
- `Bounded(p)`: the active entries of a session are finite and at most
  `MaxWorkers`; entries, not threads (finding 3).

*ToolMutation*, from `MutationAssumption`, for any calls of any sessions over any
files, any of which may go wrong: `TypeCorrect`, `LocksGoBack` (`LocksAreHeld`),
`IsolationMakesAtomic` (`IsolatedCallIsAtomic`), `NothingDirtyIsRead`
(`NoDirtyRead`). *Isolated* speaks of all the files of a call and of everybody who
has touched one, which no single step is about; the proof works file by file:

- `Clean(f)` is what isolation comes to for one file. It can be lost and never
  comes back (`CleanBefore`), so a step may assume it of the state it starts in;
- `WriterHolds`: only the call that has the lock of a clean file changes it;
- `Tracked(c, i)`: what a clean file holds at each stage of the call that has it
  locked - the call's own content after its tool, the fingerprint while it is
  compared, the pre-image behind the position of the restore;
- `NoConflict`: so the comparison of an isolated call finds nothing foreign;
- `AllSettled`: a clean file holds the result of a committed call except while a
  call that has it locked is at work, so whoever gets the lock finds such a result;
- `Locked`: what a call has to give back is its session's and no other call's.
  `acquireFileLocks` does not give back a lock it found to be its session's own,
  and this is where the proof depends on it.

*AgentTurn*, from `TurnAssumption`, for any chain of providers, triggers, retries,
tool calls and budget: `TypeCorrect`, `EffectsAreNotRepeated`
(`EffectsNotRepeated`), `OneEndingOnly` (`OneEnding`). Whether an attempt is repeated depends
on what the loop has read of it, so the invariant follows each tool call from the
provider to there:

- `Traced(i)`: the part of a call is unread, or the call is known by name, or its
  kind counts as completed, the last only when the tool is through;
- `Ordered`: nothing but results follows an error or the end on a stream, and the
  stream is closed then, so a loop that reads one has read every call;
- `Repeatable`, `Leftovers`: between two attempts, the last one has left neither
  effects nor running tools behind, except where its stream broke over an unread
  call;
- `Counted` bounds the attempts by the providers and their retries, `Ended` orders
  the end of the run after that of its attempts.

*McpManager*, from `McpAssumption`, for any number of calls and any tools:
`ToolsAgree` (`ToolsAndServerAgree`), `ClientsDoNotLeak` (`NoClientLeaks`),
`LastCallCounts` (`LastCallWins`). The properties set calls that met aside, but not
what these leave behind, and the invariant says why it cannot harm a call that
meets nobody: `Alone` (the last call is the only one pending, or it and all that
are pending have met), `Announced` (a connect that meets nobody stays under its
name), `Held` and `Taken` (whoever is busy while its outcome stands is a disconnect
that has the entry in its hands, and has begun to close it), `Outcome`.

*ToolCache*, from `CacheAssumption`, for any calls, prefetches, threads, saves and
settings of the feature (in `ToolExecutorProofs`, with those of `ToolMutation`):
`ReadsCurrent` (`ReadsAreCurrent`), `EditsSeen` (`OwnEditsAreSeen`). `Looked(c)` says
that a running call began after the edits it is to see and has found nothing older
than its start, but in a late entry of `sem`; `True(e)` that an entry which was not
late has the content of its stamp; `Fresh(t, k)` that so has a stamped result, and
that no edit of its thread has ended since a read or a search was stored; `Asking(c)`
that a read which waits for `stat()` holds an entry.

Only model-checked, and why:

- `WaitsForNobody` of `ToolMutation`, which is about ENABLED;
- liveness: `EveryCallReturns`, `EveryCallEnds`, `EveryRequestSettles`, `EveryRunEnds`, `DisconnectReturns`. Fairness is out of the
  prover's reach. `Counted` and the acyclicity of the plans are the part of their
  arguments that is proved.

Every property of a passing run has a mutant in `PROJECT.json`: a definition and a
faulty variant of it under which TLC finds that property violated. The mutants
stand before the definitions they replace and nothing else uses them.

## Not modelled

Most of the repository by lines is what these models abstract from or do not
touch: the web sites and the mobile app, the desktop and terminal UI, prompts and
their translations, skills and recipes, the bodies of tools (calls of external
programs, parsing, formatting), providers and storage. They keep no state that
several actors change, or only pass it on, so a state machine of them would repeat
the code and say nothing a test would not.

Within the modelled components: `loadPersisted`, `clear` and the 5 s snapshot limit
(SnapshotHistory); live text, tool events and hooks of the pool; how a worker
drains its inbox; `load` and `replaceTasks` of the task manager; text, usage,
compaction and the budgets of tokens and time (AgentTurn); rules that decide a
permission without asking; resources of MCP servers. The circuit breaker
of the compaction is sequential. The checkpoint store promises nothing about two
processes.

## Plan

Done: sections 1 to 9, and the proofs of their safety but for the list above. Next,
in this order:

1. A lock specification that grants and revokes leases atomically, implemented by
   `FileLock` in behaviours that lose none, which is what `ToolMutation` assumes.
2. The 5 s limit of `takeSnapshotBestEffort`, with the accident it would add.
3. The inbox of the worker runtime; `ToolMutation` over leases that run out, as
   `FileLock` has them.
