# Verification of the TailTask remote execution system

TailTask (the "xiangwriter 远程器" desktop application) lets a paired controller
run commands and scripts on another machine of the same Tailscale network. This
directory holds TLA+ models of that system, the TLC configurations that check
them on small instances, and theorems checked by TLAPS. Paths below are relative
to `src/`.

## 1. Inventory

| component | code | state it keeps | operations |
|---|---|---|---|
| Agent task store | `crates/core/src/remote/storage.rs` (`AgentStore`) | `agent_tasks`, `agent_events` in agent.db | `accept`, `claim_next`, `transition`, `recover`, reads |
| Runner | `crates/remote/src/runner.rs` | `accepting`, `admission`, `stop`, `active`, `fault`, the JoinSet of executes | `run`, `execute`, `cancel`, `request_stop`, `output` |
| Process tree | `crates/remote/src/process.rs` | one worker process and its Job object or process group per execute | `spawn`, `graceful_stop`, `force_stop`, drop |
| Agent service | `crates/remote/src/service.rs` | none of its own | HTTP handlers, `serve` |
| Access | `crates/core/src/remote/access.rs` | `agent_pairings`, `agent_controllers` | `create_pairing`, `pair`, `authenticate`, `revoke` |
| Artifacts | `crates/remote/src/artifacts.rs` | result files and `agent_artifacts` | `collect`, `snapshot`, `list`, `byte_range` |
| Request model | `crates/core/src/remote/model.rs` | none | `validate`, `content_hash`, `terminal` |
| Controller store | `crates/core/src/remote/storage.rs` (`ControllerStore`) | `remote_connections`, `remote_history`, `remote_observations`, `remote_artifact_cache` | `save_connection`, `prepare`, `mark_unknown`, `record_task`, `sync_error`, `cache_events`, `cache_artifacts` |
| Controller commands | `src-tauri/src/remote.rs` | `remote_lock`, `agent_lock` | `pair_remote`, `submit_remote`, `remote_detail`, `cancel_remote`, `download_remote` |
| Client | `crates/remote/src/client.rs` | `.partial` files | `json`, `download`, certificate pinning |
| Lifecycle and identity | `crates/remote/src/lifecycle.rs`, `identity.rs`, `credentials.rs`, `autostart.rs` | config.json, endpoint.json, credential entries | `start`, `status`, `initialize` |
| Database open | `crates/core/src/database.rs` | the schema version, backups, the directory lock | `open`, `inspect`, `backup` |
| Local repair | `crates/core/src/storage.rs`, `crates/agent`, `src/useTailTask.ts` | `tasks`, `task_events`, `settings`, warnings; the request number and the open detail of the page | `submit`, `run`, `finish`, `recover`, `detail`; `repair`, `readDetail` |
| Tailscale adapter, RDP | `crates/core/src/tailscale.rs`, `src-tauri/src/rdp.rs` | none | read the network, start the RDP client |
| UI | `src/` | React state, event cursor | forms, polling every 2 s |

How they interact. The UI calls the controller commands; they store the request
in the controller's database and talk HTTP over pinned TLS to the agent service.
The service authenticates the controller, and `submit` accepts the request as a
queued row and notifies the runner. The runner claims queued rows, starts a
worker process for each, forwards its output to the event log, and writes the
final state; `collect` copies the results. The owner of the agent machine can
stop the agent, draining or aborting, over the same service. On the next start
`recover` closes what a crash left open.

Hard behaviour. Every `.await` is a point where another handler, the runner or
another execute may run; hyper drops the future of a handler whose connection
closes, so a handler may stop at any `.await`; the agent process may die between
any two transactions; the start of a process and the database cannot be updated
together. The hazards are listed in `PROJECT.json`, each at its line.

What makes each part correct, as far as it is modelled:

* Agent (store, runner, processes, service): a task is started at most once and
  a started one is never abandoned; a cancel is not lost; a final state is
  final, and one that claims the process has ended is true; the queue limit
  holds; a stop accepts nothing more, reaches every task when it aborts, and
  returns; an execute that failed shows as unconfirmed.
* Submission (controller commands, controller store, client, access): a request
  creates at most one task whatever is lost, late or repeated; the history never
  says that a request was not sent when it may have been; a revoked controller
  gets no new task; `remote_lock` is always released.
* Output of a task: complete and in order up to the limit, the final state behind
  all of it, no blocking between the process, the readers and the channel.
* Following a log: what is stored of it has no gap, what is shown is stored, the
  page shows one interval of its own task and catches up.
* Results: a row describes its file, a complete result holds every file that was in
  the directory all the time and is one the controller accepts, a failed snapshot
  leaves no file but one that could not be removed; what a download publishes is the
  artifact, and an interrupted one can be resumed to its end, unless two downloads of
  one artifact overlapped.
* Pairing: a session issues one controller, none once it is spent, replaced or
  expired; a desktop stores only what was issued for its own request.
* The agent's directory: one process uses it at a time; a database that was
  upgraded has a backup; a saved identity is usable; the agent that serves obeys the
  owner, and nothing of its directory is changed meanwhile; whatever was cut off, an
  agent can be started again.
* Local repair: actions run one at a time and once; a result is never invented or
  rewritten, an unsaved one is shown; the page shows the task it has open, never an
  older state, until it is settled.

## 2. Modules

`AgentRunner.tla` models the execution side: the agent's task table, the runner,
the process tree, and the handlers that change task state.

* State. `state`, `result`, `created` are the columns of a row (`"none"`: no
  row). `accepting`, `admission`, `stopped`, `fault`, `token` are the fields of
  `Runner`; `loop` is the program counter of `run`, `exec` that of `execute` per
  task, `handler` that of a `cancel` call (`Owner` is the one inside
  `request_stop`), `verdict` the local `reason` and `final_state`. `proc` and
  `tree` are the worker process and its descendants. `starts`, `unconfirmed`,
  `orphaned`, `restarts` are history variables.
* Atomicity. One SQL transaction is one action, and so is the code between two
  awaits. Where two awaits are merged the comment at the action says why nothing
  can be told apart (`CancelBegin`).
* Data. A member of `Task` is one (controller, request_id) pair. Its content,
  output, exit code and progress are left out: no control depends on them, but
  for the exit being zero or not. `created_at` is kept relative to the queued
  rows and may tie, since it has millisecond resolution and ids are random.
* Failure. `CancelDropped`, `SubmitRefused` and `StopDropped` drop a handler;
  `ExecError` is any `?` of `execute`; `RunError` a failing `claim_next`;
  `Crash` ends the agent process: a Job object takes its processes with it, a
  process group outlives it, hence the choice in `DropTrees`. `Start`,
  `RecoverTask` and `RecoverResults` are `AgentStore::open`, interruptible by
  another crash.

`TaskLifecycle.tla` is the abstract specification: one task waits, may be
withdrawn, becomes active, is launched at most once, finishes or is abandoned.
`AgentRunner` implements it (`ImplementsLifecycle`).

`RemoteSubmit.tla` models a submission from the desktop to the agent's table.

* State. `connection` is the identity in the stored connection; `submission`,
  `target`, `remoteId` and `lastTask` are columns of `remote_history` (a column
  that names an identity or a task is modelled by the controller it was issued
  to). `lock`, `subject`, `pc` and `reply` are the one command that may hold
  `remote_lock`; `sync` the `remote_detail` and `cancel_remote` calls, which take
  no lock. `wire` holds the POST requests on their way; `live` marks the one whose
  sender still waits, `authenticated` those the agent's middleware has let
  through. `issued`, `granted` and `level` are agent.db.
* Steps. `submit_remote` is cut at each of its awaits: prepare, check of the peer,
  mark_unknown, POST, record. `Authenticate` and `Accept` are separate, since
  `accept` looks for a revoked controller again in its own transaction. A task is
  followed only by `level` (queued, active, final): its life is `AgentRunner`'s. A
  detail of an active task that the runner's fault names shows `recovery_required`
  (`service.rs:181`): that is the answer `Unconfirmed`.
* Failure. `Lose` drops a request or an answer, `GiveUp` is the client's timeout
  (the request may still be handled), `AppExit` ends the desktop and leaves its
  requests on the wire, the user may retry or pair again at any time.

`RequestOnce.tla` is its abstract specification: attempted, created at most once,
confirmed only when created. `RemoteSubmit` implements it (`ImplementsOnce`).

`TaskLog.tla` models the output of one task in `execute`: two pipes with a reader
each (`read_pipe`), the bounded channel, `output` with its byte counter and its
truncation marker, the end of the process, the drain and its time limit. It
refines the phases "watch" and "drain" that `AgentRunner` has as one step each. A
chunk is known by its stream, number and size; decoding is left out.

`LogSync.tla` models how the log is followed: `log` is the agent's event table,
`cached` the controller's `remote_observations`, `call` the `remote_detail` calls
in flight (asked, fetched, synced), `page` and `rows` the state of
`RemoteTaskModal`. A call goes on when its page is closed or replaced. `Late`
is the set of tasks whose submission may return while a page is open: the modal
has no key, so such a page keeps the rows and the cursor of another task.

`Pairing.tla` models several desktops and one agent. `row` is the one row of
`agent_pairings`, `granted` the controllers not revoked, `agent` and `late` say
whether the handlers still accept (`owner_pair` looks at `accepting` and may act on
it later), `wire` holds the POST requests. `pc`, `offer`, `got`, `vault` and
`connection` are `pair_remote` on each desktop, up to the credential and the stored
connection. `Guess` compares a wrong secret, `Issue` is the transaction that creates
the controller. A response may be lost, a request may be handled after its sender
gave up, the agent may drain, end and come back at any time.

`ResultSnapshot.tla` models `collect`: the walk of the result directory entry by
entry, the copy block by block, the clean-up after an error, the transaction with the
rows and the status, the crash and `recover`. A block is what one read returns; a hash
is represented by the bytes hashed. Subdirectories are flattened: entries are numbered
as the walk meets them. `Change`, `Create` and `Delete` are a process that left the
container and goes on working in the directory; a rename is a removal and an entry made.
`written` and `moved` remember what it touched, and the walk may miss an entry of
`moved` (`Meets`, `WalkEnds`), as reading a directory that changes does. `Undo` removes
one file at a time and may fail, since the code ignores that error; `kept` has those
files. After `Commit` nothing reads the directory, and the model drops it
(`LeaveDirectory`).

`Download.tla` adds the artifact routes and `RemoteClient::download`, cut at every
await: open of the `.partial` file, its length, its hash, the request with its range
(`ByteRange` is `byte_range`), the chunks, the check, the hard link, the removal. A
file is named by the download that created it and `partial` and `target` are directory
entries, so a link gives a file two names. All downloads go to one place and may overlap,
also those of one artifact: the busy flag is state of the modal and gone when it is
reopened, and `download_remote` takes no lock. `overlapped` is the history of the
artifacts this happened to. Of a call that has ended only the outcome is kept. The agent
is honest; `Damage` is someone who alters its stored file. A write is done when its step
is.

`ResultDelivery.tla` is the abstract specification of both: a result is settled once,
as a complete list or as incomplete without one, and the chosen place stays empty until
it holds one file of the list, whole, and keeps it. A row of the list is the file; the
place holds what `target` leads to. `Download` implements it (`ImplementsDelivery`).

`Database.tla` models `database::open` as an operation of any process: the lock of the
directory, the inspection, the backup, the connection and each migration. A file is
the number of migrations committed in it. `AgentHost.tla` extends it with the processes
that use the agent's directory. `pc` says where each is; the desktop runs
`start_local_agent` (`status`, `initialize` write by write, config.json, spawn, polling
and kill), a server process runs `serve` up to the bound listener and its end, or the
maintenance program. `keys` and `owners` are the credential store, `hash` and `identity`
settings of agent.db, `endpoint` and `config` the two files. Certificates and tokens go
by the id of their identity; node and address are one value, `place`. The system calls
that watch and end the child may fail (`PollFails`, `KillFails`): the desktop then gives
up, and `escaped` says that the child may have been left running.

`LocalRepair.tla` models the maintenance tasks of the desktop's own database: `state`
and `action` are the rows, `run`, `outcome`, `holder` and `warned` the spawned
`Store::run` with its mutex and its warnings, `pending`, `submit`, `open`, `detail`,
`failed` and `read` the page. Every transaction may fail, the response of a submission
whose row exists may be lost, so that the next click finds its own row, and the
application may end at every step. `visible` is whether the window is seen: `Tick` reads
only then, and `RetryRead` is the button beside the error.

`MCAgentRunner`, `MCRemoteSubmit`, `MCTaskLog`, `MCLogSync`, `MCPairing`, `MCDownload`,
`MCAgentHost` and `MCLocalRepair` instantiate the modules for TLC; symmetry sets are
used only where no liveness is checked. `AgentRunnerProofs`, `RemoteSubmitProofs`,
`TaskLogProofs`, `LogSyncProofs`, `DownloadProofs`, `PairingProofs`,
`AgentHostProofs` and `LocalRepairProofs` hold the theorems. Definitions whose comment
begins with "A bug:" are mutated forms of the action they stand beside; no specification
uses them.

How the modules meet. `RemoteSubmit` sees a task as its level and `AgentRunner`
sees a request as a `Task`, so `Accept` of one is `SubmitCommit` of the other.
`TaskLevel.tla` is what they have in common: not created, queued, active, final, moved
one way only. Both implement it (`ImplementsLevels` in each), so what one module takes
for granted about the other's tasks is what the other does.
`TaskLog` fills the log that `LogSync` reads: it only appends, which is
`LogEvent`. `AgentRunner` sees `collect` as the step that settles `result`;
`ResultSnapshot` is what happens in it, and `Download` extends it. `RemoteSubmit`
relies on each pairing having an identity of its own, which `Pairing` shows. `Serving`
in `AgentHost` is the life of the agent that the other modules describe; `Database`
justifies that they have one process on one database.

## 3. Runs

`log_sync` and `submit` check for deadlock. The other runs use `CHECK_DEADLOCK FALSE`,
because the system may stop there: an agent that has exited and is not started again, a
task that has ended, a download that is done, a pairing with its session used up, a
directory that is stuck (below), a page with nothing open.

| run | instance | what it shows |
|---|---|---|
| `agent_cancel` | 2 tasks with results, 1 slot, 1 cancel request | no cancel lost, no started row abandoned, final states confirmed by the end of the process tree, an abort reaches all, nothing accepted after the stop |
| `agent_restart` | 2 tasks with results, 1 slot, 1 restart | at most one start per task, settled results stay, refinement of `TaskLifecycle` |
| `agent_live` | 2 tasks, 1 slot, fairness | stop returns, queued tasks settle, a cancelling task gets its final state |
| `agent_result_pending` | violated | `ResultSettled`, see the findings |
| `submit` | 1 request, 2 sync calls, 2 pairings, fairness | at most one task per request, nothing for a revoked controller, refinement of `RequestOnce`, the lock is released |
| `log_output` | 2 pipes of 2 chunks, channel of 1, limit 3, fairness | complete and ordered output, the limit, the end of the drain, output flows while the process runs |
| `log_sync` | 2 tasks (1 late), 2 calls, page and window of 1, logs of 2, fairness | stored logs without gaps, contiguous pages, shown rows are stored, an open page catches up |
| `download` | directories of up to 4 entries, limits of 3 entries, 2 files, 2 blocks a file and 2 in all, 1 change during the copy, 2 downloads, 1 loss or exit, fairness | types, rows describe their files, complete results are whole and acceptable, failures leave nothing that could be removed, partial files are prefixes, refinement of `ResultDelivery`, a resumed download completes |
| `download_overlap` | violated; 1 file of up to 2 blocks, 2 downloads | `PublishedIsVerified`, see the findings |
| `pairing` | 2 desktops, 2 sessions of 1 attempt, 2 controllers, 2 requests on the wire | one controller a session, none once it is spent, connections are the desktop's own |
| `host` | the desktop and 2 other processes, 2 configurations, 2 addresses, files of every version up to 3 and one later, 2 troubles, fairness | backups before upgrades, the owner in control, nothing changed while an agent serves, a start is possible again |
| `local_repair` | 2 requests of one action, 2 reads, any number of exits, fairness | successes earned, unsaved results shown, the page shows nothing older, repairs and details settle |

The types and the inductive invariants are theorems (section 5) and are not checked a
second time here, but for the types of `ResultSnapshot` and `Download`, which are part
of `SnapshotInv`.

Bounds. `MaxWaiting` = 1 with two tasks makes the queue full; two tasks and one slot
make one wait for the other; one cancel request can come at every step of a task, since
the stop is a second canceller (`Owner`); one restart includes a crash inside `recover`
followed by no further start. Two slots, where executes overlap, give too many states
for TLC beside the stops and cancels; the theorems about the agent hold for any number
of slots, its liveness is checked with one. One request is enough for `submit`, because
commands hold the lock one at a time and rows do not share state; the proof covers any
number. Two pairings give a retry under another identity, two sync calls give two
responses in the wrong order. In `log_output` two chunks of size 1 or 2 per stream
reach, hit and pass the limit of 3, and a channel of one is full at once. In `log_sync`
logs of 2 are longer than a page and than the window, so the cursor stops within the log
and rows fall out; two calls are the one of the open page and one left behind by a
closed page. In `download` every limit can be met and passed by one: 4 entries for a
limit of 3, a file of 3 blocks for a limit of 2, files of 2 and 1 for a total of 2;
files of 2 blocks leave a `.partial` file of 0, 1 or 2. `PackedInit` takes one order of
each directory, to spare states; the theorems hold for every order. Two downloads are
one that is cut off and the one that resumes it, or two that overlap. In `pairing` one
attempt is the last one; the theorem covers more, as the count of attempts only matters
at its end. The second session replaces the first. In `host` two troubles are, say, a
crash in an upgrade and one in the first identity, or a start that was given up and a
stop; two processes beside the desktop are the agent and one that comes first. Three
migrations give an upgrade of two steps with a crash between them.

Fairness.

* Agent: the runtime polls every ready future, so `run` and every `execute` go on
  (`WF`). The `select!` of `run` is unbiased and its timer is ready again and
  again, so a finished execute is joined eventually although other branches are
  taken: strong fairness on `Join`. Nothing is assumed of processes, which may run
  and ignore the graceful stop for ever: `WatchDeadline` and `WatchGrace` are
  timers of `execute` and end them. Nothing is assumed of handlers, users or
  crashes.
* `RemoteSubmit`: the desktop's runtime goes on with a command, and the HTTP client
  has a timeout (`GiveUp`). Nothing is assumed of the network or the agent.
* `TaskLog`: readers and `execute` are polled, and the drain has a time limit. The
  process need never write or end.
* `LogSync`: the page's interval ticks; a call ends. For catching up, a fetch that
  is possible again and again succeeds at last (strong fairness of `Fetch`,
  `CacheEvents` and `Return`): a connection that is lost for ever needs no catching
  up. `ResponseLimit` is above every page in the run (see section 4).
* `Download`: the runtime goes on with a download, and the user asks again until the
  file is there (`Fairness`); without that an interrupted download stays interrupted.
  Losses are bounded by `MaxLoss`.
* `AgentHost`: every process goes on, and the user asks for a start again and again.
  Nothing is assumed of stops, crashes, moves and logons; they are bounded.
* `LocalRepair`: a spawned run goes on; a read ends; the interval ticks, and reads while
  the window is seen. A read of the open detail that is possible again and again is
  answered at last. Commits may fail for ever: then a warning is shown. Nothing is
  assumed of the window or of the user: it may stay hidden, and the button beside an
  error need not be pressed, so `DetailSettles` excepts both. `Toggle` happens only while
  an unfinished detail is followed, or to show the window again; at other times it has no
  effect that a user who waits does not have.

## 4. Findings

* `ResultSettled`: a task cancelled between its claim and `execute`'s own check
  ends `cancelled` with `result_status = 'pending'` until the next restart
  (`crates/remote/src/runner.rs:139`).
* `PublishedIsVerified`: two downloads of one artifact to one place share its `.partial`
  file (`crates/remote/src/client.rs:84`). Nothing keeps a second one from starting: the
  busy flag belongs to the modal (`src/components/Remote.tsx:41`) and is gone when that is
  closed and opened again, and `download_remote` (`src-tauri/src/remote.rs:214`) takes no
  lock. One may publish the file while the other goes on writing to it, although
  `docs/remote-usage.md:31` says that a file is completed after its hash was verified.

More behaviour met while modelling, described without a run of its own:

* `record_task` overwrites the last observation whatever the row holds, and detail and
  cancel calls take no lock, so an older response may replace a newer one
  (`crates/core/src/remote/storage.rs:446`; `docs/remote-usage.md:13` says that a lost
  connection shows the last observation). That what is recorded exists is part of
  `SubmitInv`.
* A page of 200 events of up to 8 KiB, escaped as JSON, may be longer than the 2 MiB
  that `RemoteClient::json` reads; it is then refused on every attempt
  (`crates/remote/src/client.rs:307`). `LogSync` has it as `WireSize` above
  `ResponseLimit`, with which `PageCatchesUp` fails.
* The modal is rendered without a key, so a submission that returns while another
  task's page is open shows its task with the other task's rows and cursor
  (`src/components/Remote.tsx:26`). `Late` has such tasks; the properties of pages and
  stored logs except them.
* Errors of the clean-up after a failed snapshot are ignored
  (`crates/remote/src/artifacts.rs:163`), so a file no row names may stay, although the
  comment at `:130` says that partial snapshots are removed on any error; a file that
  another process made or removed during the walk may be missing from a complete result.
* A start that fails may leave the agent it spawned running: `try_wait` may return an
  error (`crates/remote/src/lifecycle.rs:150`), and errors of `kill` and `wait` are
  ignored (`:166`). `FailedLeavesNone` excepts it (`escaped`).
* While the runner has a fault, a detail of the task it names shows `recovery_required`
  although the row is active (`crates/remote/src/service.rs:181`), and the controller
  stores that (`Unconfirmed`).
* A crash during a snapshot leaves files in the artifact directory that no row names
  and nothing removes (`crates/remote/src/artifacts.rs:126`).
* The agent reads config.json before it holds the directory lock
  (`crates/remote/src/service.rs:361`), so a second start may replace the file in
  between; the agent then serves with another configuration than the stored one.
* A start does not get past a database that was cut off in its very first open
  (`crates/core/src/database.rs:104`), one of a later version, or an identity for
  another address. The last two are intended; `Stuck` names all three.
* A `pair_remote` that fails after the token was saved leaves the token in the
  credential store (`src-tauri/src/remote.rs:60`).
* A draining stop may leave a task accepted just before it in the queue: `run`
  returns without another look at the queue (`runner.rs:120`). Documentation says
  that a draining stop waits for accepted tasks (`docs/remote-usage.md:27`).
* `Runner.fault` holds one string. With more than one slot a second failing execute
  overwrites the first, which then shows as running again (`runner.rs:126`).
* After a truncation, smaller chunks that still fit are retained behind the marker
  (`runner.rs:263`): the log is complete up to the marker, not after it.

## 5. Proofs

`AgentRunnerProofs.tla` proves for every number of tasks, cancel requests, slots, queue
limits and restarts: `TypeOK`, `LifecycleInv`, and from them `AtMostOnce`,
`ConfirmedMeansEnded`, `TerminalIsFinal`, `ImplementsLifecycle`, `QueueBound`,
`NoAcceptAfterStop` and `ImplementsLevels`. The only assumptions are those named in
`AgentRunner.tla`.

The argument. `AtMostOnce` is not inductive: that a second start is impossible
needs to know that an execute which has not started belongs to a task with no
start so far, and that an execute exists only for a row that was claimed.
`LifecycleInv` says so: `ExecOwnsRow` (an execute before its final write owns an
active row; queued rows and a process that is not up have no execute),
`StartedOnce` (how `starts` follows the phase of execute) and `TreeInv` (between
which phases a process may be alive). Each action is one step of the proof of
its induction; the refinement maps every action to a lifecycle step or a stutter
under the same invariant. The queue and the stop need one more fact (`RowsLeave`):
only a submit that holds the admission lock brings a row into the queue; `DoorInv`
says why no submit holds it once the stop token is cancelled.

The module goes on from there to `StartedIsOwned`, `ResultIsFinal`,
`NoLostCancel` and `AbortReachesAll`. `RowInv` says which states a row may have left at
each place of its execute, that an active row has an execute and that the result of a
row in work is open; `TokenInv` that an execute has a token until it returns, and that a
row marked as cancelling before its end has a cancelled token, a handler that will
cancel it, a deadline that already ended it, or a handler that was dropped; `ReachInv`
that in an aborting stop every row nobody asked to end is still on the list of the stop
or the one it is about to mark.

`RemoteSubmitProofs.tla` proves for every number of requests, calls and pairings:
`TypeOK`, `SubmitInv`, and from them `OneTaskPerRequest`, `NoAcceptAfterRevoke`,
`ImplementsOnce` and `ImplementsLevels`. `OneTaskPerRequest` alone is not inductive.
`SubmitInv` adds why it holds: whatever is on the wire or in the agent's table carries
the identity of its row's snapshot, and the row was marked unknown before it was sent
(`SentIsMarked`); a command knows where it is (`CommandInv`), and what is recorded
exists (`AcceptedIsReal`, `SyncInv`). Since the snapshot is written once, all tasks of a
request belong to one controller.

`TaskLogProofs.tla` proves for every set of pipes, capacity and limit: `TypeOK`, with the
bound of the channel and of the retained output, `LogGrows` (the log is appended to
one event at a time, has one truncation marker at most, and is closed by the end of
execute), `OutputComplete` and `WithinBudget`. What a log holds is stated by the places
of its chunks (`Holds`), not by filtering it, so that no induction over the log is
needed: `AppendHolds` and `TailHolds` say what an append and a receive do to it. The
invariant of `OutputComplete` follows a stream on its way (`FlowInv`): what was written
is, in this order and without a gap, in the log, in the channel and in the pipe;
`PhaseInv` says what each phase has waited for, so that a final state finds the pipe and
the channel empty. `BudgetInv` counts the retained bytes as a set of pairs of a place and
a number, which an append extends by as many as the chunk is long.

`LogSyncProofs.tla` proves for every number of tasks and calls, every length of the
logs, every page and every window: `TypeOK`, `FollowInv`, and from them
`CacheIsPrefix` and `PageIsContiguous`; and `ShownIsStored`. The lemmas say what the
queries return: `LIMIT` of a log without gaps is an interval (`FirstPageIsInterval`),
the newest rows of an interval are its end (`NewestRows`), merging a page with its
answer gives the page of the new cursor (`MergedRows`). `FollowInv` adds that no
cursor is ahead of what is stored, that a batch begins at its call's cursor, and
that the page waits only for a call of its own task and cursor, which is what the
`loading` flag is for. The proofs need no bound on what a response may hold:
a refused page stops the log, it never makes a gap.

`DownloadProofs.tla` proves for every size of the directory, every limit and any number
of changes, losses and downloads, which may overlap: `TypeOK`, `SnapshotInv`,
`CompleteIsAcceptable`, `PartialIsPrefix`, `PublishedIsArtifact` and
`ImplementsDelivery`. The last three except the artifacts of which two downloads
overlapped, by what they state.

* The snapshot (`SnapInv`). The walk has registered every file it has met and nothing
  else, but for entries made or removed meanwhile, holds of each what it has hashed, and
  has counted what it copied (`WalkInv`); a file that exists before the end was
  registered before it was created (`FilesInv`), which is why the clean-up finds all of
  them, and removes those it can; nothing is in the tables before the transaction
  (`TableInv`). `CompleteIsAcceptable` compares a counter of the agent with a sum over a
  set that the controller takes. That adding a row adds its size (`BytesAdd`) holds for
  any function that sums by taking out one element at a time; that there is one, and
  that it does not matter which element is taken, is shown for a least set without it
  (`LeastSet`), not by the library's induction.
* The files (`TypeInd`, without a condition on the number of downloads): a download writes
  inside its file or at its end, since files only grow while they are open.
* The download (`DownloadInv`). `StageInv` says what a download knows of its file at each
  of its steps: what it has hashed is what the file holds, its cursor is at the end of
  it, and what it receives next is what comes next of the artifact. `EntryInv` keeps the
  file of a download that has not begun empty and unnamed, and a `.partial` entry with
  its artifact; `TargetInv` says that after a publication nothing is written any more.
  They speak of the artifacts in `Apart`, whose downloads never overlapped; `OneActive`
  says that each of these has one download at work, which holds because `Begin` takes an
  artifact out of `Apart` when it starts a second one. Different artifacts share no file
  but by the place, which is why downloads of them may overlap. `Frame` carries the
  invariant over a step that changes only the call of one download, given that this call
  is still in order (`Onward`).
* The refinement: a step settles the result, or links the verified file into the empty
  place, or changes neither; that the linked file keeps its contents is `TargetInv` before
  and after the step. A place taken by an artifact outside `Apart` is left out of what is
  delivered.

`PairingProofs.tla` proves for every number of desktops, sessions, attempts,
controllers and requests all the properties of the run. The invariant ties the row
to what happened: its count is the number of wrong secrets that were compared with
its session, and it is consumed exactly when a controller was issued for that
session (`SessionInv`); the request a desktop waits for is the one with its own
offer, which is why it can be given nothing else.

`AgentHostProofs.tla` proves for every number of processes, addresses, migrations and
troubles: `TypeOK`, `OneOpener`, `UpgradeHasBackup`, `IdentityIsComplete`,
`OwnerInControl`, `ServedIsKept` and `FailedLeavesNone`. The lock carries the argument:
whoever is past the open holds it, so there is one creator of an identity at a time, and
what it has saved so far follows its `pc`; a file that is being migrated was either
created by this open, already current, or backed up. An agent that serves holds the lock
too, so every writer of the directory is itself. `ChildInv` follows the agent a start
spawned to the report: unless the system calls that watch and end it failed (`escaped`),
a failed start has left no agent.

`LocalRepairProofs.tla` proves for every number of requests, actions, reads and exits:
`TypeOK`, `UnsavedIsShown`, `OneAtATime`, `SuccessIsEarned`, `FinalStays`,
`DetailIsOfOpenTask` and `ShownNeverOlder`. The invariant says which state of the row
each phase of a run allows, that the holder of the mutex is the only run past it, and
that only the latest read may reach the page. `AgeInv` orders what is shown, the answer
of the latest read and the row: a row only gets newer while the page lives.

Assumptions are the named `ASSUME`s of the modules: finite sets of names, values
like "no task" outside of them, and limits that are numbers.

Only model-checked: liveness (`StopReturns`, `TaskSettles`, `CancelConverges`,
`LockReleased`, `DrainEnds`, `OutputArrives`, `PageCatchesUp`, `RepairSettles`,
`DetailSettles`, `ResumeCompletes`, `StartsAgain`), since fairness and ENABLED are out of
the prover's reach. Every safety property of a passing run is a theorem.

## 6. Not modelled, and what is left

* `tailscale.rs` parses one answer of the official program, `rdp.rs` checks a target and
  starts the system's client, `autostart.rs` and `credentials.rs` call the operating
  system: none keeps a state that steps could get wrong.
* `config.validate`, the validation and the hash of a request, the checks of paths and
  links, certificate pinning: checks on one value. Where their outcome matters it is the
  guard of an action. That a directory is exchanged between such a check and the open of
  a file in it is left out.
* The network snapshot of the desktop (`save_snapshot`, `update_device`) is one
  transaction per call; the task lists are reads.
* The decoding of output into text, progress reports, wording and times.
* A task of the runtime that panics (`runner.rs:127`), an error of reading a pipe; the
  check of the peer's capabilities in `pair_remote` is one step with the save after it.
* `log_sync` has a window of one row and `pairing` sessions of one attempt; larger ones
  are covered by the theorems only.

Left to do: one module that composes `LogSync` with `RemoteSubmit`, whose
`remote_detail` is one call; downloads to two places at once in `Download`; two slots in
the liveness run of the agent.
