# vanyline in TLA+

This directory is a verification project for vanyline, a development
environment that runs in Kubernetes pods and is driven by people and by language
models. The modules are translated from the Rust sources; TLC checks them on
small instances and TLAPS proves the central invariants for every value of the
constants. Paths below are relative to the repository.

Contents: [the system](#the-system) · [the modules](#the-modules) ·
[the runs](#the-runs) · [fairness](#fairness) · [the proofs](#the-proofs) ·
[disagreements found](#disagreements-found) · [abstractions](#abstractions) ·
[the plan](#the-plan)

## The system

Every `.rs` file has beside it a specification in French, `.sdd`, with `Must`,
`Must not` and scenarios. They say what the code is for; the definitions here
come from the code, and where the two differ there is a finding.

| Part | State it keeps | Operations | Speaks to |
|---|---|---|---|
| `sandbox/jobs.rs`: job API of a pod | registry (one mutex), process groups, log files, watchdog and callback tasks | POST, GET, DELETE, DELETE `?prefix=`; supervisor, timeout, eviction | the kernel, Restate (awakeables) |
| `sandbox/health.rs`: code health of a worktree | phase, report, fingerprint, base, flags (one mutex), a channel of events | notification of an edit, refresh, background cycle | git, the check runner, the tools of the sandbox |
| `app/workflow/steps/gate.rs`: gate step | none of its own; one t0 per execution | refresh, poll, evaluate five rules | the health routes of a pod |
| `app/workflow/steps/{mod,shell}.rs`: access to a sandbox, shell step | none of its own; the job id `{run}:{step}` | open, POST, poll, classification of errors | the Sandbox resource, the job API, the engine |
| `app/api/workflows.rs`: runs | index table of runs, tags of definitions | launch, cancel, lists, CRUD | Restate (trigger, cancel), the job API |
| `app/workflow/{runtime,run_context,status}.rs` | the assets registered with the engine | start-up, registration with back-off, purge | miryad-core and Restate |
| `app/workflow/steps/{agent,rhai}.rs` | none | one agent turn, one script | language models, the sandbox tools |
| `app/ws/chat.rs`, `app/api/conversations.rs` | messages of a conversation, one session per socket, a busy flag | a turn with its bound, persistence before and after it | language models, the database |
| `app/ws/sandbox_state.rs` | subscribers and one watch loop per owner, owner cache | subscribe, dispatch, restart of the watch | the Kubernetes watch |
| `frontend/.../useSandboxState.ts` | per tab: users of the hub, its running flag, the socket, the phases | mount, unmount, reconnection with back-off | the state stream |
| `app/{auth,db,config_store,system_agents,mcp_domain}`, other `api/*` | database rows | one request, one transaction | database, OIDC, Kubernetes |
| `controller/{sandbox,project}.rs` | Kubernetes objects and their status, finalizers | reconcile, cleanup, maintenance jobs | the Kubernetes API |
| `controller/{owner,namespace,application}.rs` | Kubernetes objects | server-side apply | the Kubernetes API |
| `sandbox/{lsp,lsp_client}.rs`, `ws/lsp.rs` | language servers, pending requests, diagnostics | start, request, restart | language servers |
| `sandbox/{tools_impl,git,venv,maint}.rs`, `ws/{terminal,fs,ticket}.rs`, `tools/` | the worktree, tickets, terminals | file edits, commands, git, search | file system, processes |
| `lib/` | a session over an external turn engine, todo lists | turns, delegated tasks, skills | language models, MCP |
| `cli/` | RPC sessions, chat and TUI state, configuration | JSON-RPC handlers, chat, TUI | `lib`, `cfgstore` |
| `cfgstore/`, `health/`, `crds/` | configuration files; none; types | merge of layers; checks; schemas | file system |
| `frontend`, `packages`, `toolchains`, `deploy` | user interface, images, manifests | - | - |

How the modelled parts interact: a **launch** (`workflows.rs`) triggers a run in
the Restate **engine**; the engine executes the **steps**, replaying each after
a transport failure; a shell step starts a **job** in the pod and polls it; a gate
step refreshes and polls the **health state** of the same pod; a **cancellation**
stops the run in the engine, then deletes the jobs of the run by prefix. A job
edits the worktree without notifying the health state; the tools of the sandbox
edit it and notify. The pod, its worktree and its repository are made and unmade by
the **controllers**, whose status changes the **state stream** brings to the browser.
Editors and tools of one pod share its **language servers**. The **RPC server** of the CLI
stands apart: a loop, its turns and the conversations on disk.

What is hard in each, and what makes it correct:

- **Jobs.** Handlers, supervisors, watchdogs and the eviction interleave between
  short sections of one mutex, and look records up by an id that callers
  reuse. Correct when no task acts on another incarnation than its own, no live
  process is outside the books or above the cap, a doomed job always has a kill on
  its way, nothing is left on the disk, and Restate is told what a GET answers.
- **Health.** Seven places write the phase; commands are awaited between reading a
  fingerprint and using it; some edits are notified late, some never. Correct
  when the phase agrees with its flags, `fresh` is never claimed over a report
  on other files, and the state settles on a fresh, true report.
- **Gate.** It polls a state that other callers change. Correct when what it
  evaluates is no older than what it was asked about, and it gets its verdict.
- **Runs.** Requests, answers and pods are lost and steps are replayed. Correct
  when the order of the scripts holds, a script is not started twice behind the
  engine's back, and every run ends.
- **Controllers.** A reconcile reads one object after the other while all of them
  change; jobs are created once, fail, expire, and
  outlive the object a name stood for; finalizers wait for jobs. Correct when no
  sandbox runs without its worktree, no worktree goes under a live sandbox, what is
  wanted comes up and what is deleted goes.
- **State stream.** Sessions race to spawn the one watch loop of their owner, a watch
  restarts after a gap, the owner of a sandbox is read while events wait; in the browser
  asynchronous loops outlive the flag that stops them. Correct when events reach a
  connection in order, a connection that lasts learns the last state of what changes,
  and a tab holds one socket, connected while it is used.
- **Language servers.** One request is in the hands of its sender and of several readers,
  in five tables, while servers die and clients leave. Correct when an answer is whole and
  single, nobody waits for a server that cannot answer, and a client that left leaves nothing.
- **RPC.** The loop and the turns share files, a table of reservations and a table of
  numbers, each under its own lock or none. Correct when one turn of a conversation runs at
  a time, no reservation outlives its turn, an answer given is on disk, notifications are
  numbered without a gap, and a turn that began is answered.
- **Chat over WebSocket.** A turn against the close of its socket; correct when the history
  persisted is the history of the turns that happened. Not modelled yet.

## The modules

| Module | Models | Notes |
|---|---|---|
| `JobContract` | what a pod promises to callers of its job API | abstract; no processes, supervisors or locks |
| `SandboxJobs` | `sandbox/src/jobs.rs` | implements `JobContract` |
| `SandboxJobs_proofs` | | invariants of `SandboxJobs`; that it implements `JobContract`; size, cancellations, awakeables |
| `CodeHealth` | `sandbox/src/health.rs` | |
| `CodeHealth_proofs` | | types, phase and truth of `CodeHealth`; what a stale state waits for |
| `GateStep` | `steps/gate.rs` | EXTENDS `CodeHealth`: composed with the detailed health state |
| `GateStep_proofs` | | EXTENDS `CodeHealth_proofs`: what a verdict is on; gates leave the health state as it is |
| `RunPlan` | what a run promises its user: order of the scripts, verdicts that were earned | abstract; no sandbox, requests or attempts |
| `WorkflowRuns` | `api/workflows.rs`, `steps/shell.rs`, `steps/mod.rs` | EXTENDS `JobContract`: composed with the promise of the pod, which `SandboxJobs` is shown to implement; implements `RunPlan` |
| `WorkflowRuns_proofs` | | order and single start of the scripts; that runs implement `RunPlan`; verdicts |
| `SandboxLifecycle` | `controller/src/{sandbox,project,owner,namespace}.rs`, the jobs of `sandbox/src/maint.rs`, the routes of `app/src/api` that start and stop them | with Kubernetes as their environment |
| `SandboxLifecycle_proofs` | | worktrees; what creations stand on |
| `StateHub` | `useSandboxState.ts`, `sandboxStateWs.ts` | the hub loops of the tabs |
| `StateStream` | `ws/sandbox_state.rs`, the watch of `lib/src/k8s.rs` | EXTENDS `StateHub`: sessions, watch loop and objects composed with the hubs |
| `StateStream_proofs` | | order of the stream, states that are owed, the one watch loop, hubs at work |
| `LspSession` | `sandbox/src/lsp.rs`, `lsp_client.rs`, `ws/lsp.rs` | one session: a primary server, its auxiliaries, their clients |
| `LspSession_proofs` | | merges, answers, residues, requests nobody forgets |
| `RpcChat` | `cli/src/rpc/{mod,handlers}.rs`, `cli/src/store.rs` | the loop, the turns, the files |
| `RpcChat_proofs` | | reservations, numbers, answers on disk and to the client |
| `MC*` | | instances for TLC |

Operators named with the comment `\* mutant` state plausible bugs of the
definition below them. No specification uses them; each is there to show that
a property would notice.

### SandboxJobs

A handler of `jobs.rs` takes the registry's mutex for short sections and every
other task may run between two of them, so a handler is one action per section. The
counter `next_seq` names both the incarnation of a job and its process group
(`process_group(0)`), whose members are the leader `sh` and one descendant
left in the background.

| Model | Code |
|---|---|
| `reg`, `nextSeq` | `Inner.jobs`, `Inner.next_seq` |
| `pc[s]`, `outcome[s]` | where `handle_create`, then `supervise`, of that incarnation stand |
| `group[s]`, `watch` | the live processes; the sleeping `spawn_kill_watchdog` tasks |
| `del[d]` | a DELETE handler: the groups it has yet to signal, the ids it awaits |
| `cb[s]`, `resolved[s]` | the task of `resolve_awakeable`; what Restate was told |
| `log[j]` | the log file at the path of an id |
| `Create`, `SpawnJob`, `SpawnFails`, `RemoveFailedLog`, `MarkSpawned` | `handle_create`, section by section, with `cancel_raced` |
| `Reap`, `Elapse`, `ReapTimedOut`, `Finish` | `supervise` and `finish`, with `evict_finished` |
| `CancelOne`, `CancelPrefix`, `SignalTarget`, `AwaitEnds` | the two DELETE routes |
| `Watchdog`, `ResolveAwakeable`, `Exit`, `Restart` | the watchdog, the callback, a process that ends, the pod that restarts |

### CodeHealth

A variable for the fields under the mutex (`f`), one for the channel, one for
the locals of the background task (`task`), and the worktree as the contents of
its last commit, of its tracked and of its untracked files. One action per
section under the mutex and per awaited command: `ReadHead` and `ReadDiff` are the two
commands of `fingerprint`, `Compute` and `Publish`/`ChecksFail` the two sections of
`compute`, between which the checks read the worktree at some moment.
`CompareUnchanged` and `MarkFresh` are apart because the code takes the
mutex for the comparison, releases it, and takes it again to mark.

### GateStep

`later` says whether the report in place was published after the gate's t0, which
is how `execute` compares `computed_at` with t0. Two history variables, `asked`
and `quiet`, hold the content of the tracked files at t0 and whether all edits had
been notified by then.

### WorkflowRuns

`api` and `cancel` hold where `launch_inner` and `cancel_run_inner` stand, `net`
the number of POSTs of each step on their way (a sender that timed out leaves its POST there,
and the replay sends another), `step` the
position and the attempts of a step. `started` and `ended` are histories, over
all restarts of the pod. The engine is outside this repository; it is modelled
from how the code uses it (a retryable error replays the step from `open`, five
attempts at most and then the step is paused; any other error fails it; a
cancellation is delivered some time later).

`RunPlan` is what remains of it for the user: a step is active from its dispatch to its verdict
whatever its attempts do, its script starts (again, if the sandbox lost it) only on needs that are
met, success is the verdict of a script that earned it, and a run is the sum of its steps. A
script may start and end after its step was abandoned: the code lets it. `ImplementsPlan` maps
every place of an attempt to "active" and the histories to themselves.

### StateHub and StateStream

JavaScript is single-threaded, so an action of `StateHub` is what runs between two awaits
of a hub loop. `hub[i]` is where loop i stands, `sock[i]` its socket as the browser sees
it; `used`, `hubRunning` and `ws` are the module variables `hubRef > 0`, `hubRunning` and
`ws`. The server names a connection by the loop that opened it: `link[i]` is where
`run_socket` stands, `chan[i]` the events between the dispatch and the browser. `watch[i]`
is the watch loop the session i spawned, with the changes each of its two watches has
yet to hand over (`backlog`) and the sandbox whose owner is being read (`event`). An
object has no contents but the time of its last change. `told` and `owed` are histories:
what a connection was told last, and which objects it must be told of in the end.

| Model | Code |
|---|---|
| `Mount`, `Unmount` | `useSandboxState` and its `onScopeDispose`, `hubTick` |
| `Opened`, `OpenFails`, `Closed`, `SleepOver` | the awaits of a hub loop; `TopOfLoop` is its `while` |
| `Accept`, `Turned`, `Subscribe`, `SpawnLoop`, `BuildFails`, `Leave` | `run_socket` with `ensure_watch_loop` |
| `Deliver` | the forwarding task and the handler of messages |
| `StartStream`, `ListKind`, `TakeEvent`, `Resolve`, `StreamError` | `watch_loop`, `watch_owner_objects`, `dispatch_sandbox` with `resolve_owner`, `dispatch_project` |

### SandboxLifecycle

| Model | Code |
|---|---|
| `owner`, `ns`, `project`, `sandbox[n]` | the objects, with their finalizers and the parts of their status the reconcilers read |
| `maint`, `job[n]`, `pod[n]` | the Jobs init and purge of a project, checkout and remove of a sandbox; its Pod. `of` is the incarnation of the name whose uid their ownerReference holds |
| `repo`, `worktree[n]` | `repo.git` and `worktrees/<name>` on the workspace volume; a worktree is known by the incarnation of the name it was checked out for |
| `rec[n]` | the `apply` of a sandbox in progress, with what it has read |
| `ApplyCheckout`, `ApplyPod`, `ApplyStatus`, `ApplyFails` | `apply` of `sandbox.rs`, at its three groups of calls |
| `Cleanup`, `ProjectApply`, `ProjectCleanup`, `EnsureNamespace`, `OwnerReady`, `OwnerCleanup` | the other reconciles |
| `lapse[n]` | history: an object of an earlier Sandbox of the name was read as that of the present one ("misread"); a finalizer was lifted while a removal ran ("unawaited") |
| `InitRuns`, `CheckoutRuns`, `RemoveRuns`, `PurgeRuns`, `JobFails` | `vanyline-maint` |
| `CreateSandbox`, `DeleteSandbox`, `SetSuspended`, `CreateProject`, ... | the routes of the API |
| the actions under "Kubernetes" | external: pods, expiry of jobs, garbage collection, a namespace that terminates |

A job that has succeeded is `noted` once a reconcile has read it: the code's time to
live (an hour against reconciles of five minutes at most) lets it expire only then. A namespace
that terminates goes when nothing is left in it, jobs included, as Kubernetes has it.

The code finds Jobs and Pods by name and never looks at their ownerReference, and
neither the API route nor the API server asks whether those of an earlier Sandbox are
gone. So `CreateSandbox` needs only that the Sandbox object is gone; the collector
(`CollectSandbox`, `CollectProject`) removes what is orphaned one object at a time, at any later
moment; and what the controller meets under a name it acts on, whoever it was made for.

### LspSession

`req[r]` is where the task that sends a request stands; `pending`, `barrier[r]` and
`aux[a].internal` are the tables a request can be in, `aux[a].stdin` and `atPrimary` what
the servers have in hand. `send` is one action per lock it takes: `Ask` opens the
barrier and counts the auxiliaries that are alive, `SendPrimary` waits for room, `Fan`
takes the next auxiliary, `Register` enters the table and writes, `Check` looks at the flag
again, `FanEnds` closes. `PrimaryAnswers` and `AuxAnswers` are the readers;
`AuxDies`, `AuxDrains` and `AuxWindsUp` the end of one, which marks its server dead, empties
its table, then makes up for each entry. `answers[r]` is a history: how many answers the
asker got, and whether one lacked the primary's part.

The tasks run on several threads, and the code holds two locks at once in two places:
`unsubscribe` keeps `pending` to its end and takes `merges`, `record_primary_merge_part` holds
`merges` and takes `pending`. Either the locks do not meet, and the whole of each is one step
(`Unsubscribe`, `PrimaryAnswers`: whoever takes one of the two locks in between is before or
after it), or each has its first lock and waits for the other's: `HalfUnsubscribe`, after which
`crossed` is true, the client is "leaving" for ever, and every step that needs either lock is barred,
all that the reader of the primary does among them.

### RpcChat

`loop` is where the reading loop stands, `turn[r]` the task `chat/send` number r spawned,
with the document it holds and the file it has open; `file[c]` is absent, torn or whole;
`busy` and `seq` are the two tables of the state. `fs::write` is two actions, since it
truncates, then writes. `told` is the number the client expects next; `orphaned` and `spoiled`
are histories that say which turns lost their reservation to a purge and on which
conversations the code promises nothing any more.

## The runs

| Run | Bounds | States | Shows |
|---|---|---|---|
| `jobs_reuse` | 2 ids, cap 1, 1 kept, 3 insertions, 1 DELETE | 283,136 | Ids are evicted, fail to spawn, are lost in a restart and posted again: no lookup by id touches a younger incarnation; the registry implements `JobContract` |
| `jobs_concurrent` | 2 ids, cap 2, 2 insertions, a callback | 109,037 | Two jobs under DELETE, DELETE by prefix, timeouts and a callback: no kill is lost, Restate is told the truth, a doomed job ends |
| `health` | 2 edits, 1 refresh, 1 failure, everything allowed but reverts | 156,537 | The phase agrees with its flags; a quiet fresh state is true; the state settles on the truth |
| `gate` | 1 gate, 2 notified edits, 1 refresh by another | 326,972 | The verdict is on files no older than the request, and it comes |
| `workflow` | 2 dependent steps and a foreign job, cap 1, 2 attempts, 1 restart | 248,070 | Order of scripts, one start while the pod remembers, every run ends; the runs implement `RunPlan` |
| `lifecycle` | 1 name, used for 2 sandboxes, 2 deletions or changes of `suspended`, 1 fault | 924,848 | A worktree under every running sandbox and kept under every live one, over what the earlier sandbox of the name left, lapses excepted; what is wanted comes up; what is deleted goes |
| `lifecycle_owner` | 1 sandbox, 1 deletion, no fault | | finding 2 |
| `stream` | 2 tabs with one hub loop each, a project and its sandbox, 1 change, 1 fault | 371,320 | One watch loop for two sessions that race; events in order; the last state told in the end; a used hub connected in the end |
| `stream_sockets` | 1 tab, 2 hub loops, no fault | 13 | finding 1 |
| `lsp` | 2 clients, 2 requests of any kind, 1 auxiliary | 230,620 | A merge waits for no part that cannot come; one whole answer; no residue; nobody waits for ever unless the locks crossed |
| `lsp_locks` | 2 clients, 1 request, 2 auxiliaries | | finding 3 |
| `rpc` | 1 conversation, 3 `chat/send`, 1 purge, 1 notification a turn, 1 fault | 923,273 | One turn at a time; no reservation without a turn; answers on disk; notifications in order; every turn answered |

Why the bounds are enough. The hazards of the job API need one id in two
incarnations, a second id that causes the eviction, and one restart or failed
spawn between them: three insertions. A second concurrent job matters for DELETE
by prefix and for the cap (cap 1 with two ids makes the refusal happen; cap 2 with two
ids makes the concurrency happen). In the health state the shortest chain of
interest is an edit before a computation, one during it, and one failure or
refresh between them. A commit counts as an edit. In the workflow one lost request or
answer, one restart and one retry compose into every chain of interest; the
foreign job makes a 429 reachable. Sandboxes of one project meet only in the
project's own jobs, so one sandbox is enough to meet the reconcilers, the jobs and
the pod in every order; two requests of a user (a suspension and a resumption, a suspension and a
deletion, two deletions) and one failure of a job, a pod or a call, are in turn before, during and
after each of their steps. Two sandboxes of one name are what it takes for the second to meet
each Job and the Pod of the first, in each of their states. In the state stream
two sessions are what a race for the watch loop takes, and one fault is in turn a cut, a
refusal, a client that is not built, a read of the owner that fails, or an error of the
watch, with the change before, during or after it; two loops in one tab are what the
finding takes. In a session of language servers a second client is what leaves, and what hangs, while the first
is served, and a second request what could be mistaken for the first; one auxiliary answers,
refuses and dies at every step of both. Two auxiliaries, one of which dies while the other
answers, are in `lsp_locks` and in the proofs, which hold for any number.
Three `chat/send` are one whose reservation is taken, one that takes it over, and one that
the end of the first lets in beside it.

`CHECK_DEADLOCK FALSE` is said where a system may stop: every run is over and the sandbox
is up (`workflow`); everything was deleted (`lifecycle`, `lifecycle_owner`); the tabs have
used up their loops and the objects their changes (`stream`, `stream_sockets`); every
request was made and the servers are dead, or the locks crossed (`lsp`, `lsp_locks`); the process has exited (`rpc`).

The properties, by what they would catch:

- `TasksMatchRecords`, `LeadersAccounted`: a supervisor, a creation or a watchdog
  that acts on another incarnation; two leaders under one id; a slot freed too early.
- `NoOrphanLog`: a file left after an eviction or a failed spawn.
- `ImplementsContract`: an observable history callers were not promised.
- `KillArmed`, `DoomedJobEnds`: a cancellation lost in the window before the spawn,
  a timeout that nobody executes.
- `ResolvedTruthfully`: a callback that reports another state than the registry, or
  reports before the process is dead.
- `PhaseHonest`: `fresh` over no report, or during a computation; a lost edit.
- `FreshIsTrue`, `SettlesOnTruth`: a report that is wrong at rest, or never corrected.
- `GateSeesNotifiedEdits`, `GateAnswered`: a verdict on older files, a gate that waits
  for its 900 s.
- `InOrder`, `ToldInTheEnd`: a second watch loop, a replay that overtakes or omits
  changes, a subscriber forgotten by a restart of the watch.
- `UsedHubConnects`: a stop, a start or a failure after which nobody opens the socket.
- `StartedAfterNeeds`, `ScriptOnceWhileKnown`, `RunSettles`: a step that starts on a
  failure, a script started twice, a run that waits for ever.
- `ImplementsPlan`: a success nobody earned (a lost job taken for one that ended well), a verdict
  changed by a late answer, a run that ends otherwise than its steps.
- `RunningOnWorktree`, `WorktreeKept`: a pod started before its checkout, a finalizer lifted
  before the removal it waits for has ended, whose job then meets the next sandbox of the
  name; the loss of a user's work. Two things the code does let happen are excepted, by
  `lapse`, and listed under the limits below.
- `ComesUp`, `DeletionsEnd`: a job that failed or expired and stands in the way, a
  finalizer nobody lifts.
- `BarrierFed`, `OneWholeAnswer`, `NoResidue`, `NeverStranded`: a part counted twice or
  not at all around the death of a server; an answer without the primary's part; an
  entry left for a client that is gone; a wait for ever.
- `OneTurn`, `BusyHasTurn`: two turns that write one file; a conversation busy for ever.
- `AnswersKept`, `NumberedInOrder`, `TurnsAnswered`: an answer lost from the disk, a gap in
  the numbers of a conversation, a turn cut by the end of the process: a turn that began has
  its answer before the process goes, as long as stdout is open. The answer of a turn that
  panicked counts as "lost", and a closed stdout excuses the rest (`writer`).

## Fairness

- **`SandboxJobs`.** tokio runs each task that can run, and its timers fire: weak
  fairness for a creation, for a supervisor whose leader died, for a watchdog
  and for a DELETE handler that has groups left to signal. A process is never
  obliged to end, and the timeout of a job is not assumed to elapse (it may be a
  day away): `DoomedJobEnds` rests on SIGKILL alone.
- **`CodeHealth`.** Commands and checks end and timers fire (weak fairness of the
  background task and of the polling); a tool that edited the tree notifies;
  a worktree is mounted in the end. `select!` takes one of its ready branches at
  random, so an event that is waiting is taken in spite of the polling: strong fairness
  of `Wake`.
- **`GateStep`.** The same, and a gate that goes on asking. Nothing makes it expire,
  so `GateAnswered` says it is answered before its deadline matters. It is conditional
  on the checks not failing (`MaxFailures = 0`): a failed forced computation is not
  retried by the gate and the code answers with the expiry after 900 s.
- **`WorkflowRuns`.** The engine goes on with steps and delivers cancellations; the
  sender of a POST times out after 10 s; a job ends, at the latest at its timeout,
  which is `SandboxJobs!DoomedJobEnds`. A launch and a cancellation by the user are not
  fair: nobody is obliged to ask.
- **`StateStream`.** Timers of the browser fire and closes are reported; tokio runs the
  sessions and the watch loop; the API server answers lists and reads. Views, changes
  and failures are free, the last two bounded.
- **`SandboxLifecycle`.** Every reconcile ends in a requeue, so each object is reconciled
  again and again (weak fairness of the reconcilers); jobs, pods, expiries and deletions
  move. A project is seen cloned on and off, since its init job expires every hour
  and is run again; a sandbox is reconciled every 15 to 300 s, hence also while the clone is
  seen: strong fairness of `ApplyCheckout`. Users and failures are free, failures bounded.
- **`LspSession`.** The tasks of the runtime run, and a server that is up answers what it
  has in hand (`lsp.sdd` has no timeout either), as far as their locks let them: what crossed
  locks bar is not enabled, and no fairness moves it. Nothing has to die, come or leave, so
  `NeverStranded` holds with every choice of deaths.
- **`RpcChat`.** The loop and the turns run, and a model answers or fails: the code has no
  bound on a turn, so `TurnsAnswered` rests on that. Clients and failures are free.

## The proofs

Every theorem holds for every value of the constants that the named assumption of the
component's module allows (natural bounds, finite sets where a cardinality is taken). TLC
evaluates each of these assumptions in the runs. In each module the shape is the same: an
inductive invariant, one lemma per group of actions, and the theorem from `Init`, the step
and PTL. Each invariant was an invariant of a TLC run before it was proved.

`SandboxJobs_proofs` (from `JobsAssumption`: finitely many ids, callbacks among them,
a cap of at least one):

- `TypeCorrect`: `Spec => []TypeOK`. Not inductive by itself: a supervisor
  publishes `outcome[s]`, whose initial value is no state of a job. `Typed` adds
  that a supervisor that decided has a terminal outcome.
- `BooksBalance`: `TasksMatchRecords`, by the inductive invariant `Books`,
  which adds that the seqs not yet handed out are free (`Fresh`; an insertion would
  otherwise meet a task of its own number) and that a live leader has a creation or a
  supervisor at work (`LeadersHaveTask`, without which a record could end before its
  process).
- `CapHolds`: `LeadersAccounted`: at most `MaxRunning` records run, by
  a cardinality argument for the insertion, and every live leader is one of them.
- `KillStaysArmed`: `KillArmed`, on top of `Books`: each of the four places that
  doom a job either arms the watchdog in the same step or leaves the group to a handler;
  a handler gives a group up only by arming it; and a watchdog that goes off finds the
  record running (by `Books`), hence kills.
- `LogsAccounted`: `NoOrphanLog`, on top of `Books`: a log is made by a creation whose
  record is in the registry, and outlives it only while the task that removes it is on its way.
- `CallbacksTruthful`: `ResolvedTruthfully`, by `Told`: a callback carries the outcome its
  supervisor decided, and no record of that number ends otherwise.

In the same module, `JobsImplementContract`: `Spec => ImplementsContract`. Each
section maps to a step of `JobContract` or to a stutter. The one hard step is the end of a
job, where the code evicts from the oldest insertion on until `MaxKept` finished records
are left, and the contract only says that exactly `MaxKept` are left if any goes: the
numbers of the finished records are distinct, so the youngest that is dropped and the oldest that
is kept are well defined, and counting the younger ones bounds what is kept on each side. It uses
that `JobsAssumption` keeps `"none"`, the id of no job, out of `JobIds`.

Three more follow on top of `Books`. `RegistryStaysSmall`: at most `MaxRunning + MaxKept`
records, since a creation counts before it inserts (`Capped`) and `finish` evicts in the section
that publishes (`FewKept`, which the count of younger records of the refinement gives).
`CancelledMeansAsked`: a supervisor decides "cancelled" only of a record that carries the flag of a
DELETE. `AwakeablesResolvedOneWay`: a callback whose answer was lost is sent again with the
outcome of the first time, by `Told` before and after the step.

`CodeHealth_proofs` (from `HealthAssumption`: natural bounds, an initial base that is one
of the bases or none):

- `HealthTypeCorrect`: `TypeOK`. `Typed` adds that there are no more
  notifications to send than edits made, without which `pending` has no bound.
- `PhaseStaysHonest`: `PhaseHonest`, by `Honest`: a stored fingerprint
  comes with a report, and so does the task between `CompareUnchanged` and
  `MarkFresh`. Without them `MarkFresh` could declare fresh a state without a report.
- `FreshReportIsTrue`: `~Reverts` implies `Spec => []FreshIsTrue`, by `Truthful`. Contents
  that do not come back are numbered as they come (`Numbered`), so a stored fingerprint
  that is still that of the worktree speaks for its report (`Speaks`); and what a cycle has
  read is what is there unless an edit is yet to be noticed (`Current`).
- `StaleIsOnItsWayOut`: as long as no check has failed, a stale state has an event queued or a
  computation or a comparison under way (`Planned`, which adds that a computation marked dirty
  left an event in the queue). After a failure it is false (see the limits below).

`GateStep_proofs`: `GateTypeCorrect`, and `GatesSeeEdits`: `~Reverts` and `~Commits` imply
`GateSpec => []GateSeesNotifiedEdits`. On top of `Truthful`, what a fingerprint has seen its report
has seen too (`Covered`); and while a gate asks or polls (`Waits`), a computation under way has the
contents of t0 or comes out stale, and after a publication what is fresh, or about to be marked
fresh, is not older than t0. With `Commits` the property is false (see the limits below), so the
hypothesis is needed; `AtRoot` is what it gives. `GatesKeepHealth`: `GateSpec => Spec`, by which every
theorem on `CodeHealth` holds with gates beside it. `GateRequestsStand`: as long as no check has
failed, a gate that polls and has seen nothing later than t0 has its refresh queued, taken or
computing.

`WorkflowRuns_proofs`: `WorkflowTypeCorrect`; `ScriptsInOrder`: `StartedAfterNeeds`, by
`Ordered` (a step that has begun has its needs met, a step that succeeded is fulfilled by a
script that ended, and the pod holds no outcome that is not in the history); `ScriptStartsOnce`:
`ScriptOnceWhileKnown`, by `Remembered` (before the first restart, a script that started is in the
pod's books and waits for no other start). This one assumes that the pod can keep every job,
`Cardinality(JobIds) <= MaxKept`: with more, the eviction forgets one, and the code promises
nothing. `RunsFollowThePlan`: `WorkflowSpec => ImplementsPlan`, one lemma per group of actions; the
invariant it needs besides `Ordered` is `Traced`: a POST on its way, a start and a script are those of
a step that was dispatched, and the pod holds no job without a script that started. Hence
a POST that arrives after its step was abandoned is still a start the plan allows, and a verdict on a job of the pod is one the script earned. `RunVerdictEarned` (a run that
succeeded has every step in success and fulfilled) and `VerdictsAreFinal` (an action property)
follow from it. `RunsKeepTheContract`: `WorkflowSpec => ContractSpec`, so the
runs ask of the pod only what `JobsImplementContract` shows it gives.

`SandboxLifecycle_proofs` (from `LifecycleAssumption`): `LifecycleTypeCorrect`;
`RunningHasWorktree`: `RunningOnWorktree`; `WorktreeStaysPut`: the action property
`WorktreeKept`. The invariant `LifecycleInv` says that a checkout that succeeded, a pod, an `apply` on its
way to one and the phase stand on a worktree, when they are of the present incarnation
(`Grounded`; `BuiltOn` is what they are). That holds because a removal job is active only for a sandbox
that is being deleted, or after a lapse (`NoRemoval`), the purge runs only for a project that is
being deleted (`ProjectSound`), what is under a name is of the present or of an earlier incarnation
and a name nobody has used has nothing (`Dated`), and, for projects deleted before
their finalizer is set, there is no sandbox before its project (`Founded`). `FirstOwnTree` says
that the first sandbox of a name has its own checkout or none. `NothingOrphaned`: an `apply` that was suspended
between two of its calls while its sandbox was deleted creates nothing for it (`Attended`: a
reconcile under way is that of an object that has its finalizer, and only an object that is there
has one), and what is created belongs to the incarnation that is there; an action property from the
same invariant.

`LspSession_proofs` (from `LspAssumption`: finitely many auxiliaries, none of them the primary):

- `LspTypeCorrect`: `LspTypeOK`. The type is not inductive because of `expected`, which is
  counted down: `Shape` adds that an open barrier still expects more than the auxiliaries
  its fan-out has not settled.
- `NothingLeftBehind`: `NoResidue`, by `Gone`: a request whose client left is in nobody's hands.
- `NoPerpetualWait`: `BarrierFed`. `Fed` says that the parts that came, those that will, the
  auxiliaries yet to be settled and the primary, if it has not been sent to, are
  enough for what the barrier expects; `ReadersDown` and `Lodged` say that an auxiliary that is
  up has its reader at work, and that what was registered with it is in its hands.
- `OneAnswerEach`: `OneWholeAnswer`, by `Whole`: while no auxiliary has died, the auxiliaries
  that have the request or gave their part and those not yet asked are apart and fewer than
  the barrier expects, so the last part is never the last without the primary's.
- `NobodyForgotten`: `InGoodHands`. A request that waits is pursued (`Pursued`): one for the
  primary alone is in `pending` and about to be sent or with the primary, a merge has its barrier
  open (and then `Fed` gives the parts to come), a resolve is on its way to its auxiliary, about to be
  withdrawn with an answer, in its hands, or in those of the reader that winds it up.
  It says who has the request, not that this task can go on: crossed locks stop the hand.
  `NotYet` adds that what has not been sent is not with the primary.

`RpcChat_proofs` (from `RpcAssumption`): `RpcTypeCorrect`, `OneTurnAtATime`, `ReservationsEnd`,
`NumbersFollow`, `AnswersOnDisk`. One invariant, `Sound`: a turn is *held* while it lives and its
reservation was not taken; the conversation of a held turn is in `busy`, no two held turns
share one, and a live turn that is not held is on a spoiled conversation (`Reservations`,
`Numbers`); `InHand` says the same of the loop between two of its steps. `AnswersOnDisk` is
`AnswersKept`, by `Kept` on top of it: as long as nothing spoiled a conversation, the document
a live turn works on holds every answer given before with its question, the file it opened is the
conversation's own, and the document ends on the turn's question until the turn answers it.
`AnsweredOnce` is the action property `AnswerStands`, by `Unanswered`: a request the loop holds or
whose turn still runs has no answer, so nothing answers twice and nothing answered runs again.

`StateStream_proofs` (from `HubAssumption`, `StreamAssumption`):

- `StreamTypeCorrect`: `StreamTypeOK`. `Typed` adds that an object that exists was
  created, so that a replay has a time to give.
- `ToldInOrder`: `InOrder`, by `Ordered`. At most one connection spawned a watch loop, and the
  others hold nothing of the watches (`OneLoop`); the event in hand, the changes held and the state of an
  object are in the order of time (`Lined`); and nothing that may still come is before anything sent,
  in the channel or at the browser. A dispatch takes the least of what is to come, a replay adds the
  greatest, and a connection that ends forgets both.
- `NoStateLost`: `NothingLost`: a state owed to a connection was told, is in its channel, in the
  watch or in hand, or a list that is pending will bring it; or its sandbox is of a project whose
  owner was remembered as missing.
- `UsedHubHasLoop`: `HubAlive`; `OneWatchLoop`: `ServedByOne`.

Only model-checked: the liveness properties, which are out of the prover's reach
(`DoomedJobEnds`, `SettlesOnTruth`, `GateAnswered`, `RunSettles`, `ToldInTheEnd`, `UsedHubConnects`,
`ComesUp`, `DeletionsEnd`, `NeverStranded`, `TurnsAnswered`). Of several the part that is not fairness is
proved: that something is on its way whenever something is owed (`KillStaysArmed`,
`StaleIsOnItsWayOut`, `GateRequestsStand`, `NoStateLost`, `UsedHubHasLoop`, `NobodyForgotten`);
what TLC alone shows is that it then arrives. No RECURSIVE operator is used.

## Disagreements found

1. **`stream_sockets`.** `useSandboxState.sdd` forbids a second WebSocket. `hubRunning` is
   one flag for every loop of the tab: a loop that was stopped and still awaits finds it
   set again when the next view is mounted, and goes on beside the new loop.
2. **`lifecycle_owner`.** `owner.sdd` says a deleted Owner goes with its namespace. The namespace is
   deleted first; once it terminates it takes no new object, so the finalizers of projects
   and sandboxes wait for a maintenance job nobody can create, and nothing ever ends.
3. **`lsp_locks`.** `lsp.rs:1769-1773` and `lsp.sdd:444-446` say that `merges` is never taken while
   `pending` is held. `unsubscribe` (`lsp.rs:2208-2218`) does just that, against
   `record_primary_merge_part` (`lsp.rs:1761-1776`), which takes them in the other order. On the
   multi-thread runtime a client that leaves while a merged answer comes in blocks the reader
   of the primary for ever; the session stays alive and answers nobody.

Limits of the code the models know of, stated where a property excludes them:

- *Jobs.* The watchdog (`jobs.rs:465`) kills a group only if its job still runs after
  the grace period: when the leader dies of the SIGTERM, a descendant that ignored it
  survives (`jobs.sdd:159` promises otherwise). Hence `LeadersAccounted` speaks of leaders.
- *Health.* The fingerprint is read before the checks: an edit after that reading that is undone
  after the checks brings the stored fingerprint back, and a report on contents that are gone is
  declared fresh (`Reverts`). A commit between the two commands of a fingerprint gives the old head with
  the empty diff, the fingerprint a stale report may have stored: the state is marked fresh
  on that report until the next polling, and a gate may evaluate it (`Commits` in `gate`). After
  the checks have failed on an edit that is then undone by something that notifies nobody, every
  polling finds the fingerprint of the report in place and returns without marking it fresh
  (`health.rs:528`): the state stays stale over a report that is true, with no computation planned
  (`health.sdd:80` says one is), until somebody notifies or refreshes. TLC finds it with
  `Reverts`, two edits and one failure when asked for `f.phase = "stale" ~> f.phase # "stale"`.
- *Gate.* A computation under way at t0 is later than t0 when it is published: the gate accepts
  it though it is on the base and, for edits nobody notified, on the files of before.
- *Runs.* The pod forgets its jobs in a restart and beyond 20 finished ones: a replay then
  starts the script again (`ScriptOnceWhileKnown` says "while known").
- *Controllers.* `cleanup` lifts a finalizer on any error of its reads, a passing one too: the
  worktree stays, and a sandbox of the same name takes it over (`RunningOnWorktree` speaks of the
  right branch for a new name only). When a removal job was under way it goes on, and takes the
  worktree of the next sandbox of the name, with its work (`WorktreeKept` and `RunningOnWorktree`
  except a name that is "unawaited"). A sandbox created under a name whose earlier Jobs and Pod the
  collector has not removed yet takes them for its own: the success of the old checkout job lets
  its pod start with no worktree (`sandbox.rs:1475`), the old pod gives it its phase
  (`RunningOnWorktree` excepts a name that is "misread"), and the success of the old removal job lifts its
  finalizer with the worktree still there (`sandbox.rs:1667`). Sandboxes of a project that is gone have no reconciler
  that can resolve them. A project's status goes back to not cloned every hour, for
  the time of an init job.
- *Language servers.* `send` looks at the flag of an auxiliary after registering with it: one that has
  answered and died meanwhile is both in the barrier and taken off what it expects
  (`lsp.rs:2428`). The merge completes without the primary, whose own answer then goes out under the
  same id, where `lsp.sdd:477` promises a single answer. Hence `OneWholeAnswer` stops at the
  first death of an auxiliary; asked without that, TLC finds the second answer with one request and one
  auxiliary. A request the
  primary forwards to an auxiliary that was just drained is never answered
  (`lsp.rs:1712`). A client that subscribes after the session has died waits for ever: the
  properties speak of sessions that live.
- *RPC.* `chat/send` reads the conversation before it looks whether it is busy: a turn that ends
  in between is missing from the copy the new turn writes back. `initialize` and `conversations/delete` take
  a running turn's reservation, and the end of that turn takes the next one's. A deleted conversation comes
  back when its turn saves. An exit in the middle of a write leaves no JSON. These conversations
  are `spoiled`, and these turns `orphaned`; a panic and a closed stdout take the answer away, and
  a closed stdout also lets the process end over turns that run.

## Abstractions

- **Jobs.** Exit codes, contents and paging of logs, durations and wording are left out.
  The error branch of `child.wait()` is not modelled (it concerns a child the kernel no
  longer knows). Pids are not reused. `next_seq` goes on over a restart where the code
  starts again at 1, so that a number names one incarnation for ever; no two
  incarnations of one pod life are affected. `MaxSeq` bounds the insertions.
- **Health.** Contents are numbers; a report is the contents and the base
  it was measured on. `languages_override` and the results of the checks are left
  out; the validation of a base is the choice among valid ones, and an invalid base
  changes nothing. `FreshIsTrue` and `SettlesOnTruth` speak of tracked files and of contents
  that do not come back (`Reverts = FALSE`). `MaxEdits`, `MaxRefreshes` and `MaxFailures`
  bound the environment.
- **Gate.** The evaluation of the five rules is pure and left out. One clock is assumed
  for t0 and `computed_at`. A gate replayed by the engine is a new gate. The `gate` run
  has no commits and no failures of the checks: a failed forced computation is not
  retried by the gate, and the code answers with the expiry after 900 s.
- **Runs.** The steps are shell steps. Each run is launched once (a run id is fresh). The
  phase of the Sandbox resource follows the pod with a delay. The CRUD of definitions
  and the reading of statuses are not modelled.
- **Controllers.** One owner and one project. Contents of pods and jobs, services, policies,
  ingresses, secrets and the other resources of an owner are left out: they are applied and
  never read back. A reconcile that fails on something that lasts changes nothing and is
  no action. `MaxInc`, `MaxChanges` and `MaxFaults` bound the users and the failures. The Project is
  created once: when it is gone its Jobs are collected, and the volume keeps what a purge that was
  skipped has left. That the Owner's volume goes with its namespace is not modelled: nothing
  reads it afterwards.
- **Stream.** One owner: sessions and watch loops of two owners share only maps keyed by
  the owner. The views of a tab beyond the first are only counted in the code, so the
  model has one bit for them. The 2 s pauses of the watch loop are time spent at `top`.
  A loop opens its next connection after the server has seen the end of the last one. The
  push of the subscriber and the first look for the watch loop are one step: a
  loop spawned in between is found by the second look. A watch that errs loses what it
  and the other watch had not handed over. The phases shown by the views, their
  debounced refetches and the late-joiner gap the documents accept are left out.
- **Language servers.** Documents, diagnostics, the handshake of `initialize`, the merging of
  contents and the auxiliaries that only publish diagnostics are left out. An item to resolve
  comes from any auxiliary. A server answers what it has in hand in any order.
- **RPC.** The messages of request r are `<<"user", r>>` and `<<"assistant", r>>`. A turn
  emits one notification at a time, `MaxEvents` at most. Listing and reading conversations
  change nothing; `config/*` and the Kubernetes methods are one call each. Deletes of files that are
  refused are left out.
- **Not modelled**, with reasons, are the components `PROJECT.json` lists as
  `not_modelled`: pure I/O, one transaction per request, external turn engines, or
  planned below.

## The plan

Done: the pod (jobs, health), the steps over it (gate, shell), runs, the controllers, the state
stream with its hubs, language servers, the RPC server, and a theorem for every safety
property of these.

Left, in this order:

1. Chat turns over WebSocket (`app/src/ws/chat.rs`): the busy guard, the persistence of a turn,
   its time bound, the close of the socket. Hazards seen: the agent and its context are read
   once, when the socket opens (`chat.rs:155`); two sockets on one conversation have a
   session each. Invariant: what is persisted is a sequence of turns that happened, one at a time.
2. The diagnostics and the handshake of the language servers (`lsp.rs`): `initialize` is sent by every client
   and merged over the servers; diagnostics of several servers are kept under two locks
   (`lsp.rs:2705`).
3. The configuration stores (`cfgstore/src/fs_store.rs`): layers merged on reading, files replaced on
   writing.
4. Theorems: every safety property the runs check has one. Left are bounds that hold where a
   property stops: a request of a session gets at most two answers, whatever dies (an
   auxiliary counted twice is the case of two), and the steps of the liveness arguments as
   action properties.
