# drover-code in TLA+

A verification development for drover-code, a coding agent written in Go: a text
UI around an agent loop that talks to a model and runs tools, with remote
workers, a webhook server and a long-term memory beside it. The modules are
translated from the source; paths below are relative to `src/`.

## The system

| Component | Source | State it keeps | What happens to it |
|---|---|---|---|
| Exec stream | `cmd/ukc-agent/exec.go`, `internal/tools/ukc/sse.go` | a job's replay buffer, base index and listeners; the reader's last event id and retry count | a command prints, the handler streams server-sent events, the reader reconnects |
| Agent loop | `internal/agent` | the phase of a run, decisions on tool calls, event channel | `Run`, `CompactContext`, `ExecuteTools`, cancellation |
| Conversation | `internal/convo` | the messages and the token calibration | append, estimate, cut, summarise, reset |
| Model request | `internal/api`, `internal/agent/inference.go` | the attempts of a request, the blocks under way | retry after 429, read events, gather blocks |
| Text UI session | `internal/tui/model.go`, `program.go`, `messages.go` | input queue, busy flag, prompts, diff, palette, the current cancel function, waits on the event channel | `Update` on keys, events, completions and resizes |
| Permission engine | `internal/permissions` | remembered rules, rule file and its temporary file | `Check`, "always allow", load, save |
| Coordinator | `internal/coordinator` | subtasks, results, git lock | local workers, remote workers, merging of their results |
| Worker instances | `internal/tools/ukc` | registry, templates, active-jobs file, cloud instances | provision, register, destroy, reconcile orphans, the instance tools |
| Workspace transfer | `internal/tools/ukc/workspace.go`, `cmd/ukc-agent/workspace.go`, `internal/workspace` | archives under way | upload, unpack, download |
| Hosted worker | `pkg/hostedworker` | one instance | create, run the contract, clean up with retries |
| GitHub webhook | `internal/github` | active jobs per issue, semaphore, clones | accept a delivery, run a job, edit its comment |
| Bridge | `internal/bridge`, `cmd/drover-code/main.go` | handlers, the shared conversation | JSON-RPC read loop, executions, frames |
| Dream memory | `internal/dream` | the JSON file, the database, counts | import, save, prune |
| Headless session | `cmd/drover-code/main.go` | inputs, exit code, result file | run inputs, watch the deadline and the budget, flush the memory, exit |
| Tracer | `internal/telemetry` | the queue of events | record, flush every two seconds, last flush |
| Others | tools, MCP, commands, configuration, Warden, rendering | none that outlives a call, or none that others read | see "Not modelled" |

How they interact. The UI starts goroutines that call `Loop.Run`; the loop and
its tool executor send events on one bounded channel that the UI reads one wait
at a time (`waitForEvent`), and a permission request carries a one-slot channel
for the decision. The loop appends to the conversation and compacts it; its
responses come from a driver goroutine that parses the provider's stream. The
executor asks the permission engine, which asks the UI. The coordinator runs
several loops of its own, or provisions worker instances, sends them the
workspace, drives their exec stream and synchronises what comes back with the
user's repository. The webhook server runs one loop per job in a clone; the
bridge runs one loop per request on one conversation; a headless session runs
its inputs one after the other and hands the conversation to the memory. The
tracer is told of every run.

What is hard: the UI handles results of goroutines in any order and with more
than one run alive; tools of one response run in parallel and ask for
permission in parallel; the loop's sends drop when the channel is full while
the executor's block; a cancelled run must return with prompts unanswered; a
history must keep tool calls and results paired through compaction, errors and
cancellation; a reader must not lose, repeat or misnumber events over evictions
and broken connections; files of registrations, rules and memories race between
processes; the repository is switched between branches under a user who edits
it; a session ends through three goroutines that may all exit.
`PROJECT.json` lists each hazard at its line, with the properties that cover it.

## Correctness, per component

- Exec stream: a reader is handed entries of the job's log under their own index
  and in order; nothing is lost without an eviction or a torn event; a warning
  names a lost event; the reader gives up only after the failures it may have,
  and always returns.
- Agent loop and conversation: results behind their calls, a cut always exists,
  no request over the limit, refused calls do not run, a cancelled run returns.
- Model request: a recorded response holds exactly the blocks that arrived whole.
- Text UI: the event channel keeps a reader, the busy state and the queue always
  have a completion to come, a shown prompt can be answered without blocking, an
  interrupted run returns; one run at a time.
- Permission engine: no kill and no failed save spoils the rules file; a deny
  rule stays through every save, and an answer once it is saved.
- Worker instances and active jobs: a worker that returned left no instance
  behind, a reconciliation deletes all that crashed processes left and nothing
  that is in use, the file follows the jobs, the pool is bounded; the instance
  tools and a hosted run leave no instance that nothing knows of.
- Coordinator's merging of results: only accepted work reaches the user's
  branch, no file that was sent leaves it, the user's edits stay, and the
  repository returns to the user's branch.
- Coordinator's local workers: a result holds the texts of its worker; the task ends.
- GitHub: one job per issue, a bounded number in all, each in its own clone;
  each placeholder is replaced.
- Bridge: frames are whole, each request is answered once, and the shared
  conversation stays one the provider accepts.
- Dream memory: a prune removes none of the newest entries, and what it removed
  does not come back by an import, apart from the kills and overlaps of two
  processes that `RetentionHolds` names. That no saved entry is lost otherwise,
  and what an import may leave out, is not stated.
- Headless session: success is written and returned only when every input
  succeeded in time, and the result file, if it is written, fits the exit code;
  the session exits.
- Tracer: the server gets the tree of a run in an order it can use.

## Modules

| Module | What it is |
|---|---|
| `ReplayLog` | the abstract promise of the exec stream: a log, and a reader that is handed entries in increasing order and completes on the closing entry |
| `ExecStream` | job, handler and reader in detail; `Contract` states that it implements `ReplayLog` |
| `Conversation` | messages, token estimate, cut and summary, as operators on a history |
| `AgentLoop` | `Run`, compaction, batches, parallel tools and the event channel over `Conversation` |
| `TuiSession` | `Model.Update` and the goroutines it starts |
| `RemoteWorkers` | coordinator processes with remote workers over one cloud account and one file of active jobs |
| `WorkspaceSync` | uploads, downloads and `syncDownloadedWorkspace` on the user's repository |
| `LocalWorkers` | decomposition, local workers, the two readers of their events, synthesis |
| `GitHubJobs` | deliveries, jobs, semaphore, deadline, clones, restarts |
| `Bridge` | the reading loop, handlers, frames, executions on one conversation |
| `HeadlessSession` | `runHeadless`, the watchdog, signals and the dream worker |
| `PermissionRules` | the engines of several processes over one rules file |
| `DreamMemory` | both stores, the import, retention, several processes |
| `ModelStream` | one request: retries, events, blocks, ways a body may end |
| `Telemetry` | the tracer's queue and its two senders |
| `HostedWorker` | one `hostedworker.Run` with its clean-up |
| `InstanceTools` | `ukc_create`, `ukc_build_template`, `ukc_delete`, `ukc_delete_all` over registry and templates |
| `ExecStreamProofs`, `AgentLoopProofs`, `TuiSessionProofs`, `RemoteWorkersProofs`, `WorkspaceSyncProofs` | the theorems about the module of the same name |
| `EntryPointProofs` | the theorems about the ways into the program: `GitHubJobs`, `Bridge`, `HeadlessSession` |
| `PersistentStateProofs` | the theorems about what outlives a process: `PermissionRules`, `DreamMemory`, `HostedWorker`, `InstanceTools` |
| `ServicesProofs` | the theorems about `LocalWorkers`, `ModelStream` and `Telemetry`, and about the ten components as `MCServices` composes them |
| `MCExecStream`, `MCAgentLoop`, `MCTuiSession`, `MCRemoteWorkers`, `MCWorkspaceSync`, `MCServices` | instances for TLC; the last composes the ten components that share no state |

In every module a definition that begins with the comment "Fault:" is what a
plausible bug would make of the definition below it; nothing of the model uses
it. It is there to see that a property notices.

### ExecStream

One job. Every lock region of the Go code is one action: `trySend` appends,
evicts, moves the base index and wakes the listeners in one step, while
`streamSSE` takes a measure of the buffer in one region (`Snapshot`) and reads
it in later ones (`Deliver`), so the command may print in between. The wire is a
queue of frames, one per event. `Break` drops what was not read and may cut the
first frame: behind its id line (the reader has then stored an id whose data it
never saw) or inside it. The reader's loop is `Connect`, `ReadFrame`,
`StreamEnds`, `Retry`, and its four ways to return. The numbers in an event's
payload stand for the line's place in the output.

### AgentLoop and Conversation

The loop is a phase machine in the order of `Run`: check the budget and compact
(`ensure`, `summarise`), request, stream, execute, and, in plan mode, propose a
batch and wait, then run the calls in parallel. A message is its role, the ids
of its calls and results, and a size; the estimate is the sum of sizes and of
the summary's. The event channel is a counter: `Loop.emit` drops when it is
full, the executor's `emit` waits. Cancellation ends every wait that selects on
the context and no other. `/compact` and `/clear` come between runs, as loop.go
asks of callers; what happens when they do not is TuiSession's question.

### TuiSession

One action per message that `Update` handles, with everything the handler does
to the state. Goroutines end in any order. A run is seen from outside: it asks
for permissions (single, with a diff preview, or a batch), sends tool events,
ends with a done or error event that may be dropped, or with none (commands that
are answered locally or blocked), and returns some time later, which produces
its completion message. Waits on the event channel and events that were
received but not yet handled are state, so events are handled out of order as
soon as two waits exist. The palette's messages are in flight between the key
and their handling.

### RemoteWorkers

Several processes of one user run `executeWorkers` with remote workers, once
each. A process reconciles (`List`, `LoadActiveJobs`, one `Sweep` per listed
instance, `Prune`), builds the toolchain, and fills its pool; a worker is
`runWorkerRemote` from `Create` to `Destroy`. Register and Unregister are two
actions each, the read and the write of the file, because nothing excludes other
writers; so are the listing of the instances and the read of the file that
reconciliation compares it with. Any call may fail; a failed creation or
deletion may have been served. The first error of a worker ends the context of
its siblings, as the errgroup does, but not that of clean-ups, which use a
context of their own. A process may die at every step and its memory with it;
the instances and the file stay. Process ids are not reused, so `processAlive`
is the state of the process.

`Save` compares what it writes with what it overwrites: an entry of another job
that it drops is `exposed`, one that it brings back is `stale`; so are entries
whose own write failed, and a job whose entry was looked for before it was
written is `exposed` too. These history variables change nothing; they let the
invariants say exactly what the missing lock costs.

`RuntimeAccepts` says whether the worker's runtime takes the token the client
sends. `Client.Provision` stores the cloud account's token (client.go:37), while
runWorkerRemote gives the instance a random `AGENT_TOKEN`; an image whose runtime
is `cmd/ukc-agent` with that variable set refuses the former, and every worker
then fails its health check. The theorems hold for both values; the run
takes TRUE, where all later calls happen.

### WorkspaceSync

What a worker's instance does between upload and download (RemoteWorkers) is one
step here; what happens to the user's files is in detail. The content of a file
is the set of writes it carries (the base version, a worker's, the user's), the
empty set being no file; a branch is the tree of its last commit. That is enough
to ask whose work is where. The upload reads the working tree file by file,
without the git lock, so it may see the middle of another worker's
synchronisation (`mixed`). Each git command of `syncDownloadedWorkspace` is an
action that may fail, by itself or because the context has ended; what the code
does with the failure is the branch of the action: a status that fails counts as
clean, a copy that fails falls back to one that deletes nothing, an add that
fails returns from where it is. `Switch` is what git does to tree and index when
HEAD moves, with its refusal when a file that would be replaced has local
changes; a refused switch is a failed command like any other. The merge is three-way by file, since the user may commit between the
checkout and the merge; two changes of one file merge or conflict, which leaves
the tree conflicted and the error unread. The user edits and commits at any
time.

### The components of MCServices

`LocalWorkers` follows `ExecuteWithResults`: the model's answer to the
decomposition (an array with strings, blanks and other elements, or none), the
bounded group, and per worker a loop whose events go into a channel of bounded
size that `collector` and `forwardWorkerEvents` both read. `swallowed` and
`dropped` say which texts the collector did not get, and why; the report of a
worker holds all others, in their order (`MissingOnlyTaken`).

`GitHubJobs` takes a delivery from its checks to the replaced placeholder.
`Receive` is the handler with the trigger's rules (`Request`, how a mention is
found in a comment's lines); `Enqueue` marks the issue and `Start` waits for a
slot; then one action per call of the runner. The deadline is the job's own.
`Stop` is a shutdown or crash with a restart: directories and comments stay.
Directory names are not injective ("/" and "." become "-"), which `DirOf` says.

`Bridge` writes a frame in two halves under `wMu`. Executions run concurrently
on the one conversation of the process, which is the list of who appended what.

`HeadlessSession` has three goroutines over one context. The watchdog decides,
writes its result and exits in separate steps, and so does the main goroutine.
A run produces at most one token over the budget, so that being over the budget
happens; a signal may come at any time. Writing the result (`WriteFile`) replaces
the file as a whole or leaves it: `headless_result.go` only logs an error of any
of its steps and writes nothing when no path is given, and both the session and
the watchdog go on to exit with their codes. So code 0 does not promise a result,
and the watchdog's code 4 may stand beside an "ok" it could not replace;
`unwritten` remembers whose write was not done, and `ResultMatchesExit` says what
result and code may mean together.

`PermissionRules` keeps, per process, the rules it read once, and the steps of
a save: truncate the temporary file, write it, rename it. The temporary file
has one name for all processes, so one may rename what another is writing
(`writesTo`). A user may edit the file and any process may be killed. Each of the
three steps may fail by itself (`SaveFails`): the directory or the temporary file
cannot be opened, the write falls short or the file cannot be closed, the rename
fails. `addRule` drops the error, so the answer stays in memory, is lost with the
process and is saved by its next save, if there is one. `unsaved` holds such
answers, beside those of a save under way, and `saveFailed` says whose last save
failed; `RulesKept` allows the file to lack `unsaved` and nothing else. A process
that cannot read the file starts without rules and later writes its own over it;
like an overlap this is remembered in `disturbed`, and excuses the file.

`DreamMemory` gives each process one of the two back ends. The database's import
(read, insert, rename the old file) and its prune (by age, count, delete) are
separate statements between which other processes work and a kill may fall. An
entry is the time at which it was made. `again` remembers what may bring removed
entries back: an import killed before it renamed the old file, a session that
writes that file again, and imports of two processes beside each other. The last
was found by the proof: of two processes that have both read the file, one
imports, renames and prunes what it imported, and the other then imports it again.

`ModelStream` has the provider's events as data: block starts, deltas, ends of
several indexes, errors, events that are skipped, and a body that is closed at
any point, with or without an error. `AreReceived` says of the events alone which
blocks arrived whole, each at the place of its end among the ends;
`ResponseWhole` compares the driver's work with it.

`Telemetry` has the periodic sender and the last flush, which do not wait for
each other. `HostedWorker` has the clean-up's two rounds of bounded attempts, a
stop between them and its own time limit. `InstanceTools` has several processes
that read the registry once and write it whole, with a cloud whose replies may
be lost; `excuses` records what happened to an instance, so that the invariant
can say which ways to forget one exist and that there are no others.

These ten share no state. `MCServices` chooses one at the start of a behaviour
and lets only that part move: TLC visits the sum of their states, not the
product, and one run checks all of them.

## Runs

| Run | Question | Bounds and why |
|---|---|---|
| `exec_stream` | does the stream keep its contract over evictions, breaks, torn events and reconnections, is nothing else lost, and does the reader return? | a buffer of 2 and up to 4 events, so that the buffer overflows; 2 retries, so that the reader can give up; 2 frames on the wire, so that the handler runs ahead; a break may fall behind an id line |
| `agent_loop` | pairing, cuts, limits, refusals and return under cancellation | two inputs, three responses of up to two calls, a tail of 2 and a limit of 5 with sizes 1 and 3: cuts fall on tool results, the history can be over the limit after all rounds |
| `agent_pairing` | is every request paired? No | one call per response suffices |
| `tui_session` | is the session ever stranded, is the channel always read? | three inputs, one queued behind another; one request; channel of 1, so that events are dropped and sends wait; two waits, so that events are reordered |
| `tui_interrupt` | does an interrupted run return, can a prompt be answered twice? | two runs, two requests that replace each other |
| `tui_runs` | is there one run at a time? No | two palette messages or inputs |
| `remote_workers` | what do crashes, lost replies and an unlocked file cost? | two processes, one with two jobs and a pool of one, so that a slot is waited for, jobs of one process and of two overlap, and a crash leaves instances that the other finds |
| `workspace_sync` | what may become of the user's branch, index, files and edits? | two workers, so that one is synchronised into what the other has done; a file each and one that git ignores; the user edits the first worker's file, so that there are conflicts; only the first worker's commands fail by themselves, which leaves the second to meet what that left, while a cancellation may fail any command |
| `workspace_sync_ignored` | do ignored files outlive a sync? No | the same, without failures |
| `services` | the questions of the ten components above | jobs: two deliveries of one issue and one of another with the same directory name, two slots, one restart. Bridge: two executions, an unknown method, an unreadable message. Headless: inputs that succeed, fail, cannot be read or are no prompt, with and without memory and deadline; either write may fail. Rules: two asking processes and one with an allowlist, two of them at a time, two tools and one edit, so that a file with an edited rule is rewritten and a second answer follows a failed save. Dream: two processes on the database, one on the file, room for two entries and two days. Local: two subtasks, one slot, a pipe of two for three events. Stream: overlapping blocks, thinking, an error, an unreadable event, three attempts, a channel of one. Tracer: one span. Hosted: three tries a round. Tools: three calls in two processes over one instance |
| `headless_hang` | does a session exit? No | a dream worker without a deadline |
| `worker_text` | does the result hold all texts? No | one worker |

Runs do not check deadlock: a job that is over, a session at its bound of inputs
and a loop without further input really stop. Capacities of the code (a buffer
of 1000 events, channels of 32 to 512) are constants; what matters is being at the
limit, which small values reach at once. Bounds of the models are named in the
modules. Where two actors suffice for an interleaving, a third adds none: the
hazards are between a step and what one other actor does behind it. The
invariants that are also proved (below) do not depend on the bounds at all.

### What the violated runs show

- `agent_pairing`: a run that ends between recording the calls and their results
  leaves calls unanswered in the history for every later request.
- `tui_runs`: a palette command starts a run without marking the session busy;
  the end of one run also clears the mark of the next.
- `workspace_sync_ignored`: `rsync --delete` removes from the user's working
  tree what git ignores, as the upload never sent it and `git status` does not
  see it.
- `headless_hang`: the session waits for the dream worker, which waits for the
  end of a context that nothing ends.
- `worker_text`: `forwardWorkerEvents` takes a text off the channel it shares
  with the collector and throws it away.

## Fairness

- `ExecStream`: the handler and the reader take the steps they can
  (goroutines are scheduled, the connection is served or breaks). Nothing is
  assumed of the command: `DoneReachesClient` starts from the final event.
- `AgentLoop`: the consumer drains the channel, the model's stream ends, a
  batch's wait and the tools of a cancelled run come to their end. The
  consumer's part is what loop.go's comment asks for and what TuiSession's
  `EventsPumped` shows of the UI. Strong fairness is used where another sender
  may take the slot again and again; Go serves blocked senders in order.
- `TuiSession`: Bubble Tea handles every message, goroutines are scheduled, a
  run whose context has ended comes to its end (which is what `CancelReturns`
  shows of the loop). Nothing is assumed of the user, who may never answer.
- `GitHubJobs`: some goroutine that can run does. A delivery takes a bounded
  number of steps, so no more is needed; every call to GitHub, git or the model
  ends, as all of them have the job's deadline.
- `HeadlessSession`: each of the three goroutines takes the steps it can, and a
  deadline that is set comes. A signal need not.
- `LocalWorkers`: goroutines are scheduled, and the model's stream ends.
- `RemoteWorkers`, `WorkspaceSync` and the other parts of `MCServices` state
  none: their properties are about what happened, and a process may die or be
  left waiting at any step.

## What is proved

All theorems hold for every value of the constants that the modules' assumptions
allow; the bounds of the models included. Every invariant and every action
property of the passing runs is a theorem, and so is the refinement of
`ReplayLog`; each rests on an inductive invariant.

- `ExecStreamProofs`. `TypeInv` adds to the types that measures are ordered
  (`TypeCorrect`, and `TypeOKCorrect` from it). `ReplayWindow` is inductive with
  it. `StreamInv` strengthens it with the handler's position (`Cursor`), the
  frames on the wire (`InFlight`) and what the reader was given (`Given`): every
  frame is an entry of the log under its index, indices grow from what was read
  through the wire to the handler. From it follow `NoSpuriousGap` and
  `ContractHolds`: every step of the stream is a step of `ReplayLog` or leaves
  its variables unchanged. `StreamInv` and these two theorems assume that a break
  cuts no id line short (`"inId" \notin TornCuts`): a cut number would make the
  reader ask for an index of its own invention. That assumption is a property of the link, not of
  the code, and is part of the theorems' statements. `UntornSafe` needs no such
  assumption: `StreamInv` holds until the first break that tears a frame. On it
  rest `GivesUpOnlyAfterDropsCorrect` and `NoLossWithoutEvictionCorrect`. The
  first counts retries against failures (`RetriesAccounted`): the one retry that
  no failure accounts for is spent when a handler returns early, which it only
  does when the job is over (`ClosedWhenDone`), so that every later connection
  measures all that is left and delivers it to the end (`LastConnection`). The
  second says that, from the index the reader has through the wire to the
  handler, indices are consecutive (`Consecutive`).
- `AgentLoopProofs`. `HistoryInv` says for every message with results that its
  predecessor asked for exactly those, that the calls being executed are the
  last message's, and that unanswered calls are current or abandoned; it is what
  the cut and the append need of each other. `ResultsBacked`, `CutExists` and
  `OnlyAbandonedUnanswered` follow. `RefusalInv` ties a call's decision to the
  refused and executed sets. `LimitsCorrect` covers the limit, `TypeOKCorrect` the
  types: compaction's rounds, the channel's capacity, and that only calls of the
  response are refused or executed.
- `TuiSessionProofs`. `NothingStranded` and `EventsPumped` are inductive with
  the types of the queue, jobs and waits; the proof rests on what
  `Submit` and the queue loop leave behind (`SubmitStarts`, `NextQueuedServes`).
  `ShownUnanswered` needs that a question is in one place at a time: once in the
  channel, then received by one wait, then on the screen (`PromptInv`). The types
  (`TypeOKHolds`) include references: a cancel function, a request and an event
  are those of a run that was started, a prompt is a request that was made.
- `RemoteWorkersProofs`. `TypeOKHolds` counts the workers under way (only
  `Spawn` fills a slot). `WorkersInv` has three parts: `JobInv` ties a job's
  instance to where its worker is, and gives `LeakOnlyOnLostReply`; `FileInv`
  says when a job is in the file, and gives `FileFollowsJobs`; `SweepInv` says
  what a reconciliation may conclude from a listing and a file that both have
  aged: it needs that an instance that was listed had been created (`JobInv`),
  and that a job past its registration is in the file or exposed (`FileInv`).
  `KilledOnlyByRace` and `OrphansReclaimed` follow. Only the assumptions on the
  constants are used.
- `WorkspaceSyncProofs`. The types need that git is only asked for branches that
  exist (`Targets`), and include `gitMu`'s exclusion. `HomeInv` says for each
  step of a sync which branch is checked out and what is staged, as long as no
  command has failed; `HomeRestored` follows. `SentInv` follows a file that was
  sent through every tree, index, branch, merge and copy; `SentFilesStay`
  follows. `CleanInv` keeps what the status found true until the copy, except
  for files edited since; with git's refusal to overwrite local changes it gives
  `EditsKept`, a property of steps. `MergeInv` says, while no command has failed,
  whose work each copy, index and branch may hold: what the tree has beyond the
  index is the user's (`Staged`), and the branch of a worker under
  synchronisation holds its own work, the accepted and what its copy read
  (`OwnAt`). `OnlyAcceptedMerged` follows. A failed command breaks it at once,
  a switch back that git refuses among them, which is why the property says so.
- `EntryPointProofs`. GitHub: a job under way has marked its issue, and the mark
  is asked for before it is set, so an issue has one job (`OneJobCorrect`). A
  clone then changes hands only by a job of another issue with the same directory
  name, or by a restart: `ClonesOwnedCorrect`. Bridge: whoever holds `wMu` is
  between its two writes, and the length of the wire says whether anybody is
  (`OneWriter`); so halves pair (`Paired`), and a handled message with an id has
  one body (`AnsweredOnce`): `FramesWholeCorrect`. An execution that runs alone
  has its calls last in the conversation (`CallsLast`), which gives
  `ResultsApartCorrect`. Headless: `Outcomes` says what result and inputs allow at
  each place of the main goroutine, `Overrun` what the watchdog's decision
  implies; together they give `ResultMatchesExit`. Both say what holds when a write
  was not done: a place behind a write without a result means that it is in
  `unwritten`.
- `PersistentStateProofs`. Rules: while nothing was disturbed, one process
  is alive, its rules are what the user made, the file lacks of them what that
  process has not saved, the temporary file is its own from the moment it has
  emptied it, and the file changes by renaming only (`Alone`); a save that fails
  keeps all this (`FailureAlone`), and only engines that ask ever save
  (`OnlyAskersSave`). `RulesKept` follows. Dreams: a
  count that nobody pruned behind leaves the newest (`CountsHold`), and what the
  old file holds is new to the database until it is renamed (`ImportedOnce`);
  `RetentionHolds` follows. Hosted runs: while the clean-up has its time, the
  refused deletions are the attempts of its rounds (`RefusalsCounted`), which
  gives `HostedGone`. Tools: an instance that is neither recorded nor excused is
  the one a creating call works on (`Accounted`), and what a call is about to
  forget is gone (`AtWork`); `NothingForgotten` follows.
- `ServicesProofs`. Local workers: what a worker uttered is in its output, in its
  channel, swallowed or dropped, each in one place, with the output older than
  the channel (`Flow`), and a report is made of an emptied channel (`Delivered`);
  `MissingOnlyTaken` follows. The model's stream: an open block is the events
  since the last start of its index (`AllOpen`), what was taken and what is in
  the channel are the blocks that ended, each at its place (`SentOn`), and the
  mark of the end is behind them (`MarkLast`) and says how the events ended
  (`EndsClean`); `ResponseWhole` follows. The tracer: batches share no event
  (`Separate`), what was recorded is in one of them or failed (`RecordsKept`), and
  every batch may lean on those that left before (`InOrder`);
  `TreeArrivesInOrder` follows. The composition: a step of one part leaves the
  variables of the others alone (`StepOfOnePart`), so all parts keep their
  invariants; what the run states of its own specification is proved of that
  specification (`ServicesTypeOK`, `BridgeSound`, `InstancesSound` and
  `ServicesSafe`). `PartsImplemented` is the refinement: seen through its
  variables, each part begins and moves as its module says.

Only model-checked: the liveness properties (`DoneReachesClient`,
`CancelReturns`, `InterruptReturns`, `ServicesEnd`). They rest on fairness, and
ENABLED is beyond the proof system's installed provers. The violated runs show
counterexamples, which need no proof.

## Not modelled

- Text UI rendering, styles, Markdown, history views: nothing reads their state.
  Of the session, history search, `/quit` and the end of the program are left
  out: they end or only edit the input.
- Local tools, custom commands, configuration: one operation on data each,
  without state that another part reads. What a tool or a command does to a run
  is in `AgentLoop` and `TuiSession`.
- Warden and guard: stateless checks of one call; `AgentLoop` has their refusals.
- MCP client: requests and responses over a library's transport.
- Worker agent server: routing and one bearer check; its exec endpoints are
  `ExecStream`, its workspace endpoints `WorkspaceSync`.
- Calibration of the token estimate: arithmetic on one number; the model's
  estimate is any number.
- Reading of pull requests and reviews, `Request` of the bridge (nothing calls
  it), the exporters for OpenTelemetry and Linear: no state, or not reachable.
- The trigger queue of the dream worker holds eight sessions, and a process has
  one; what a summary says is data.
- Flag parsing and wiring in `main.go`, and the offline evaluation scripts.

## Next

Theorems: action properties of `AgentLoop` and `TuiSession` that their invariants
already support, and what the liveness properties rest on that is safety (no
state but the final ones leaves every goroutine waiting).
Models: the prompts of `TuiSession` composed with the engine of
`PermissionRules`, and `WorkspaceSync` with two coordinator processes in one
repository, which no lock excludes.
