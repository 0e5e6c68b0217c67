# A verification project for NeverD's edit history, worker, workbench and virtual CPU

NeverD is a decompiler: a C++ engine (loaders, decoders, lifting, IR passes,
analyses, emulation, code generation) behind a C ABI, a worker process that
keeps one analysed binary open and answers framed JSON requests, and a Qt GUI,
an MCP server, plugins and command-line tools that talk to the engine or to
the worker. This directory holds TLA+ models of the parts where the order of
events matters and where the user's own work is at stake: the durable edit
history of a project, the edit operations built on it, the threads of the
worker process, the workbench's query service and its client of the worker,
how the workbench leaves a project that has unsaved edits, and how a run of a
virtual CPU is entered and interrupted. TLC checks them on small instances;
TLAPS proves the central results about the edit history, the edit operations,
the worker's threads, the query service, leaving a project and the virtual
CPU's runs for every size.

    EditStore              what the edit history promises (abstract)
      ^ refined by
    ProjectHistory         files, journal, commit, recovery, undo list
      ^ extended by        ^ proved in ProjectHistoryProofs
    EditSession            edits, undo, save, sync and the Session they show
      ^ proved in EditSessionProofs
    Worker                 threads, queue, cancellation, client's view
      ^ proved in WorkerProofs
    EngineClient           the GUI's end of the pipe, two threads, epochs
      ^ extended by
    QueryService           jobs, subscriptions, queue, cache, retirement
      ^ extended by
    QuerySession           both bound to Session and to a worker
      ^ proved in QueryTablesProofs, QueryRequestsProofs, QueryAnswersProofs
    SessionTransition      question, save, database write, then leave
      ^ proved in SessionTransitionProofs
    KvmRunControl          a virtual CPU's thread, its callers, the kick
      ^ proved in KvmRunControlProofs
    MC*.tla, *.cfg         instances for TLC

Source paths below are relative to `src/`.

## 1. Inventory

Each entry gives the state a component keeps, its operations, how it interacts
with others, what is hard about it, and what makes it correct.

**Durable edit history** (`tools/neverd-worker/ProjectHistory.cpp`).
State: one sidecar file per user table (annotations, renames, functions,
items, patches, operands, code edits, types), a history document with the
undo commands, their cursor and the tables they describe, a write-ahead
journal; in memory a snapshot of the last commit, the command list, the cursor, a
reason for being blocked and the transaction a failed write left behind.
Operations: construct (recover if a journal is pending), `verifyLoadedState`,
`stage`, `next`, `advance`, `persist`, `recover`, `current`, `reset`,
`listing`. Called only by the Engine, on the executor thread. Hard: a crash or
a failed write between two files; a retry of a commit that already happened;
files changed by git or another tool; a binary that was rebuilt; an undo list
at its limit; callers that restore a copy of the object after a failure.
Correct when: a reopened project shows one version of the work, an
acknowledged commit is on disk, nothing is overwritten that exists nowhere
else, and the undo cursor stays with its commands.

**Engine edit operations** (`tools/neverd-worker/Engine.cpp`). State: the
analysis Session's own copy of every table, `dirty_`, the lazily built
history. Operations: `open`, `reload`, `annotation_set`, `rename` and edits
like it, `item_define` and edits like it, `undo`, `redo`, `save`,
`history_reset`, `project_sync`. Hard: three copies of a table (Session,
snapshot, file) that a partial failure leaves apart; comments that are staged
until Save on one undo line with renames that commit at once. Correct when
undo never shows a row that was never there, "nothing to save" is true, and
`project_sync` keeps staged comments.

**Worker process** (`tools/neverd-worker/main.cpp`). State: request queue,
byte count, pending ids, active request and its cancel flag, revision,
background state and its sequence number, `stopping`, `finished`; the
transport's failure flag. Threads: input loop, executor, heartbeat. Hard: a
cancel, a take and a shutdown racing for one request; messages built under the
mutex and written after it; an engine that fails to start; joining threads
that wait on one condition variable. Correct when admission is exact, every
message gets one final reply, cancellation is truthful, an edit that names a
revision never lands on another one, and a stopped worker exits.

**GUI engine client** (`tools/neverd-gui/EngineClient.cpp`). State: the
epoch, the process, calls posted to the transport thread and messages posted
back. Hard: messages of a process that was already replaced. Correct when the
service sends only to the process it heard from.

**GUI query service** (`tools/neverd-gui/QueryService.cpp`). State: jobs,
subscriptions, one queue, the active job, byte count, fence, listing counter,
epoch, project and revision, a cache. Operations: `subscribe`,
`graphViewport`, `enqueueCommand`, `unsubscribe`, `unsubscribeOwner`,
`cancelReads`, `setAvailable`, `resetSession`, `listingChanged`, `receive`, and
from the event loop `pump`, `deliver`, `standalone`. Everything is on one
thread, and yet it is concurrent: completions and `contextChanged` call into
views which ask, withdraw, destroy owners or restart the worker, in the middle
of a handler. Correct when a read shows every command asked for before it and
none after, a graph is one snapshot, commands stay with the project they were
meant for, and everyone is answered once.

**Leaving a project** (`tools/neverd-gui/app/Session.cpp`,
`ProjectDatabase.cpp`). State: `dirty_`, `databaseDirty_`, `pendingWrites_`,
`transition_` and `transitionReady_`, the database write that runs and the one
that waits, the file to open next. Operations: edits, `save`, `packDatabase`,
`saveBookmarks`, `requestQuit`, `closeFile`, `restart`, `open`,
`resolveTransition`, `resolveDatabaseConflict`, and the completions. Hard: the
worker's commands, a thread that writes and one that unpacks, modal questions
and the worker's death in any order. Correct when no acknowledged edit is lost
without a question, another workbench's work is not replaced unasked, and a
request to leave ends.

**Run control of a KVM virtual CPU** (`lib/emulation/backends/kvm/KvmRunControl.cpp`).
State: a private worker thread, the request with the caller's control (deadline
and stop token) and callbacks, `Running`, `Requested`, `Completed`, `Cancel`,
`PendingKick`, `NativeActive`, `Shutdown`, the entry's outcome. Operations:
`create`, `run`, `withExecutionOwner`, destruction; inside a delegated loop the
worker's own `run`. Hard: the guest may never exit, the signal that ends
`KVM_RUN` races with the entry, with its end and with the next run, and what
the caller lends lives on the caller's stack. Correct when an overdue run
returns, its signal reaches no other run, nothing borrowed outlives the call,
and no interruption is reported that was not asked for.

**Worker caches and services** (`RenderStore.cpp`, `BrowseCache.cpp`,
`EngineRenderAhead.cpp`, `ComparisonService.cpp`, `LineageService.cpp`,
`DeferredRelease.cpp`). Keyed caches per revision, cancellable long
computations, a release queue for another thread.

**Plugin host** (`lib/plugin`): process life cycle, deadlines, tasks.
**MCP server and GUI bridge** (`tools/neverd-mcp`, `tools/neverd-gui/mcp`):
request ordering and cancellation over stdio.
**SAT solver** (`lib/solver/sat`): trail, watched literals, learning.

**The decompiler proper** (loaders, decoders, lifting, IR, passes, analyses,
code generation, bytecode front ends, signatures, patching) and the emulated
operating systems are sequential transformations of large data: most of the
code, and not what a small finite model can say something about.

`PROJECT.json` lists every component with its status, and every hazard at
the line where it bites.

## 2. Models and code

### EditStore

The promise in two variables: `durable`, the version (tables and history
document) a reopened project shows, and `pending`, the version a running call
is to commit. A commit replaces the version as a whole, an interrupted or
failed call did so or did nothing, and only a foreign edit changes the version
otherwise.

### ProjectHistory

| Model | Code |
|---|---|
| `tables`, `history`, `journal` | sidecar files, `local/history.json`, `local/journal.json` |
| `input` | the analysed binary: its SHA-256, size and time as one value |
| `store` | the `ProjectHistory` object: `snapshot_`, `commands_`, `cursor_`, `blocked_`, `interruptedWrite_`, `hash_`, `readOnly_` |
| `checkpoint` | the copy `const auto checkpoint = store` a caller restores in its `catch` |
| `next`, `todo`, `phase` | the argument of `persist`, the tables its loop has not written, and the next file operation |
| `reply` | the error code, or success, of the last call |
| `touched`, `faults` | bookkeeping: a foreign edit not yet met; the bound on failures |

`persist` is a sequence of actions, one per file operation: `Persist` (guards,
in the code's order: blocked, read-only, changed input, own interrupted
transaction), the recovery of its own interrupted transaction
(`RecoverTable`, `RecoverHistory`, `RecoverClean`), then `CheckRefused`,
`CheckOverBudget` or `PublishJournal`, `WriteSidecar` for each changed table
in the order of `UserStateTables.def`, `WriteHistory`, `RemoveJournal`. Each
file operation may fail before or after its effect (`RecoverFails`,
`PublishFails`, `CommitFails`), because `atomicWrite` may fail after its
rename. `PublishFails` is outside the `try` block, as in the code: the history
does not learn that its journal may be on disk. `Throw` is the `catch` of the
caller: an edit, an undo and a reset restore their checkpoint, a Save does
not. `Crash` may come between any two file operations; `Foreign` changes a
table, removes the document or the journal, or replaces the binary, between
two calls (a change in the middle of a call is outside what the code tries to
detect: it compares and then writes without a lock against other tools).

Abstracted: a table's rows are one normalised value, since the history only
compares and copies them; JSON parsing, validation and text layout; the byte
budget of the undo list, which is a choice of dropping any more commands than
the count limit forces (`ByteBudget`), down to dropping the new command itself,
which the code's loop does when one command alone exceeds the budget.

### EditSession

Extends ProjectHistory with `session` (open, read-only, input stamp, loaded
tables, `dirty_`) and `op`, the operation in progress and what it
remembers. Rows become functions from addresses to values, and a command is a
change of one row. An operation starts one history call, the call runs as in
ProjectHistory, and a second action does what the operation does when the call
has ended: load tables, clear `dirty_`, stage comments again. Loading a table
may fail, wherever the code loads one, and counts as a fault; two ghosts remember
it: `unloaded`, the tables whose last load failed, and `unverified`, set when a
history was kept although its recovered tables did not load. `Rename` stands for the edits that commit first and
load afterwards (rename, function edits, `code_edit`); `ItemDefine` for those
that change the Session first and read the table back when the commit fails
(items, operand formats, local types); `ItemDefineRefused` is the same edit
refused before the commit. A command changes one row: `item_define` and its kin
put every row in which Session and commit differ into their command
(`Engine.cpp:5595-5599`), which is the same where a table has one row, as in the
run. `Reload` loads every table; the code loads types and patches at another
place (`Engine.cpp:5036-5041`). `project_sync` remembers the staged
comments, resets the history, reloads, and stages them in address order.
`annotation_set` to the value already shown is left out: it adds a command
that changes nothing.

### Worker

| Model | Code |
|---|---|
| `queue` ... `sequence` | `State`, under `state.mutex` |
| `engine` | the Engine's revision, project and background work |
| `executor`, `reader`, `heart` | where each thread is and the message it has built and not yet written |
| `failed` | `Transport::failed_` |
| `client` | what the GUI keeps of replies and heartbeats |
| `answers`, `runs`, `promised`, `sent` | bookkeeping for the properties |

One action is one critical section of the mutex. Where the code writes to the
pipe while it holds the mutex (the replies of `cancel` and `shutdown`) the
write is part of the action; where it releases the mutex first (executor's
replies, heartbeats, `hello`, refusals) it is a later action, so that messages
overtake each other as they do in the program. The client sends any request
at any time, may reuse an id, and may close or break the pipe.

Abstracted: web requests, which keep a second revision in the same critical
sections; load progress, which is not a final reply; an `open` that a loader
checkpoint cancels; the shape check of a request; the allocator's idle page collection. An operation of the engine is
`open` (a new project with background work), `edit` (may change the project
or fail) or `compare` (watches its cancel flag). A request without a project is
one whose project is `Nothing`, which `Stale` exempts as the code exempts an
empty `project_id`.

### EngineClient, QueryService, QuerySession

| Model | Code |
|---|---|
| `client`, `posted` | `EngineClient` and the queued signals between its two threads |
| `transport` | `WorkerTransport`: epoch and process |
| `jobs`, `subscriptions`, `queue`, `active`, `queuedBytes`, `fence`, `listing`, `cache` | the fields of `QueryService::State` with the same names |
| `deferred` | the zero timers of `schedulePump`, `finish`, `standalone`, `reject` and the announcement of `deliver` |
| `frames` | handlers that are inside a callback: `deliver` in its loop, `receive` in `contextChanged` |
| `worker` | the worker as its protocol shows it: project, revision, analysed or not, listing generation, layout, and the commands its state contains |
| `starting`, `loaded`, `known` | `Session::starting_`, `loaded_`, `BackgroundSequence` |
| `asked` ... `announced` | bookkeeping for the properties |

A handler is one action, except where it calls out: then a frame is pushed,
every action of users and event loop stays possible (a callback may open a
dialog, whose event loop runs anything), and only the top frame can go on.
Zero timers run in any order.

A job is named by the ask that made it. A query is a record: operation with
payload, kind, priority, size, expected revision, layout to continue. A reply
carries what the properties tell apart; "malformed" stands for a wrong
operation, a missing status or an unrelated graph. "section" stands for
`analysis_section_add`, `analysis_section_remove` and a `reload` that comes
back unanalysed. `restartPending_` is set and consumed within one synchronous
stop. Left out: `localNamesOnly`, diagnostics, `resetReadContext` (only the
offline replica calls it), `setCacheBudgetMiB` (the cache may drop anything at any
insertion), the refusal of a request that is no request (`invalid_request`,
`QueryService.cpp:331-344`) and a graph reply without the fields of a graph
(`invalid_graph`, 719-725). `ApplyBackground` always moves the listing; the code
does so for a new generation or another function count, the cases in which the
views are told.

### SessionTransition

Edits are numbers; files, the database and what the worker holds staged are
sets of edits, so that "lost" is a set difference. `session` is the record of
Session's fields; `marked` is `databaseEdits_` compared with its value when the
write began. `commands` are the commands of `Session::command` in order, with
the answer once the worker or the query service gave one; `questions` is the
stack of modal questions; `opener` and `writer` are the threads behind
`openPending` and `writeDatabase`. The latter looks at the database, writes it and
reads what it then holds in three steps (`WriterChecks`, `WriterSaves`,
`WriterReads`), the former unpacks and reads in two (`Unpacks`, `OpenerReads`), so
that another workbench may write between any of them and each may fail by
itself: a reading that fails after a write leaves no identity, and the next write
is not compared. `recovery` is what an interrupted commit left in its journal, and the
marker that keeps a recovered working copy from being replaced: an unpacking
keeps such a copy, refuses if another database came in its place, ends the
recovery when nothing is left of it, and may stop halfway through the files.
`FinishTransition` is part of every action
whose code calls it or emits `pendingChanged`. The ghosts record what the user
was told is done (`acked`), what the database has held (`saved`), what the user gave up
or a crash took (`given`), and what went otherwise (`lost`); of another workbench's
edits, which were replaced unasked (`trampled`) and which had arrived where no write
looks (`slipped`).

`Events` names what may happen in a run beside the ordinary course: a worker
that exits, commands and unpackings that fail ("fails"), databases that cannot be
written ("unwritten") or read ("unread"), markers that cannot be removed
("marker"), another workbench, bookmarks, packs, and three kinds of timing: edits
during an open ("opening"), packs and bookmarks while a request to leave waits
("late"), requests to leave that overtake each other ("overtake"). The passing
runs leave out these last three, with which section 4 shows acknowledged edits
lost; `NothingLostUnasked` says so where it is defined.

Abstracted: a transaction of the database is one step; an identity is the set of
edits in a database; "open" opens the same database again, which is the case that
replaces files; "restart" stands for `reload` too; commands retired with a worker
are answered before the next worker's hello. Left out: file locks, projects that
are no database, undo, `saveDatabaseState`.

### KvmRunControl

| Model | Code |
|---|---|
| `thread`, `at`, `entry` | `State::Worker`, where `work`, `enter` and `enterOwned` are, and `Entry` |
| `kicked` | the real-time signal pending at the worker thread |
| `owner`, `looping` | `Control`, `Prepare`, `Capture` and `Loop`: whose they are, and whether `Loop` is set |
| `running` ... `shutdown`, `result` | the fields of `State` with the same names; `Status`, `EntryInterrupted` and `TransferError` |
| `phase`, `kind`, `reply` | where each thread that calls is, which call was admitted last, and its outcome |
| `stop`, `past`, `late` | the stop token, the run's deadline, the deadline of a native entry (`forNativeStep`) |

The mutex is left out: an action is one critical section or one step outside
it (`Prepare`, the look at `Cancel`, `KVM_RUN`, `Capture`, `Complete`). The
signal is blocked in the thread and not in `KVM_RUN`, so a pending one ends
the call with EINTR and stays pending; no handler is installed. `KVM_RUN` may
also return EINTR for another reason, return an exit, fail, or never return.
`pthread_kill` may fail. The thread may fail to start, the disposition of the
signal may be found to be ignored, a transfer or a completion may fail. A
delegated loop (`CheckedBackend::runImpl`) checks its own budget at
instruction boundaries and makes any number of native entries for an
instruction, which share a deadline.

Abstracted: what `Prepare`, `Capture` and `Complete` transfer;
`KvmHandoffPolicy`, which decides only whether a thread spins before it waits;
callbacks that throw, which `work` turns into an error of the transfer; the
refusal of a native entry inside another (`KvmRunControl.cpp:101-102`), which one
thread cannot make. A `Direct` run of `CheckedBackend` differs from the modelled
loop only in that its entries use the run's own deadline.

### Slips

Some operators are marked `Slip`: versions of an operation with a mistake
that a maintainer could make (a forgotten limit, an early return, a missing
reload, a reply not sent). They are used nowhere in the specifications;
`PROJECT.json` names, for each property, the slip it catches when the operation is
replaced by it. So every property is known to depend on the code it is about.

## 3. Runs

Run one with `tlc -workers 2 -config X.cfg MCModule` in this directory.

| Run (config) | Question | States |
|---|---|---|
| `history` (`ProjectHistory.cfg`) | Do the files survive failures, crashes and foreign edits? | 1.2 million |
| `session` (`EditSession.cfg`) | Do undo, `dirty_` and `project_sync` tell the truth, for edits that commit first and edits the Session takes first, also when tables fail to load? | 2.4 million |
| `worker` (`Worker.cfg`) | Admission, replies, cancellation, revisions, sequences | 2.7 million |
| `worker_live` (`WorkerLive.cfg`) | Are messages answered, does a stopped worker exit? | 69 thousand |
| `query_reads` (`QueryReads.cfg`) | Do joined, cached and overtaking reads show the right state? Do commands stay with their project? | 3.4 million |
| `query_graph` (`QueryGraph.cfg`) | Is a graph one snapshot? One request at a time? Do counters and tables agree at the limits? | 2.1 million |
| `query_epochs` (`QueryEpochs.cfg`) | Is the process that is sent to the current one, and everyone answered once? | 1.7 million |
| `query_live` (`QueryLive.cfg`) | Is everyone answered? | 83 thousand |
| `transition` (`Transition.cfg`) | Are pending writes counted, is a clean project saved, does leaving lose or replace anything unasked? | 4.6 million |
| `transition_live` (`TransitionLive.cfg`) | Does a request to leave end? | 470 thousand |
| `run_control` (`KvmRunControl.cfg`) | Does an overdue run end, and does its kick stay with it? | 54 thousand |
| `stuck_transition` (`StuckTransition.cfg`) | Are edits paused only while something is pending? No | |

What the properties say:

- Types: ProjectHistory's and KvmRunControl's `TypeOK` are proved (section 5);
  `SessionTypeOK` is checked in `session`, and the others are the first
  conjuncts of `AdmissionExact` and `TablesAgree`.
- `FilesConsistent`: unless somebody else changed the project, between any two
  writes a pending journal can be completed, and without one the document
  describes exactly the tables and the binary on disk.
- `AckedCommitIsDurable`: success means tables, document and no journal.
- `NothingOverwrittenUnjournaled`: what `persist` and `recover` overwrite is in
  the journal, and the journal leaves only when the files hold its target.
- `CursorInBounds`: the cursor stays within its list and the list within its
  limit, in memory, checkpoints, document and journal.
- `ImplementsEditStore`: the whole refines EditStore, with the
  publication of the journal as the moment of commit; a reopened project shows
  the journal's target if it can be completed, else the files.
- `UndoDescribesSession`, `UndoDescribesFiles`: per row the commands form a
  chain through the row's present value at the cursor, so any number of undos
  and redos shows the row as it was. Not said of a history kept unverified.
- `CleanSessionIsCommitted`: with nothing to save the Session shows the
  committed tables, those excepted whose last load failed (the failure was
  reported) and those that edits change in the Session first.
- `SyncKeepsNotes`: comments staged before `project_sync` are there after it,
  staged unless the files now hold them, when it succeeds and when its reset of
  the history fails. When the load after the reset fails they are gone (section 4).
- `AdmissionExact`: pending ids and byte count match queue and active
  request, so `MaxQueueBytes - queuedBytes` never wraps.
- `OneAnswer`: one final reply to each message, from whichever thread.
- `TruthfulCancellation`: "cancelled" means it never runs; an acknowledged
  cancel of a running request is reported in its reply.
- `NoLostUpdate`: requests run in order of arrival, and an edit with an
  expected revision runs on that revision.
- `SequenceNamesState`: equal sequence numbers mean equal background states,
  although older heartbeats follow newer replies.
- `EveryMessageAnswered`, `StopEnds`, `ClientLearnsBackground`: liveness.
- `ReadsSeeCommands`: an answer to a read contains exactly the commands
  accepted before it (those the current worker ran).
- `ReadsSeeListing`: and at least the listing its asker had been shown.
- `GraphIsOneSnapshot`, `OneRequestAtATime`: summary and viewport agree; the
  worker never holds two requests of the service, cancelled ones included.
- `CommandsStayHome`: commands run in order, once, by the process and on the
  project they were meant for, also when an open fails late.
- `TablesAgree`: bytes, jobs, queue and active job agree and keep the limits.
- `AvailableIsCurrent`: available means a hello of the current process.
- `AnsweredOnce`, `EveryAskAnswered`, `AnalysisAnnounced`: completions.
- `PendingWritesExact`: `pendingWrites_` counts what is really pending.
- `CleanMeansSaved`: a project that is not dirty is in its database.
- `NothingLostUnasked`: with one request to leave at a time, quitting, closing,
  restarting and opening lose no edit that was acknowledged, or shown again by a
  recovery, and not discarded.
- `AnotherKept`: what another workbench wrote is replaced unasked only if it came
  in one of the windows `Unseen` lists, or was there when a recovered working
  copy was kept over it; a change the comparison can see is always asked about.
- `PausedOnlyWhilePending`: edits are paused for a reason (violated, section 4).
- `TransitionEnds`: a request to leave whose save was sent, or which was
  approved, is over at last, goes on into an open, or loses its worker.
- `BorrowsEnd`: the worker uses a caller's control, callbacks and loop only
  while that caller waits in `dispatch`.
- `KickStaysHome`: a signal is pending only at a run that is cancelled and not
  over, so none is left for the next run.
- `InterruptionsAreFounded`: an entry is reported interrupted only if its own
  control confirms it; anything else becomes a failure of the backend.
- `RunsEnd`: a run past its deadline or asked to stop returns, though the guest
  never exits, the signal comes at any moment and sending it may fail.

### Bounds

- Two tables and two values of each: a commit may change none, one or both, so
  every state between two tables occurs; a third table repeats the second.
- Two binaries: the one the project was edited with and another. Which of the
  two, and which values the tables have at first, makes no difference, so
  `MCSpec` begins with one choice of each.
- `MaxFaults` 2: one failure to enter an unusual state and one within its
  handling (a crash during recovery, a foreign edit before a retry). `session`
  has 1, over three tables. With two tables, `Eager = {}` and two faults, which
  reach the history kept unverified and a load that fails within `project_sync`,
  the same properties were checked too (4.1 million states, more time than a run
  should take), and section 5 proves that case for any number of faults.
- `MaxCommands` 1 in `history`, where commands are opaque and only list and
  cursor matter at the limit; 2 in `session`, where a comment and a rename
  share the line and the third edit drops the first.
- One address in `session`: chains are per row, and three tables already give
  three rows.
- Worker: two ids (equal or different), bodies of 1 or 2 bytes against 3, two
  places in the queue, three messages: request, request, cancel or shutdown;
  both limits are reached. `MaxSequence` 3 (2 in `worker_live`) bounds
  background publications. In `worker_live` two messages are enough for a
  request and its cancel or shutdown.

- Query service: a read, a visible read, a command that keeps the revision and an
  open in `query_reads`; two graphs and an edit, two places for jobs, and bytes
  against requests of 1 and 2, in `query_graph`. `query_epochs` lets the client
  reach epoch 3: a process, its replacement and one more. Runs that are not about
  opening begin with an opened project (`OpenedInit`), and each run enables only
  the events its question is about.
- Transitions: two edits (one in the database, one on its way), two requests
  to leave (one in `transition_live`, where each would be a question of its own), one
  save of the user's beside those of the transitions, two commands waiting.
- Run control: three threads, so that one runs, one is refused and one waits to
  destroy; nothing else in the model is unbounded.

The specifications of ProjectHistory, EditSession and KvmRunControl check for deadlock; a
worker that has exited stutters (`Exited`). Query service and transitions may
stop: asks, edits and requests are bounded, and a quiet workbench has nothing to do.

### Fairness

`worker_live`: weak fairness of the executor (engine
calls return and the thread is scheduled), of the reader's own steps (not of
receiving input) and of the heartbeat and its write. The client owes nothing: it
may send nothing and never close the pipe. `EveryMessageAnswered` excuses a
broken pipe and an executor that has gone; `ClientLearnsBackground` the same.
`MaxSequence` bounds background steps, so a fair execution does not depend on
background work ending by itself in the code; the loop tests the queue before
every step.

`query_live`: weak fairness of each task of the event loop and of each kind of
posted message, of the transport thread's calls and of the worker's answer.
Nobody has to ask, and no process has to start or fail. `transition_live`: weak fairness of
completions, threads and the worker's commands, and of the user answering an
open question, without which a modal dialog waits for ever.

`run_control`: weak fairness of each step of the worker thread outside `KVM_RUN`, of
the caller's look at the clock with a kick that succeeds (it polls; `pthread_kill`
does not fail for ever), of its join and return, of the clock reaching a
native entry's deadline, and of `KVM_RUN` returning with EINTR while the signal
is pending. The guest owes nothing, and neither does whoever holds the stop token.

## 4. Findings

**"Edits are paused while the pending save, open or close completes."**
(`Session.cpp:1391`). If the worker dies during the save of a transition, its
completion finds another epoch and does not cancel the transition; a restarted
project refuses every edit with this message. `stuck_transition` shows it.
The same end is reached when an open already under way completes and retires
the save, and when `finishRecovery` fails on Discard (`Session.cpp:1033`), which
returns with `transition_` set and no question.

The models show more places where the code does less than a comment, a message
or a test says. Where a property would fail, it names the case it does not cover
in its definition or comment, and the passing runs leave out the event; the last
column tells how to see it.

| Statement | What the code does | Seen with |
|---|---|---|
| "An edit made since the write read the files is not in it." (`Session.cpp:1190`) | The write keeps `databaseDirty_` for a bookmark saved meanwhile, but `finishTransition` clears the flag and goes on | `Transition.cfg`, `Events = {"bookmark", "late"}`: `NothingLostUnasked` |
| "Quitting waits for the database like it waits for an edit." (`Session.cpp:1169`) | One write can wait; a pack takes the place of the opened database's, and quitting goes on | `Events = {"pack", "late"}`, `MaxSaves = 2`: `NothingLostUnasked` |
| "quitApproved() follows a decision" (`Session.h:254`) | A save that fails calls a request to quit off, but not the save this request had sent; when that succeeds it approves the next request, whose question is still open, and a comment made between is lost | `Transition.cfg`, `Events = {"fails", "overtake"}`: `NothingLostUnasked` |
| "Opening another file with unsaved edits asks first." (`WorkbenchTests.cpp:15437`) | An edit made while the open of a clean project unpacks its file is accepted and then lost | `Events = {"opening"}`: `NothingLostUnasked`, `CleanMeansSaved` |
| "Nothing is written until resolveDatabaseConflict." (`Session.h:467`) | The comparison, the save and the reading of the new identity are three steps without a lock over them, and an unpacking and its reading two: what another workbench writes between is replaced, or becomes what the next comparison expects; after a reading that failed nothing is compared; and a recovered working copy takes whatever the database holds by then as its base | `Unseen` and `slipped`: with `Events = {"another"}` the invariant `trampled = {}` fails |
| `project_sync` "keeps staged annotations staged" (`PROTOCOL.md:1212`) | If one table fails to load, the call ends after `dirty_ = false` and before the comments are staged again (`Engine.cpp:3810-3814`) | `SyncReload` with a failed load: `SyncKeepsNotes` without its exception fails with `MaxFaults = 2` |
| "retry Save to recover" (`ProjectHistory.cpp:1083`) | After a rename, undo or reset whose journal could not be removed the caller restores its checkpoint, which has no interrupted write; the next Save is refused with `recovery_required` until the project is reopened | `Throw`, then `PersistRefusal` |
| "The sidecar still holds the items before this one." (`Engine.cpp:5606`) | If the failure came after the table was replaced, the sidecar holds the new items, and loading it shows the failed edit | `CommitFails`, then `OperationFails` |
| "`shutdown` ... acknowledges" (`PROTOCOL.md:122`) | When the executor has exited because the engine could not start, `shutdown` is refused with `engine_unavailable` and the process reads on until its input ends | `Leave`, then `Refuse` |

## 5. Proofs

`ProjectHistoryProofs.tla` proves for every set of tables, rows, commands and
binaries, every command limit and every number of faults, from
`ConstantsAssumption` alone (the table order is a rank, the limit is positive,
and the "none" values are none of the others):

| Theorem | Statement |
|---|---|
| `Invariant` | the inductive invariant `IndInv` |
| `TypeCorrect`, `CursorCorrect`, `ConsistencyCorrect` | `TypeOK`, `CursorInBounds`, `FilesConsistent` |
| `AckCorrect`, `OverwriteCorrect` | the action properties `AckedCommitIsDurable`, `NothingOverwrittenUnjournaled` |
| `Refinement` | `Spec => ImplementsEditStore` |

`FilesConsistent` is not inductive: it says nothing about how far a call has
got. `IndInv` adds `CallShape` (what each phase has already established: a
recovery follows an admitted journal, a commit has a history, a target and an
unchanged binary; between calls nothing is left over) and `FilesInFlight` (in
a commit, the journal on disk is the transaction of the call, tables still to
do hold its before side and the others its after side; in a recovery, tables
done hold the after side). From it: `recover` and `persist` overwrite only
journal contents, the last step finds all files at the target, and a step
keeps `DurableVersion` unless it publishes the journal.

The proof has one lemma per action, over lemmas about `Staged`, `Advanced` and
`Document`, about how calls end (`CallEnded`, `CallThrown`) and about the
files (`TableToTarget`, `CommitRecoverable`, `CleanFiles`). The refinement has
lemmas for the kinds of steps: quiet ones, the publication of the journal, the
replacement of a file under the journal, ends of calls, foreign edits.

`EditSessionProofs.tla` carries this over to the edit operations, for any
tables, addresses, values, binaries, command limits and numbers of faults:

| Theorem | Statement |
|---|---|
| `SessionInvariant` | the inductive invariant `SInv` |
| `SessionTypeCorrect` | `SessionTypeOK` |
| `UndoSessionCorrect`, `UndoFilesCorrect` | `UndoDescribesSession`, `UndoDescribesFiles` |
| `CleanSessionCorrect` | `CleanSessionIsCommitted` |
| `SyncKeepsNotesHolds` | the action property `SyncKeepsNotes` |

One hypothesis, `Eager = {}`: the edits that commit first. An edit that changes the
Session first commits every row in which the Session and the last commit differ,
with one command for all of them (`rows`); the model's command changes one row,
so it stands for such an edit only where a table has one row, as in the run
`session`. Write failures, tables that fail to load, crashes at any step, foreign
edits, retries, recoveries and read-only Sessions are all allowed; what the code
itself gives up is in the properties: a table whose load failed (`unloaded`), a
history kept unverified (`unverified`) and the comments of a `project_sync` whose
reload failed.

None of the properties is inductive, since they speak of rest. `SInv` says where
each operation stands. At rest the history is `Faithful`: its commands describe
what the Session shows, Session and last commit differ in comments at most and
only if `dirty_` says so, and so does the target of an interrupted write. This
last part is needed because the next Save completes that write first and then
finds a new last commit under the same commands. While a history is built it is `Fresh`: read
from the files, so that `verifyLoadedState` leaves it unblocked only if the
Session shows the files. During a call (`Committing`) the commands already
describe the tables to be committed, while the checkpoint is still faithful to
the Session, which has not changed; so the call may fail at any step, and a
failed Save, which has no checkpoint, leaves a write whose target is what the
Session shows. When the call has ended (`Answered`) its history is `Fresh` or
restored. `Syncing` follows the comments `project_sync` remembers until each
is staged or already in the files.

The proof starts from four lemmas about command lists of any length: redo
(`RedoDescribes`), undo (`UndoDescribes`) and `stage` with any number of dropped
commands (`StagedMeets`) keep `LineDescribes`, and an empty list has it
(`EmptyLine`). Then a lemma for each way a step may leave the operation
(`Rests`, `Opens`, `Recovers`, `Ends`, `Goes`, `Stages`), for entering `persist`
(`PersistKeeps`), and for its continuing, failing and succeeding (`GoesOn`,
`Fails`, `Acknowledges`), and one lemma per action; `IndInv` comes from
`ProjectHistoryProofs`. TLC checked `SInv` as an invariant first.

`KvmRunControlProofs.tla` proves for any set of callers, from
`CallerAssumption` alone (the "no caller" value is not a caller):

| Theorem | Statement |
|---|---|
| `Invariant` | the inductive invariant `IInv` |
| `TypeCorrect`, `BorrowsCorrect` | `TypeOK`, `BorrowsEnd` |
| `KickCorrect`, `InterruptionsCorrect` | `KickStaysHome`, `InterruptionsAreFounded` |

None of them is inductive: each depends on how a request is handed over and
taken back. `IInv` says that at most one caller is inside (`OneInside`) and, for
each place where it can be, what worker, request and borrowed control must be
(`Placed`): one that starts has lent nothing, one that waits has lent its
control to a worker that has either not taken the request, is busy with it, or
has published and retired exactly if cancelled, and one that classifies has
taken everything back. `Bound` gives the converse (a borrowed control has a
waiting or joining owner, a pending signal a cancelled one), `Loops` says that
`NativeActive` is set exactly during a native entry up to its classification,
and `Timely` that a cancelled run is overdue by the control it was cancelled
for: time does not go back, and the next entry's deadline replaces the old one
only where no cancel is set. `InterruptionsAreFounded` follows from `Timely` and
the fact that `enterOwned` classifies before its `scope_exit`. There is one lemma per
action, with one step per conjunct. `RunsEnd`, which is about fairness, stays with TLC.

`WorkerProofs.tla` proves for any ids, request sizes, queue limits and number of
messages, from `WorkerAssumption` and `NothingAssumption` alone:

| Theorem | Statement |
|---|---|
| `Invariant` | the inductive invariant `IInv` |
| `AdmissionExactHolds`, `OneAnswerHolds` | `AdmissionExact`, `OneAnswer` |
| `TruthfulCancellationHolds` | `TruthfulCancellation` |
| `NoLostUpdateHolds`, `SequenceNamesStateHolds` | `NoLostUpdate`, `SequenceNamesState` |

`IInv` says where each thread can be and with what in hand (`Places`), that
pending ids and the byte count are those of queue and active request
(`Admitted`, `Counted`), and that all a message can be owed by lies in the
order of arrival: the reply the executor has built, the active request, the
queue, the one the input loop holds (`Arrival`, `Replying`). That order is what
makes the rest inductive: what ran came before what waits (`RunOrder`), a
message is answered exactly when nobody owes it a reply (`Answered`), and an
acknowledged cancel is in the flag, then in the built reply, then in the answer
(`Truthful`). `Revisions` counts the engine's changes along the runs;
`Published` and `ClientKnows` say what a message built under the mutex and not
yet written may still claim. The byte count is a sum over a sequence: that
the sum exists and what a take, an append or a removal does to it is proved by
induction over the set of lengths for which it holds, which needs no operator
parameter.

`SessionTransitionProofs.tla` proves for any number of edits, commands, saves and
requests to leave, from `TransitionAssumption`:

| Theorem | Statement | Where |
|---|---|---|
| `WritesInvariant` | the inductive invariant `WritesInv` | always |
| `PendingWritesExactHolds` | `PendingWritesExact` | always |
| `CleanInvariant` | the inductive invariant `CleanInv` | no "opening" |
| `CleanMeansSavedHolds` | `CleanMeansSaved` | no "opening" |

The one hypothesis is that nothing is edited while an open is under way, with
which TLC finds `CleanMeansSaved` violated (section 4). Every other event stays
allowed: worker deaths in the middle of a commit, recoveries, failing commands,
unpackings, readings and writes, conflicts, packs and bookmarks at any time, other
workbenches, and requests to leave that overtake each other.

`WritesInv` relates the count to its causes: `Counted` (commands that are not
opens, and the write), `Writing` (a writer exists exactly while `writing`
is set, only behind one may another wait, and a write to "database" has the
opened database as its target) and `Asking` (a conflict is asked about exactly
while the writer waits for it).

`CleanInv` is about the edits that are acknowledged and neither saved nor given
up, until the workbench quits. `Flagged` says that one of them, staged, in the
files or in a journal, shows in `dirty_` or `databaseDirty_`, or the answer that
will set them is on its way; for a write that has ended and is not yet heard of,
that the files hold none unless something was marked since; and that there is
none left where an open has replaced the files. `Opening` says that a write
that goes on during an open follows a save, which left nothing to commit. Both
lean on the order of events: commands of a former epoch are over, only the first
can be answered, an open is alone (`Queued`, `Linked`), an answer tells what the
worker holds (`Told`), an edit under way is not yet acknowledged (`Numbered`), and
the database holds nothing that was not saved.
There is one lemma per action, over lemmas about queues that lose their head, are
retired or grow by one (`Derived`, `Appended`); what `finishTransition` does is
proved once and used for the answer, the completions and the end of a write. TLC
checked `WritesInv` and `CleanInv` as invariants before they were proved.

Three modules prove about `QuerySession`, each on top of the one before, for
any queries, owners, limits, events, bounds and both initial states (`Spec` and
`OpenedSpec`), from `QueryAssumption` and `SessionAssumption` alone:

| Theorem | Statement | Module |
|---|---|---|
| `TablesAreKept` | `TablesAgree` | `QueryTablesProofs` |
| `EveryoneToldOnce` | `AnsweredOnce` | `QueryTablesProofs` |
| `AvailableWhileCurrent` | `AvailableIsCurrent` | `QueryRequestsProofs` |
| `NeverTwoRequests` | the action property `OneRequestAtATime` | `QueryRequestsProofs` |
| `GraphsAreOneSnapshot` | `GraphIsOneSnapshot` | `QueryAnswersProofs` |
| `CommandsAreHome` | `CommandsStayHome` | `QueryAnswersProofs` |

`QueryAssumption` says what a query is, that only reads are cached, that no
command is visible, that nobody asks for "cancel", which the service sends by
itself under an id it does not own (`QueryService.cpp:437`), and that what
changes the worker is asked for as a command (the two sets of names at
`QueryService.cpp:33`, which `State::add` goes by).

The invariant grows in groups. `Tables` is what the tables are to each other at
every step of every handler: `TablesAgree` alone is not kept by a delivery that
ends, which needs to know that the job of the frame is the active one or gone,
nor by a withdrawal, which needs to know who subscribes to what (`SubsOK`,
`Stack`). `Told` says that nobody who waits, in the tables or as a refusal on
its way, was told or has left. `Epochs` follows the client's calls and the
posted messages: nothing of the last process comes before its start, and a
current process has no start or stop on its way. `Flights` says where the one
request of the active job is: among the calls, at the worker, as a reply that
was posted, or in the frame of a handler; the worker holds no other while the
process is current, and a cancel carries an id of its own (`Wires`). That is why
the next request cannot overtake it. For graphs, `GraphTables` says that all who
share a job asked for the same layout and that a delivery holds what they may be
told; `Replies` that the reply to a viewport shows the content of the summary
before it, since only the active job's request can change the worker between the
two; `Notices` that what was told last, and the refusals on their way, keep to
that.

For commands, `Homes` follows a command from the ask to the run. The jobs keep
the order of the commands among them, wherever a visible read overtakes
(`Lined`), each was asked for of the process and the project at hand (`AtHome`),
and what the worker ran was asked for before every job but the active one
(`Ahead`). A request on its way cannot be recalled by a restart, so it carries
its own argument (`Bound`): it was asked for of the process it will reach, and if
the revision it expects is the one the worker has, its project is the worker's
too. That holds because the service knows no revision the worker has not had
(`Known`), a revision names its project for good (`Had`), and a request that a
start or a stop precedes does not exist (`Early`): the service sends only to a
process it heard of. An open that succeeds retires the waiting commands of the
former project in the step that moves the context, so `AtHome` survives it.

Each group has a lemma for each action that can disturb it, over one lemma
per action that says which of the handler's ways a step took (`AskCases`,
`DetachCases`, `PumpCases`, `DeliverCases`, `SettleCases`, `ReceiveCases`, ...),
so that the code's branches are split once. The byte count is a sum over the
jobs; what an insertion and a removal do to it, and what `Unqueued`, a recursive
function over the queue, keeps, is proved by induction over the numbers for
which it holds. TLC checked each group as an invariant of the query runs
before it was proved.

Only model-checked: liveness and fairness (`EveryMessageAnswered`,
`StopEnds`, `ClientLearnsBackground`, `EveryAskAnswered`, `AnalysisAnnounced`,
`TransitionEnds`, `RunsEnd`), which are out of the prover's reach; of QuerySession
`ReadsSeeCommands` and `ReadsSeeListing`; of SessionTransition `NothingLostUnasked`
and `AnotherKept`; of EditSession the edits that change the Session first.

## 6. Not modelled

- `saveAnalysisSections` in `save`, debug files, signatures and type
  libraries: files of their own beside the history.
- A `reload` of a project with analysis sections, which opens the input again
  as `open` does instead of loading the tables into the same Session.
- `recordProject`, called after a commit, which notes the project in a list.
- Two workers on one project: a lock file admits one writer, and a second one
  is read-only; read-only Sessions are modelled.
- Nothing is claimed of undo after a history was recovered while a table failed to
  load: it stays unverified, and Session and history disagree about rows. The code
  reports the failure and states nothing about what follows (hazard list,
  `Engine.cpp:2190`).
- For a virtual CPU: an application that changes the signal's disposition in the
  middle of a run (the code looks at it before each request), and the other
  backends' ways to cancel.
- The worker's web requests, and the components listed as `not_modelled` in
  `PROJECT.json`.

## 7. Plan

Done: EditStore, ProjectHistory, EditSession, Worker, EngineClient, QueryService,
QuerySession, SessionTransition and KvmRunControl, with their proofs (EditStore as
what ProjectHistory refines, the client and the service as parts of QuerySession).

Next, in this order:

1. `DeferredRelease`, `RunDeadline` and the leases of parallel runs.
2. Plugin process life cycle, deadlines and tasks.
3. `ParallelExecution` and the helpers of `Parallel.h`.
4. Render-ahead and browse caches: never another revision's text.
5. MCP server: order and cancellation.
6. SAT solver: trail, watched literals, learnt clauses against a reference
   definition over small formulas.

Proofs to follow: `ReadsSeeCommands` and `ReadsSeeListing`, on top of `Homes`;
`NothingLostUnasked`, on top of `CleanInv`.
