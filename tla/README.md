# Catsnail in TLA+

Catsnail runs graphs of tests on QEMU virtual machines.  A test is a decorated
coroutine; it *uses* machines or other tests, whose saved virtual machines
(checkpoints: disk layer and memory state) it starts from.  A run schedules the
graph's nodes concurrently, reuses the checkpoints on disk, and reports one
verdict per node.  This directory specifies the parts of the program in which
order, failure and persistence matter, checks them with TLC on small instances,
and proves most of the safety properties for every value of the constants with TLAPS.

## 1. Inventory

Paths are relative to `src/catsnail/`.

| Component | State it keeps | Operations | Hard behaviour | What makes it correct |
|---|---|---|---|---|
| Test graph, `graph/api.py` | nodes, `use` dependencies, machine sources | decorate, collect, `validate`, select targets | cycles, one identity per node | only acyclic graphs run; the closure of a target is complete |
| Scheduler, `graph/scheduler.py` | `pending`, `running`, `completed`, `failed`, `unexpected_passes`, `report` | launch, wait, process an ended task, cancel descendants, fail fast, unwind | tasks end in any order and in batches, expected failures, Ctrl-C, job limit | inputs before consumers, exactly the consumers of a failure are cancelled, one row per node, exit code, termination |
| Executor, `graph/executor.py` | per run: `values`, `runtimes`, `recordings`, `active_node` | resolve, run a body, publish, restore, dispose | concurrent runs with locks per checkpoint, guests replaced while a test holds them, blame of a failure | a body gets the guests of its inputs' states; published once; no guest left behind |
| Checkpoint store, `graph/checkpoint.py` | directories under `target/run/checkpoints` | load, stage, publish, discard, prune | crashes between file-system steps, edited tests, backing files shared by layers | what is loaded was completely published by the current code; never loses the last good entry |
| QEMU session and process, `qemu/session.py`, `runner.py`, `qmp.py` | processes, `_active`, sockets | start, resume, save, dispose, stop, stop all | cancellation at any await, TERM/KILL, late QMP answers | every spawned QEMU is tracked until reaped |
| Run artifacts, `qemu/artifacts.py` | directories and sockets of a run | prepare, create | a Studio of another process is alive | never removes what a live session uses |
| Networks, `qemu/network.py` | segments, subnets, ports | attach | two ends per link | one listener and one connector per link, distinct subnets |
| Studio, `studio.py`, `studio_mcp.py` | session manifest, frames, event log, revision | start, attach, control, snapshot, crop, emit, stop, reset | several processes on one session; a model acts on an old frame | no control is issued for an outdated revision; ids are unique |
| Progress tree and dashboard, `progress.py`, `dashboard.py` | label, duration and detail per node; guest views | emit, refresh, register, poll | late events, two keys on one label, a guest that stops while polled | what is shown agrees with the report |
| ISO cache, `image.py` | image, partial file, manifest, lock | resolve, download | two runs and one URL, kills, transfers that stop early or are resumed after the file has changed | a machine boots the image it named; a spoilt download heals |
| Guest terminals, `guest/debian.py` | which files a command has left, whether a terminal has the focus | launch, run, assert, admin, X11 actions | keys are typed blind: late, in another window, twice | a command runs once, its status is its own, the password stays with sudo |
| VNC client and controls, `qemu/vnc.py`, `guest/controls.py` | framebuffer, keys held down | frame, waits, press, shortcut, click | answers that are late, partial or about something else; cancellation between key down and up | a frame is a picture that was on the screen, and a new one; every key goes up again |
| Recording, `guest/recording.py` | frames on disk | record, finish | ffmpeg that hangs | - |
| Command line, `cli.py` | - | run, prune, studio | order of preparation and clean-up | exit codes |

How they interact: `cli._run` collects the graphs, prunes the store, prepares
the artifact directories and calls `schedule_targets`, which makes one asyncio
task per node out of `GraphExecutor.run`.  A run resolves its inputs through the
checkpoint store under the locks of a shared coordinator, starts guests through
the QEMU session, and sends progress events to the tree and the dashboard, which
are called synchronously.  Studio restores a checkpoint with the same executor
and then keeps the machines alive for clients that attach from other processes.

## 2. Plan

Modules in the order of their importance, all of them written:

1. `TestGraph`, `Progress`, `TaskRun`, `Scheduler`, the abstract `GraphRun`, and
   `SchedulerProofs`.
2. `CheckpointStore`: the file-system steps of publish and prune over several
   invocations, with edits between and kills within them, and
   `CheckpointStoreProofs`.
3. `Executor`: concurrent runs over the locks, the checkpoints and the guests.
4. `QemuSession` with `NetworkPool` and `Qmp`: one QEMU process from fork to reaping.
5. `Studio`: the processes and clients of one session.
6. `DebianTerminal` on `GuestDesktop`, `IsoCache`, `Vnc`, `GraphCollection`.
7. A module of proofs beside each of 3 to 6, except `GraphCollection`, which is
   recursive.

What is left are the operators of `GraphCollection` and liveness (section 5 says why).

## 3. Modules

| Module | Models | State and actions |
|---|---|---|
| `TestGraph` | the graph after `validate` | constants `Nodes`, `NodeDeps`; `Upstream` is what `add_closure` reaches, `Consumers` what `cancel_descendant_nodes` reaches |
| `Progress` | `ProgressReporter.emit`, `Dashboard.emit` | `NextLabel`, a pure function; `Emit` applies it to a set of nodes |
| `TaskRun` | `GraphExecutor.run` as the scheduler sees it | `stage` (where the coroutine is), `activeNode`, `values`, `label`, the locks it has (`held`) and the checkpoints on disk (`stored`); one action per lookup, per event the run emits and per way it ends |
| `Scheduler` | `schedule_targets` | one variable per local variable of the function; `phase` is the await or loop it is in |
| `GraphRun` | nothing in the code: the promise of a run | `verdict`, `mode` |
| `CheckpointStore` | `graph/checkpoint.py`, the prunes of `cli.py`, `_publish_checkpoint` | `entries` (the directories), `hidden` (the dotted ones), the arguments of the invocation, and per run how far its publication is; one action per step that a kill or a failure can separate from the next |
| `Executor` | `GraphExecutor.run` as it uses what runs share | per run a `stack` of `resolve_checkpoint` calls, its memo, `runtimes` and recordings; `lock`, `saved` checkpoints, artifact directories, the QEMU processes; a step ends at an await |
| `NetworkPool` | `qemu/network.py` | segments with their endpoints, subnets; `Attach` |
| `Qmp` | `QmpClient` and the monitor | a script of commands, the request in flight, the answers and events that have come; the monitor runs on its own |
| `QemuSession` | `QemuSession`, `QemuRunner`, composed with `NetworkPool` and `Qmp` | `step` of the task, `proc`, `signal`, `active`, and the shielded stop as a task of its own |
| `Studio` | `StudioSession`, its store, stdio, RPC and MCP servers, `RunArtifacts.prepare` | the session's files and sockets on disk, the object of every process with its copy of the manifest, the call of every client, and the three steps of a `catsnail run` |
| `GuestDesktop` | the guest, as `guest/debian.py` relies on it | windows, focus, keys under way, shells and the files of commands |
| `DebianTerminal` | `DebianTerminal`, `TerminalCommand`, extending `GuestDesktop` | `at` (where the call is), what it has seen, the flags that outlive it |
| `IsoCache` | `image.py` | image, partial, legacy and manifest files, the lock, and per run where it is and what it has received |
| `Vnc` | `VncClient`, the waits of `Screen`, the shortcuts of `Keyboard` | the pictures of the guest, the parts of messages that are under way, the client's framebuffer, the keys held down |
| `GraphCollection` | loading, validation and selection, the rows of the tree and of the live view | `sys.modules`, nodes with their executions, the stack of `visit`; the tree as operators |
| `MC...` | instances for TLC | graphs, files, scripts |
| `SchedulerProofs`, `CheckpointStoreProofs`, `ExecutorProofs`, `QemuSessionProofs`, `StudioProofs`, `DebianTerminalProofs`, `IsoCacheProofs`, `VncProofs` | theorems | |

### Abstractions

*Scheduler and runs.*  A key is `<<file, node>>`.  `TaskRun` chooses freely which
checkpoints an earlier call has left (`Leftovers` bounds them), which error happens and in which
order inputs are resolved (in the code: the order of the parameters).  It keeps that a node is
looked up under its lock, that what `load` misses is executed, whoever asks for it, after its own inputs
have been resolved in the same way, and on which node a failure is blamed.  A
checkpoint that is there is found: one that is taken away while a call goes on is
outside this module.  The coroutine of the scheduler
runs undisturbed between two awaits, so tasks take steps only in the phases
`wait`, `gather` and `unwind`; the progress events it emits are synchronous calls.
The one action of the real loop that is left out is the redraw on a timeout.
A second Ctrl-C is not modelled: `asyncio` turns it into a KeyboardInterrupt that
abandons the event loop.

*Store.*  `CheckpointStore` has a time scale of its own: many invocations, one after
the other.  A key is the node, the set of upstream nodes whose code is in its second
version, and the identity of the QEMU options, which is all that `checkpoint_key`
distinguishes; that different keys have different hashes is assumed.  An entry
is its set of files and the *builds* its disk layer has as backing files.  A
backing file is named by its path, so by a key: it is another file once that key
has been published again.  `publish` contains no await between its first rename
and its last, so other runs stand still, but the process can be killed there.
A rename that fails is modelled; that a removal fails half-way without a kill
(`ignore_errors=True`) is not, nor that two processes share a target directory.

*Executor.*  A value is the sequence of the guests in it; a guest is its machine and
the node whose state it is in.  Three modules model `GraphExecutor.run`, each with
what its partners see: `TaskRun` its outcome and events, `CheckpointStore` its
effect on the disk, `Executor` the locks, guests and directories.  A dependency is a node and
at most one index into its value, which is then one guest (`use(node)[i]`); items that are tuples themselves are left out.
`Separate` holds of a test when nothing it stands on takes one machine by two inputs.  `validate`
does not ask for that, so graphs without it are explored too; the properties say where they need it.

*Session.*  One guest at a time; what QEMU does with a command is what `qmp.py`
waits for.  Two cancellations may reach the task while it cleans up after the first.
The end of a spawn and its recording are two steps (`spawnEnded`).

*Studio.*  The machines of a session are one guest, a frame is the number of inputs
the guest had received, and an overlap of processes (a save by one that attached
before another's) is recorded in `apart`: `KeepApart` in `MCStudio` stops the
exploration there, and the properties are about processes that do not overlap.

*Terminal.*  A line is what is typed at once, it may be lost to the wrong window or
arrive spoilt; `mishaps` records which of this has happened.  Output is `none`,
`some` or `all` of what the command writes.

*Cache.*  A file is the sequence of its chunks, each of a version, and its digest is
that sequence, so different contents have different digests.

*VNC.*  A picture gives every region the number of its last change.  A message
travels in two parts, because a time-out can cut it there.  A client that then takes the rest
for messages is out of step: what the bytes mean is a free choice (`Misread`: an error, a message
read over, an update of nothing, of a new size or of wrong pixels), with
wrong pixels on the whole screen standing for wrong pixels anywhere.

*Collection.*  The files are modules of one package with one test each.

Actions of QEMU, the guest, servers and the operating system are marked external in
the map: they are modelled from what the code does with them.

Definitions named as mutants in a comment are not part of the specification: each
is a plausible bug in the definition that follows it and serves to show that
the properties can fail.

## 4. Runs

| Run | Instance | What it shows |
|---|---|---|
| `scheduler` | diamond with an expected failure; a second file imports its setup; 2 jobs; any checkpoints of two nodes left before; with and without `--force`, with `--keep-going` and `--fail-fast` | what is started, cancelled and reported and with which exit code, labels shared by two keys, no body that runs twice or again although its checkpoint is there, no task survives, termination, and that the scheduler implements `GraphRun` |
| `store_edits` | chain of three, two of them editable, kills during runs | no checkpoint loses its backing files |
| `store_force` | two files, one importing from the other; `--force`, failing renames, kills anywhere | a publication that fails leaves the old entry or the new one; no dotted directory survives a prune; current checkpoints are spared |
| `executor` | three runs, two of them of one test in two files; a test with the same machine by two inputs | locks are held by the calls that took them (`LocksMatchCalls`), a body gets the guests of its inputs' states (`ArgumentsExact`), none is lost, one publication, no failure without a cause, no deadlock of nested locks |
| `executor_projected` | a pod of two machines; a test that takes one guest of it by each of two parameters (the graph of `tests/test_api.py:142`) | **violation**: both guests are started in one artifact directory, and the test fails |
| `session` | three machines on one link with room for two, two networks of one subnet; three cancellations | every live process is tracked and none is left in the end, but for the stray one below; disk and memory of a state belong together, a restored guest runs, answers match commands |
| `studio` | a server with two clients, a command, `catsnail run`; five calls, two restores | numbering of events and frames, revisions, the draft, stopped sessions, no unreachable guest, for processes that keep apart |
| `terminal` | a command that takes the focus and one that runs, asserts or asks for the password; two terminals | commands run once, results are true, the password stays |
| `terminal_assert` | the same | **violation**: a command that did what was asked is refused |
| `iso_cache` | two runs, two versions of two chunks, two faults | digests told are those of the file, what is booted was named, a run that retries gets its image |
| `vnc` | two regions, two operations, two of: change, resize, message of another kind, cancellation, misread bytes | frames are whole, and new unless more answers are owed than the wait can bear; keys go up, frames end |
| `collection` | all packages of four files whose tests use up to two others, one oddity | the order is exact, refusals have a cause, the tree has every row, the view fits |

`SessionInv`, `StudioInv`, `TerminalInv`, `CacheInv`, `VncInv`, `ExecutorInv` and `TreeShown` join
the types of a component with the invariants of its bookkeeping that are named beside them.
The types of the scheduler and of the store, and their inductive invariants, are proved
(section 5) and not checked again by a run.

`FrameFresh` counts, in `behind`, the requests that no picture has answered in time:
each leaves an answer for a later frame to read.  A frame bears none of them, and the
three equal frames of `wait_for_stable` bear two (`Spare`).

### Bounds

The scheduler has no unbounded counter: the instance is the full state
space of its graph.  `Leftovers` is the setup and one branch of the diamond: either, both or none of their
checkpoints are there at the start, so that inputs are found and missed in every order.  Four or five nodes contain the shapes the code distinguishes:
a shared input, a node with two inputs, an indirect consumer, an independent
branch, an expected failure with a consumer, the same node in two files.  Two
jobs are enough for two tasks to end in one wake-up and for the limit to be reached.
In the store the only counter is the number of bodies started in all,
`MaxBuilds`; four are a full build of three nodes and one rebuild, which is where a
base can change.  Two versions of the code suffice, because the store only compares
keys for equality.  The executor's space is full for its graph; three runs are two
that meet at every lock and one that holds several.  `MaxStarts` = 3 in the session
fills the link and its overflow; `MaxCancels` = 3 is a cancellation of the task, of
the clean-up and of the wait for the shielded stop.  `MaxCalls` = 5 in Studio is an
attachment, two interleaved controls, a reset and a `catsnail run`; two restores make
a revision of the old guest.  In the terminal `MaxShells` = 2 is a terminal that
opens late beside the one opened instead, and `MaxLag` = 2 an envelope and a
password under way.  `MaxFaults` = 2 in the cache is a transfer cut short and a new
release before it is resumed, or a kill.  `MaxCalls` = 2 of the VNC client is a frame
that leaves something behind and one that finds it; a `stable` wait takes as many frames as it likes.
`MaxEvents` = 2 lets both regions change, so that there is a mix of old and new
that was never on the screen and that `FrameWhole` forbids.
`MaxInputs` = 2 of four files contains diamonds, shared inputs and two levels of references;
`MaxOddities` = 1 keeps the instance small, the oddities do not interact.

### Fairness

The event loop runs every coroutine that is ready, which justifies
weak fairness of the scheduler's steps and of each task's steps.  That a task
ends is assumed: a test body that waits for ever makes a run that does not
end, in the code too.  Ctrl-C and faults have no fairness.  In the executor some run
that can go on does so (weak fairness of the disjunction): no order among runs is
assumed, so a cycle of locks would be a counterexample.  In the session every wait
for QEMU has a deadline (`GuestFails`, `SaveFails`), and a killed process exits; QEMU
owes no answer.  In the cache a waiter gets the lock in its turn, since
the lock is let go again and again (strong fairness of `Acquire`), and a failed run is
started again.  In the VNC client what was sent arrives and what has arrived is
read; the server owes no update, for a frame has a time-out, and the deadline of a wait,
which is looked at only between frames, passes in the end (strong fairness).
`Studio`, `DebianTerminal` and `GraphCollection` state no liveness: their clients may stop
at any point, the calls of a terminal each have deadlines that the model takes as `Expire`,
and the collection is a finite computation.

### Statements the code does not keep

`terminal_assert` and `executor_projected` are runs, with their findings in `PROJECT.json`.  The
others are definitions of the modules, or exceptions in the properties; TLC has refuted each
on the instance named.

| Statement | What happens |
|---|---|
| a cancelled node is never shown as failed (`Scheduler.CancelledNeverFails`; chain and branch, fail fast) | `QemuSession.start` turns the cancellation into an error |
| a node shown as cancelled never starts (`Scheduler.CancelledNodesNeverStart`; diamond, one job) | the tree follows the blamed node, the scheduler the key |
| a body runs once per invocation (`NodesRunOnce`; `--force`) | each consumer of a shared prerequisite runs it again |
| after a run in which everything passed all checkpoints are intact (`CheckpointStore.PassedRunLeavesChainsIntact`; fork, `--force`) | a prerequisite is rebuilt under a checkpoint that stands on it |
| current checkpoints are spared (`PruneSparesCurrent`) when only some files are selected | the entries of the other files, or their bases, are pruned |
| an entry that load refuses is stale (`CheckpointStore.MalformedAreStale`; kill in a prune) | it is never listed |
| `catsnail prune` spares what is current (`CheckpointStore.PruneCommandSparesCurrent`; two QEMU options) | its keys ignore the options |
| a test may take the guests of a pod by separate parameters (`Executor.ProjectionsRun`; run `executor_projected`) | both machines get one artifact directory, named by the first of the parameters |
| a test starts from the restored checkpoints of its inputs (`Executor.StartsFromInputs`; two tests that continue one install, a third that takes both, `--force`) | a restore rewrites the memo of every node on the machine, and a second consumer of a prerequisite gets the guest the first has left |
| `--force` rebuilds what it finds (`Executor.ForcedRunsPass`; one test, two files) | a test of two files runs twice, and meets the directory of its first run |
| a Ctrl-C cannot leave an untracked QEMU (comment at `qemu/runner.py:325`; left out of `NeverUntracked` and `NothingLeft` as step `stray`) | a second cancellation, after the spawn has ended and before the handler of the first is resumed, is raised by `await start_task`, and nobody has recorded the process |
| an active session keeps its sockets (`Studio.SocketsPreserved`) | the manifest lists no serial socket |
| an envelope runs its command once (`DebianTerminal.EnvelopeIdempotent`) | two shells test the marker in the same instant |
| the password is never a line of a shell (`DebianTerminal.PasswordNeverLeaks`) | an envelope that came late leaves the password in the old terminal |
| captures show the current desktop (`Vnc.ShowsCurrent`), frames end (`Vnc.FrameAlwaysEnds`) | a second request leaves its answer to the next frame; a message that is no update in the queued tail makes the read wait without a deadline |
| a frame is a complete desktop (`Vnc.AlwaysComplete`) | after a time-out between the head and the body of a message the rest is read as messages |
| a directory is accepted when each of its files is | a file that an earlier one imported is executed again, and its tests meet their own copies (`GraphCollection.RefusedForCause` describes when) |

## 5. Proofs

Every theorem is of the form `Spec => []Inv`, `Spec => [][A]_vars` or a refinement,
for every value of the constants that the named assumptions admit.  Except for the
scheduler's and the executor's (the graph has no cycle, and every test has an input), these say which types the constants have and that the values for "none" are not among the
others (`NoRun` is no run, `Nobody` no client, and so on).  Where TLC could tell on a small
instance that an invariant was not yet right, it did so before a proof was tried.  A module
of proofs has, for each invariant, a lemma that `Init` implies it, one that a step
preserves it, with a step per action, and the theorems that follow.

| Module | Theorem | Property |
|---|---|---|
| `SchedulerProofs` | `PassedInputs`, `ExactCancellation`, `ExitCode`, `NoOrphanTask`, `LabelsTellVerdicts`, `BodiesRunOnce` | `RunsOnPassedInputs`, `CancelsExactlyConsumers`, `ExitCodeFaithful`, `NoTaskOutlivesRun`, `LabelsMatchReport`, `NodesRunOnce` |
| | `Refinement` | `ImplementsGraphRun` |
| | `TypeCorrect`, `Invariance`, `Unresolved`, `OneRow` | `TypeOK`, `SchedulerInv`, `NeverUnresolved`, `OneRowPerKey` |
| `CheckpointStoreProofs` | `NothingLeftBehind`, `EntriesSurvive` | `NothingPilesUp`, `ReplacedOnlyOnSuccess` |
| | `RunsSpareCurrent` (under `OwnersSelected`) | `PruneSparesCurrent` |
| | `ChainsStayIntact` (under `Careful`) | `ChainsIntact` |
| `ExecutorProofs` | `LocksMatch`, `BuiltOnce` | `LocksMatchCalls`, `PublishedOnce` |
| | `GuestsOwned`, `ArgumentsFromInputs`, `FailuresCaused` | `ExecutorInv`, `ArgumentsExact`, `FailuresHaveCauses` |
| `QemuSessionProofs` | `SessionSafe`, `AnswersPaired`, `MigrationsEnd` | `SessionInv`, `AnswersMatch`, `MigrationsSettled` |
| `StudioProofs` | `LogFaithful`, `RevisionsExact`, `GuestsReachable`, `StopsLast` | `StudioInv`, `RevisionExact`, `NothingUnreachable` with `LostForGood`, `StoppedStays` with `RetiredStays` |
| `DebianTerminalProofs` | `TerminalSafe`, `ReturnsTrue`, `PasswordKept` | `TerminalInv`, `ReturnsTruthful`, `PasswordStays` |
| `IsoCacheProofs` | `CacheCorrect`, `MachinesBootVerified` | `CacheInv`, `BootsVerified` |
| `VncProofs` | `ClientKeepsShape`, `FramesWhole`, `FramesFresh` | `VncInv`, `FrameWhole`, `FrameFresh` |

### Scheduler

The assumptions are the named ones of the constants: finiteness and acyclicity of
the graph (`validate`), at least one job (`cli._run` refuses less), and that
`Position` is the post-order of `add_closure`.

None of the properties is inductive by itself.  `SchedulerInv` adds

* `KeysAccounted`: each key is in exactly one of `pending`, `running` and the
  report, as long as the loop goes on;
* `BooksBalance`: `completed`, `failed` and `unexpected_passes` say what the
  report says;
* `InputsDecide`: a key that runs or ran has only passed inputs, and a pending
  key has no input that can never pass.  The second half is what makes
  `cancel_failed_descendants` right: it has to remove every pending key
  downstream of the failure although it follows the dependencies through pending
  keys only;
* `EndsWell`: what holds when the call returns.

That the loop never meets unreleasable keys (`NothingStranded`) combines the
invariant with well-foundedness: a nonempty `pending` has a member with no
pending dependency (`KeysWellFounded`), whose dependencies are then neither
pending nor running, so have passed, so it is ready.  The lemmas about `Upstream`
replace induction over the graph by its closed-set definition.

The refinement maps a key to the verdict of its report row, or else to `RUN` once its
task has begun, and the phases of the coroutine to the modes of a run.  A task's first step
is `Start`, for which its inputs have to have passed (`InputsDecide`); its other steps stutter, since a
key runs until the loop reports it.  The report of a failure with all its cancellations is one step, whose
set of keys has to be exactly the consumers.

Labels are shared by the keys of a node in different files, and tasks report on the
nodes they execute, not only on their own.  `LabelInv` says that every label has a task
that accounts for it and that every ended task has left its mark (`LabelKept`), as long as
no task has been asked to stop or has crashed, and that a task blames a node upstream of its own.

`BodiesRunOnce` cannot appeal to a guard, because a run executes whatever its lookup misses.  `OnceInv`
says, without `--force`: the run that has the lock of a node is the only one (`LocksExclude`);
what a task of the node has passed is stored (`PassedAreStored`); and what a run holds
the lock of to execute it is missing, so it is the node of its own task, for the inputs of that task have
all passed (`HeldAreMissing`, `RunsOnPassedInputs`).  The two tasks of a node that two files share are told
apart by the lock: the second looks the node up after the first has let go, and finds it.

### Checkpoint store

`StoreTypeCorrect`, `NothingLeftBehind` and `EntriesSurvive` hold without conditions.
The latter two follow from `PublishInv`: it says which parts have been written at each step of a publication, and that only
the key that is being swapped misses its entry, and only as long as the new one is
not in its place (`PublicationsInStep`); so whatever fails leaves the old entry or its backup.
`EntriesSurvive` is about steps of a run that goes on: a kill between the two renames ends it with the old entry
under a dotted name, which nothing reads and the next prune deletes.
`RunsSpareCurrent` assumes `OwnersSelected`: if a file imports a node of another, the other is
selected too.  A run over one of several such files breaks it, and the property with it.

`ChainsStayIntact` assumes `Careful`: no
`--force`, every run over all files, no kill within a prune.  These are not
conveniences: without the first a forced
run, without the second a run over some of the files breaks the conclusion, and a kill within a prune can remove a
base before what is built on it.  `ChainsIntact` is not inductive; `StoreInv` adds

* `BodiesOnIntact`, `OneBuilder`: a body runs for a key that has no manifest, one
  body per node, on builds that are still in place, so what it publishes is
  intact and what it overwrites is nobody's base (`NobodysBase`);
* `HeldIntact`: the same of the inputs a run has restored;
* `BasesHashed`: the bases of an entry have the keys that its own key hashes;
* `DoomedStale`: prune removes what is not current and leaves only what is.  A
  current key has current bases (`KeyOfDependency`, from the closure of
  `Upstream`), so prune takes no base away from an entry it keeps (`RemoveKeeps`);
* `SwapConsistent`, `Phased`: what the renaming section leaves behind, and when.

### Executor

`LockInv` says that the run that holds the lock of a test has exactly one call on its
stack that is past taking it (`HoldersCall`, `CallsDistinct`), that without
`--force` a call which builds under a lock builds what is missing (`BuildsMissing`),
and that what was saved once is stored (`SavesStored`).  `PublishedOnce` follows because a
checkpoint is looked up under its lock.

What a body gets comes from functions that recur over the graph (`Machines`, `Descriptor`,
`Separate`) and folds over sequences (`FlattenSeq`, `Once`).  A recursive function is a `CHOOSE`,
so its equation has to be shown to have a solution: `RecursionExists` constructs one for any relation
without infinite descent, by collecting its approximations on sets closed downwards, and `FoldExists`
one along the numbers.  With the acyclicity that `validate` establishes the equations of the
graph follow (`MachinesUnfold`, `DescriptorUnfold`, `SeparateUnfold`), and from them that a descriptor
lists guests on the machines of its node only.  None of this uses an induction theorem over operators:
what would be an induction picks the least element of a set of counterexamples.

`DataInv` says, beside the types, what a run knows (`Good`): its calls form a chain, each the next input of
the one before, on ever smaller sets of machines; a test whose call is pending has no value in the
memo; every guest the memo or `runtimes` mentions is on a machine of a call that has taken it.  The last
part is why a restore in an inner call does not touch what an outer call has taken: in a `Separate` graph
their machines are disjoint (`TakenApart`).  There the invariant adds (`GoodSep`, `Live`) that
what a call has taken is running, in the state of its input, and `ArgumentsExact` follows at the moment
the body starts.  `Owned` relates the processes to `runtimes`, and gives `ExecutorInv`; it has the
exceptions of that property and no other.  `CallReturns`, `TakeGood` and `StepGood` say once how the
invariant moves with the innermost call; the lemmas about the actions, one each, instantiate them.

`DirInv` is about the directories: each was made by some run, for a machine and a stage it had started
(`MadeBy`, `Made`), and while that run goes on its memo shows it.  When a directory exists already
(`Collided`), the names tell that it was made for the same machine and stage of the same target
(`NamesTell`).  It was not this run that made it, because a stage is started once in a run; and no other run of the
target that goes on, because the outermost call holds the target's lock (`LockInv`).  So a run of the target
that ended made it: it passed, and left a checkpoint that this run would have restored instead, unless
`--force` is given; or it failed or was cancelled, which has a cause by the same invariant.

### Session

`SessionInv` is proved from `ProcessInv`, which relates `active`, the process and the
shielded stop: who asks for a guest's end while another stop is on its way waits for
it, and a stop that was dropped has already sent KILL.  The stray process of section 4 is
an exception of the property, by name.  `PoolInv` says that the subnets handed
out differ; `Allocated` returns a free one as long as there is one.  `AnswersMatch` needs the shape of
the monitor's queue (`InboxShape`): at most one answer, of the command that waits,
perhaps after an event; a client whose command has timed out is closed and never
asked again.  `ClientInPlace` ties what the answers have said to the step of the task.

### Studio

The four properties the run checks are about processes that do not overlap: `apart` is part of the
specification's state, and `SessionInv` reads `Typed /\ (apart => Together)`.  `Together`
says that at most one process is in the session (`OneAtATime`), that the counters of the manifest,
on disk and in the process, cover the log and the frames (`LogFits`), that
only the latest guest runs, with its screen spared by a `catsnail run` under way (`OneRuns`), that
a session is stopped before it is reset, and that a client whose image has the present
revision has seen what the guest shows, unless another call is between its input and its
event (`ImagesFit`).

Two statements hold in every interleaving, overlap included, and are proved beside them.  They are inductive on top of
`CopiesFit`, which says which processes have a copy of the manifest and which calls work on it.
`LostForGood` says that a guest of a restore that failed half-way is named by nothing that a stop, a reset or the end of
a process goes by, so that the leak of `start` (a failure after the first guests, outside its `try`) is
permanent.  `RetiredStays` says what overlap can do to a stopped session: once no
process has a copy from before the stop, none can write it back as active, except by another restore.

### Terminal

`TruthInv` follows a command from the envelope to its files and to what the call has read
of them; the two requests of a poll, output and then status, may have the command's last
step between them.  It is about behaviours in which no two shells look for one marker in the
same instant (`raced`).  `PassInv` is about the password: it is under way only after the probe has
asked for it (`Asked`), and as long as nothing has gone astray (`Calm`), it is the line that comes next
and goes to a sudo that waits for it (`PasswordsFit`).  `Calm` is the condition of the property.

### Cache

By `ImageInv` a run that has the lock knows what is on disk: what it has hashed is what the partial
file, or the image, holds (`KnowsDisk`).  Once it has let the lock go, the image is still the one it
asked for (`Verified`), unless another run asks for a different digest under the same name (`Rivals`).

### VNC client

A frame is put together from partial updates, so `FrameWhole` needs what all the
parts under way will make of it.  `Foretold` is the sequence of the framebuffers after
each of them: every one is a picture of one moment or black, and the last agrees with the screen except in the regions
that are `dirty`.  A change of the screen makes no difference to the sequence but for one more dirty region,
an update extends it by the picture of that moment, and reading a part drops its head.
`Followed`, `Ordered` and `OneAck` say of the channel that a head is followed by its body, that
updates are in the order of their pictures, and that the negotiation is acknowledged once.
All of this is conditional on the client being in step; `InStep` says that only a time-out inside a message ends
that (`VncInv` says it too), and `FrameWhole` leaves out what comes after.

`FrameFresh` counts.  Owed answers are no more than requests left behind, and one for the
frame that waits (`Owed`).  If an update older than the call is still to come, or was all that has
come, then those still to come, the one in hand and the equal pictures a `stable` wait
has looked at are together no more than the requests left behind (`Caught`), so the frame that ends the wait
was preceded by more of them than `Spare`.

### What is only model-checked

* Liveness (`Terminates`, `EveryRunEnds`, `NothingLeft`, `Recovers`, `FrameEnds`): fairness is
  out of the prover's reach.
* `TreeShown`, `OrderExact` and `RefusedForCause`: the operators of `GraphCollection` are recursive.

## 6. Not modelled

* Recording: it writes the frames it is given and calls ffmpeg once.
* The dashboard's web server and poll tasks: each task is a client like the one of `Vnc`,
  and what it keeps, one picture per guest, is read by the page only.
* The exploration helper, scenarios and images: a prompt and an external program, user code.
* Template matching, the clicks of the Ubuntu and Debian helpers and the serial console:
  geometry, or sequences of the operations of `Vnc` and `DebianTerminal` without a state of their own.
* The handshake of VNC: the model starts in the state it leaves.
* Rendering, formatting, argument parsing, `doctor` and prompts have no state whose order
  matters.  Durations and screen contents are data no property depends on.
