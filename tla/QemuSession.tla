---------------------------- MODULE QemuSession ----------------------------
(***************************************************************************)
(* QemuSession and QemuRunner (qemu/session.py, qemu/runner.py): the life  *)
(* of one QEMU process of a run, from the spawn to the reaping, with       *)
(* cancellations at every await, also while an earlier one is cleaned up.  *)
(* A run starts a few guests one after another; its networks stay.         *)
(*                                                                         *)
(* The task is at `step`.  runner.stop runs its own task, which a          *)
(* cancelled stop does not interrupt (asyncio.shield): `stopTask` is that  *)
(* task, `stopWaits` the coroutine that waits for it.                      *)
(***************************************************************************)
EXTENDS NetworkPool, Qmp

CONSTANTS
  Sources,      \* the machines of the run
  Networks,     \* Networks[s]: the networks of a machine, in order
  MaxStarts,    \* bound: guests started
  MaxCancels    \* bound: cancellations delivered to the task

ASSUME SessionAssumption ==
  /\ Networks \in [Sources -> Seq(SocketNets \cup UserNets)]
  /\ MaxStarts \in Nat /\ MaxCancels \in Nat

VARIABLES
  step,       \* where the task is
  source,     \* the machine of the guest
  incoming,   \* the guest is restored from a saved state
  proc,       \* the QEMU process: none, running or dead
  signal,     \* the last signal QEMU was sent: none, TERM or KILL
  active,     \* the runner tracks the process in _active
  stopTask,   \* none, term (at most 5 s), kill, done, or dropped (cancelled)
  stopWaits,  \* who waits for stopTask: none, first, again, after a cancel
  failed,     \* the run failed or was cancelled: it starts no other guest
  saved,      \* save_state has returned for this guest
  starts,     \* guests started
  cancels     \* cancellations delivered

taskVars == <<step, source, incoming, failed, saved, starts>>
procVars == <<proc, signal, active, stopTask, stopWaits>>
vars == <<taskVars, procVars, cancels, poolVars, qmpVars>>

Starting == {"attach", "overlay", "image", "spawn", "spawnCancelled", "spawnEnded",
             "stopSpawned", "resume", "screen", "stopFailed"}
Steps == Starting \cup {"idle", "ready", "save", "failing", "close", "stop",
                        "stopAll", "over", "stray"}

TypeOK ==
  /\ PoolTypeOK(Sources) /\ QmpTypeOK
  /\ step \in Steps /\ source \in Sources /\ incoming \in BOOLEAN
  /\ proc \in {"none", "running", "dead"} /\ signal \in {"none", "TERM", "KILL"}
  /\ active \in BOOLEAN /\ saved \in BOOLEAN /\ failed \in BOOLEAN
  /\ stopTask \in {"none", "term", "kill", "done", "dropped"}
  /\ stopWaits \in {"none", "first", "again"}
  /\ starts \in 0..MaxStarts /\ cancels \in 0..MaxCancels

Init ==
  /\ PoolInit /\ QmpInit
  /\ step = "idle" /\ source \in Sources /\ incoming = FALSE
  /\ proc = "none" /\ signal = "none" /\ active = FALSE
  /\ stopTask = "none" /\ stopWaits = "none"
  /\ failed = FALSE /\ saved = FALSE /\ starts = 0 /\ cancels = 0

Goto(to) == step' = to /\ UNCHANGED <<source, incoming, failed, saved, starts>>
Abort(to) ==
  step' = to /\ failed' = TRUE /\ UNCHANGED <<source, incoming, saved, starts>>
------------------------------------------------------------------------------
(***************************************************************************)
(* QemuSession.start.                                                      *)
(***************************************************************************)
Start ==
  /\ step = "idle" /\ ~failed /\ starts < MaxStarts
  /\ step' = "overlay" /\ starts' = starts + 1 /\ saved' = FALSE
  /\ source' \in Sources /\ incoming' \in BOOLEAN
  /\ proc' = "none" /\ signal' = "none" /\ active' = FALSE
  /\ stopTask' = "none" /\ stopWaits' = "none"
  /\ Fresh(incoming')
  /\ UNCHANGED <<failed, cancels, poolVars>>

\* create_overlay and _image_format run qemu-img.
OverlayCreated ==
  /\ step = "overlay" /\ Goto("attach")
  /\ UNCHANGED <<procVars, cancels, poolVars, qmpVars>>

AttachNetwork ==
  /\ step = "attach" /\ ~CannotAttach(source, Networks[source])
  /\ \E i \in DOMAIN Networks[source] :
       /\ Attach(source, Networks[source][i])
       /\ \A j \in 1..(i - 1) : Attached(source, Networks[source][j])
  /\ UNCHANGED <<taskVars, procVars, cancels, qmpVars>>

NetworksAttached ==
  /\ step = "attach"
  /\ \A i \in DOMAIN Networks[source] : Attached(source, Networks[source][i])
  /\ Goto("image")
  /\ UNCHANGED <<procVars, cancels, poolVars, qmpVars>>

\* resolve_iso and the checks of runner.start.
ImageResolved ==
  /\ step = "image" /\ Goto("spawn")
  /\ UNCHANGED <<procVars, cancels, poolVars, qmpVars>>

\* Nothing has been spawned: the error or the cancellation leaves start.
StartFails ==
  /\ \/ step \in {"overlay", "image", "spawn", "spawnCancelled"}
     \/ step = "attach" /\ CannotAttach(source, Networks[source])
  /\ Abort("idle")
  /\ UNCHANGED <<procVars, cancels, poolVars, qmpVars>>

\* stop creates _stop_process: an exited process is done, another gets a TERM.
StopBegins ==
  /\ stopTask' = IF proc = "running" THEN "term" ELSE "done"
  /\ signal' = IF proc = "running" THEN "TERM" ELSE signal
  /\ stopWaits' = "first"

\* The spawn that a cancelled task waits for ends; the handler of the
\* cancellation, `process = await start_task`, has yet to be resumed.
SpawnEnds ==
  /\ step = "spawnCancelled" /\ Goto("spawnEnded") /\ proc' = "running"
  /\ UNCHANGED <<signal, active, stopTask, stopWaits, cancels, poolVars, qmpVars>>

\* Mutant of Spawned: a process spawned for a cancelled task is not recorded.
SpawnedUntracked ==
  /\ step \in {"spawn", "spawnEnded"}
  /\ proc' = IF step = "spawn" THEN "running" ELSE proc
  /\ Goto(IF step = "spawnEnded" THEN "idle"
          ELSE IF incoming THEN "resume" ELSE "screen")
  /\ active' = (step = "spawn")
  /\ UNCHANGED <<signal, stopTask, stopWaits, cancels, poolVars, qmpVars>>

\* The process is recorded, by the task or by the handler, which stops it.
Spawned ==
  /\ active' = TRUE
  /\ \/ /\ step = "spawn" /\ Goto(IF incoming THEN "resume" ELSE "screen")
        /\ proc' = "running" /\ UNCHANGED <<signal, stopTask, stopWaits>>
     \/ step = "spawnEnded" /\ Goto("stopSpawned") /\ StopBegins /\ UNCHANGED proc
  /\ UNCHANGED <<cancels, poolVars, qmpVars>>

\* _resume and save_state; for the latter see also Failing.
OpenClient(o) ==
  /\ step = o /\ ~saved /\ proc = "running"
  /\ Connect(o)
  /\ UNCHANGED <<taskVars, procVars, cancels, poolVars>>

ClientReads ==
  /\ Proceed \/ SkipEvent
  /\ UNCHANGED <<taskVars, procVars, cancels, poolVars>>

Resumed ==
  /\ step = "resume" /\ Finishes /\ Goto("screen")
  /\ UNCHANGED <<procVars, cancels, poolVars>>

\* VncClient.connect, boot arguments or a first frame, and a first step.
ScreenReady ==
  /\ step = "screen" /\ Goto("ready")
  /\ UNCHANGED <<procVars, cancels, poolVars, qmpVars>>

\* Whatever interrupts the rest of start: stop, and a QemuRunError.
GuestFails ==
  /\ step \in {"resume", "screen"}
  /\ Abort("stopFailed") /\ StopBegins /\ GivesUp
  /\ UNCHANGED <<proc, active, cancels, poolVars>>
------------------------------------------------------------------------------
(***************************************************************************)
(* The guest is used, saved after a body that returned or after a failure, *)
(* and disposed.                                                           *)
(***************************************************************************)
BodyEnds ==
  /\ step = "ready"
  /\ Goto("save") \/ Goto("close") \/ Abort("failing")
  /\ UNCHANGED <<procVars, cancels, poolVars, qmpVars>>

Saved ==
  /\ step \in {"save", "failing"} /\ op = "save" /\ Finishes
  /\ step' = "close" /\ saved' = TRUE
  /\ UNCHANGED <<source, incoming, failed, starts, procVars, cancels, poolVars>>

\* save_failure_states opens a client of its own.
OpenFailing ==
  /\ step = "failing" /\ proc = "running"
  /\ Connect("save")
  /\ UNCHANGED <<taskVars, procVars, cancels, poolVars>>

SaveFails ==
  /\ step \in {"save", "failing"}
  /\ Abort(IF step = "save" THEN "failing" ELSE "close") /\ GivesUp
  /\ UNCHANGED <<procVars, cancels, poolVars>>

\* guest.close returns or raises: the process is stopped all the same.
Closed ==
  /\ step = "close" /\ Goto("stop") /\ StopBegins
  /\ UNCHANGED <<proc, active, cancels, poolVars, qmpVars>>
------------------------------------------------------------------------------
(***************************************************************************)
(* QemuRunner.stop.                                                        *)
(***************************************************************************)
StopTimesOut ==
  /\ stopTask = "term"
  /\ stopTask' = "kill" /\ signal' = "KILL"
  /\ UNCHANGED <<taskVars, proc, active, stopWaits, cancels, poolVars, qmpVars>>

Reaped ==
  /\ stopTask \in {"term", "kill"} /\ proc = "dead"
  /\ stopTask' = "done"
  /\ UNCHANGED <<taskVars, proc, signal, active, stopWaits, cancels, poolVars,
                 qmpVars>>

Stopping == {"stopSpawned", "stopFailed", "stop", "stopAll"}

\* stop returns to its caller, or to nobody when the caller has left.
StopReturns ==
  /\ stopWaits # "none" /\ stopTask \in {"done", "dropped"}
  /\ stopWaits' = "none" /\ active' = FALSE
  /\ IF step \in Stopping
       THEN Goto(IF step = "stopAll" THEN "over" ELSE "idle")
       ELSE UNCHANGED taskVars
  /\ UNCHANGED <<proc, signal, stopTask, cancels, poolVars, qmpVars>>

\* Mutant of CancelStop: the second cancellation ends the wait without a KILL.
CancelStopPlain ==
  /\ step \in Stopping \ {"stopSpawned"} /\ stopWaits = "first"
  /\ stopTask' = "dropped" /\ stopWaits' = "again"
  /\ Abort(step)
  /\ UNCHANGED <<proc, signal, active, poolVars, qmpVars>>

\* A cancellation of stop kills the process group and goes on waiting; the
\* next one cancels the stop task and waits for that.
CancelStop ==
  /\ step \in Stopping \ {"stopSpawned"}
  /\ \/ /\ stopWaits = "first"
        /\ signal' = "KILL" /\ stopWaits' = "again" /\ UNCHANGED stopTask
     \/ /\ stopWaits = "again" /\ stopTask \in {"term", "kill"}
        /\ stopTask' = "dropped" /\ UNCHANGED <<signal, stopWaits>>
  /\ Abort(step)
  /\ UNCHANGED <<proc, active, poolVars, qmpVars>>

\* In runner.start the stop itself is shielded: it goes on without its caller.
CancelStopSpawned ==
  /\ step = "stopSpawned" /\ Abort("idle")
  /\ UNCHANGED <<procVars, poolVars, qmpVars>>

CancelSpawn ==
  /\ \/ step = "spawn" /\ Abort("spawnCancelled")
     \* The spawn task is cancelled: asyncio kills what it has forked.
     \/ step = "spawnCancelled" /\ Abort("idle")
     \* The spawn task has ended, so the cancellation is raised by the await
     \* of its result: the process is left to nobody, and the run is over.
     \/ step = "spawnEnded" /\ Abort("stray")
  /\ UNCHANGED <<procVars, poolVars, qmpVars>>

CancelStart ==
  /\ \/ /\ step \in {"overlay", "image"} /\ Abort("idle")
        /\ UNCHANGED <<procVars, qmpVars>>
     \/ /\ step \in {"resume", "screen"}
        /\ Abort("stopFailed") /\ StopBegins /\ GivesUp /\ UNCHANGED <<proc, active>>
  /\ UNCHANGED poolVars

\* In the body and in save_state a cancellation leads to the disposal;
\* save_failure_states swallows it and goes on to the disposal too.
CancelUse ==
  /\ step \in {"ready", "save", "failing"}
  /\ Abort("close") /\ GivesUp
  /\ UNCHANGED <<procVars, poolVars>>

Cancel ==
  /\ cancels < MaxCancels /\ cancels' = cancels + 1
  /\ CancelStart \/ CancelSpawn \/ CancelStopSpawned \/ CancelUse \/ CancelStop

\* QemuRunner.stop_all_instances, at the end of the invocation.
StopAll ==
  /\ step = "idle"
  /\ IF active THEN Goto("stopAll") /\ StopBegins
     ELSE Goto("over") /\ UNCHANGED <<stopTask, signal, stopWaits>>
  /\ UNCHANGED <<proc, active, cancels, poolVars, qmpVars>>
------------------------------------------------------------------------------
\* QEMU exits: killed, asked to, or by itself.
Exits ==
  /\ proc = "running" /\ proc' = "dead"
  /\ UNCHANGED <<taskVars, signal, active, stopTask, stopWaits, cancels, poolVars,
                 qmpVars>>

Monitor ==
  /\ proc = "running" /\ (Handle \/ SendEvent \/ MigrationEnds)
  /\ UNCHANGED <<taskVars, procVars, cancels, poolVars>>

TaskStep ==
  \/ OverlayCreated \/ AttachNetwork \/ NetworksAttached \/ ImageResolved
  \/ StartFails \/ SpawnEnds \/ Spawned \/ OpenClient("resume") \/ OpenClient("save")
  \/ OpenFailing \/ ClientReads \/ Resumed \/ ScreenReady \/ GuestFails
  \/ BodyEnds \/ Saved \/ SaveFails \/ Closed
StopStep == StopTimesOut \/ Reaped \/ StopReturns

Over == step \in {"over", "stray"} /\ stopWaits = "none" /\ UNCHANGED vars

Next == Start \/ TaskStep \/ StopStep \/ StopAll \/ Cancel \/ Exits \/ Monitor \/ Over

(***************************************************************************)
(* The task and the stop task go on when they can, every wait for QEMU has *)
(* a deadline, and a killed process exits.                                 *)
(***************************************************************************)
Spec ==
  /\ Init /\ [][Next]_vars
  /\ WF_vars(TaskStep) /\ WF_vars(StopStep) /\ WF_vars(StopAll)
  /\ WF_vars(GuestFails) /\ WF_vars(SaveFails)
  /\ WF_vars(signal = "KILL" /\ Exits)
------------------------------------------------------------------------------
(***************************************************************************)
(* Properties.                                                             *)
(***************************************************************************)

\* A live process is tracked in _active until it was sent a KILL or is gone,
\* however the task is cancelled.  One case is left out, because the code does
\* not keep it: a second cancellation between the end of a spawn and the
\* handler of the first, which leaves a stray process.
NeverUntracked ==
  proc = "running" => active \/ signal = "KILL" \/ step \in {"spawnEnded", "stray"}

\* When save_state has returned, the state is complete and the guest has not
\* run since its disk was flushed: disk and memory belong together.
SavedExact == saved => migration = "completed" /\ flushed

\* A restored guest that is handed to a test runs: it is not left paused by
\* a state that was still being loaded.
RestoredRuns ==
  step \in {"screen", "ready"} /\ incoming /\ proc = "running" =>
    runState = "running"

\* A migration, out or in, is over before its result is used.
MigrationsSettled == SavedExact /\ RestoredRuns

\* What a session shares with the others and owes the operating system: networks
\* with subnets of their own, and no process that nobody would stop.
SessionInv == TypeOK /\ NeverUntracked /\ SubnetsDistinct

\* The end of the invocation finds or leaves no QEMU process running, but for
\* a stray one.
NothingLeft == <>[](proc # "running" \/ step = "stray")
==============================================================================
