------------------------------ MODULE Scheduler ------------------------------
(***************************************************************************)
(* schedule_targets of graph/scheduler.py: the coroutine that starts the   *)
(* task of every scheduled key once its dependencies have completed, at    *)
(* most Jobs at a time, and turns the ended tasks into the report.         *)
(*                                                                         *)
(* The coroutine yields to its tasks only while it waits for them (phases  *)
(* "wait", "gather" and "unwind"): between two awaits its steps follow one *)
(* another with no task step in between.  reporter.refresh() on a timeout  *)
(* of the wait changes no state and has no action.                         *)
(***************************************************************************)
EXTENDS TaskRun, Sequences

CONSTANTS
  Jobs,     \* --jobs
  Position  \* the place of a key in the insertion order of `scheduled`

Deps == [k \in Scheduled |-> {<<k[1], n>> : n \in NodeDeps[k[2]]}]

ASSUME SchedulerAssumption ==
  /\ Jobs \in Nat \ {0}
  /\ Position \in [Scheduled -> Nat]
  /\ \A k \in Scheduled : \A d \in Deps[k] : Position[d] < Position[k]
  /\ \A j, k \in Scheduled : Position[j] = Position[k] => j = k

VARIABLES
  keepGoing,         \* TRUE unless --fail-fast
  pending,           \* keys not started yet
  running,           \* keys of the tasks not yet taken out of `running`
  done,              \* keys of the ended tasks this wake-up has to process
  completed,         \* keys that no longer hold back their consumers
  failed,
  unexpectedPasses,
  report,            \* report[k]: the statuses appended for k, in order
  phase,             \* where the coroutine is
  exitCode           \* its result, once phase = "returned"

schedulerVars ==
  <<pending, running, done, completed, failed, unexpectedPasses, report,
    phase, exitCode>>
options == <<forced, keepGoing>>
vars == <<taskVars, schedulerVars, options>>

Statuses == {"PASS", "FAIL", "XFAIL", "XPASS", "CANCEL"}
Awaiting == {"wait", "gather", "unwind"}
Phases == Awaiting \cup {"launch", "process", "returned", "raised", "unresolved"}
Over == phase \in {"returned", "raised", "unresolved"}

TypeOK ==
  /\ TaskTypeOK
  /\ forced \in BOOLEAN /\ keepGoing \in BOOLEAN
  /\ pending \subseteq Scheduled
  /\ running \subseteq Scheduled
  /\ done \subseteq running
  /\ completed \subseteq Scheduled
  /\ failed \subseteq Scheduled
  /\ unexpectedPasses \subseteq Scheduled
  /\ report \in [Scheduled -> Seq(Statuses)]
  /\ phase \in Phases
  /\ exitCode \in {0, 1}

Init ==
  /\ TaskInit
  /\ forced \in BOOLEAN /\ keepGoing \in BOOLEAN
  /\ pending = Scheduled
  /\ running = {}
  /\ done = {}
  /\ completed = {}
  /\ failed = {}
  /\ unexpectedPasses = {}
  /\ report = [k \in Scheduled |-> <<>>]
  /\ phase = "launch"
  /\ exitCode = 0

------------------------------------------------------------------------------
(* Starting tasks *)

Ready == {k \in pending : Deps[k] \subseteq completed}

\* The first ready key of `pending` gets a task.
Launch(k) ==
  /\ phase = "launch"
  /\ Cardinality(running) # Jobs
  /\ k \in Ready
  /\ \A j \in Ready : Position[k] <= Position[j]
  /\ running' = running \cup {k}
  /\ pending' = pending \ {k}
  /\ Go(k, "load", NoNode)
  /\ UNCHANGED <<values, runVars, cancelRequested, label, done, completed, failed,
                 unexpectedPasses, report, phase, exitCode>>

LaunchesNoMore ==
  /\ phase = "launch"
  /\ Cardinality(running) = Jobs \/ Ready = {}

Wait ==
  /\ LaunchesNoMore
  /\ running # {}
  /\ phase' = "wait"
  /\ UNCHANGED <<taskVars, pending, running, done, completed, failed,
                 unexpectedPasses, report, exitCode>>

\* Nothing runs: the loop is over, unless keys are left that nothing will
\* release, RuntimeError("selected tests have an unresolved dependency").
Leave ==
  /\ LaunchesNoMore
  /\ running = {}
  /\ phase' = IF pending = {} THEN "returned" ELSE "unresolved"
  /\ exitCode' = IF failed \cup unexpectedPasses = {} THEN 0 ELSE 1
  /\ UNCHANGED <<taskVars, pending, running, done, completed, failed,
                 unexpectedPasses, report>>

------------------------------------------------------------------------------
(* Waking up: all tasks that have ended by then are processed in any order *)

Collect ==
  /\ phase = "wait"
  /\ \E k \in running : Settled(k)
  /\ done' = {k \in running : Settled(k)}
  /\ phase' = "process"
  /\ UNCHANGED <<taskVars, pending, running, completed, failed,
                 unexpectedPasses, report, exitCode>>

(***************************************************************************)
(* cancel_failed_descendants: the pending keys reached from k through      *)
(* pending keys, the least set closed under "uses k or a member of it".    *)
(***************************************************************************)
BlockedBy(k, B) ==
  \A c \in pending : Deps[c] \cap ({k} \cup B) # {} => c \in B

\* Mutant of Blocked: no dependency check at all.
BlockedAlways(k) == pending

Blocked(k) ==
  {c \in pending : \A B \in SUBSET pending : BlockedBy(k, B) => c \in B}

\* Append a row for k, and a CANCEL row for every key of the set.
Report(k, status, cancelled) ==
  report' = [j \in Scheduled |->
               IF j = k THEN Append(report[j], status)
               ELSE IF j \in cancelled THEN Append(report[j], "CANCEL")
               ELSE report[j]]

\* error.failed_node or target
FailedNode(k) == IF activeNode[k] = NoNode THEN k[2] ELSE activeNode[k]

\* The labels after cancel_descendant_nodes.
CancelConsumers(k, labels) ==
  Emit(labels, "cancelled", Consumers[FailedNode(k)])

\* What every processed task does to `running` and to the loop.
TakeDone(k) ==
  /\ phase = "process" /\ k \in done
  /\ running' = running \ {k}
  /\ done' = done \ {k}

\* Mutant of NextDone: waits again without starting what became ready.
NextDoneWaits == phase' = IF done' = {} THEN "wait" ELSE "process"

NextDone == phase' = IF done' = {} THEN "launch" ELSE "process"

ProcessPass(k) ==
  /\ TakeDone(k) /\ stage[k] = "pass"
  /\ completed' = completed \cup {k}
  /\ Report(k, "PASS", {})
  /\ label' = Emit(label, "passed", {k[2]})
  /\ NextDone
  /\ UNCHANGED <<stage, activeNode, values, runVars, cancelRequested, pending,
                 failed, unexpectedPasses, exitCode>>

\* Mutant of ProcessXfail: its consumers stay pending.
ProcessXfailAsPass(k) ==
  /\ TakeDone(k) /\ stage[k] = "xfail"
  /\ completed' = completed \cup {k}
  /\ Report(k, "XFAIL", {})
  /\ label' = CancelConsumers(k, label)
  /\ NextDone
  /\ UNCHANGED <<stage, activeNode, values, runVars, cancelRequested, pending,
                 failed, unexpectedPasses, exitCode>>

(***************************************************************************)
(* An expected failure completes, so it does not fail the run, but it has  *)
(* no checkpoint: its consumers are cancelled.  The event of line 108 is   *)
(* never emitted, since only the target itself can fail as expected.       *)
(***************************************************************************)
ProcessXfail(k) ==
  /\ TakeDone(k) /\ stage[k] = "xfail"
  /\ completed' = completed \cup {k}
  /\ pending' = pending \ Blocked(k)
  /\ Report(k, "XFAIL", Blocked(k))
  /\ label' = CancelConsumers(k, label)
  /\ NextDone
  /\ UNCHANGED <<stage, activeNode, values, runVars, cancelRequested, failed,
                 unexpectedPasses, exitCode>>

\* Mutant of RecordFailure: an unexpected pass is not remembered.
RecordNoXpass(k) ==
  IF stage[k] = "xpass" THEN UNCHANGED <<failed, unexpectedPasses>>
                        ELSE failed' = failed \cup {k} /\ UNCHANGED unexpectedPasses

\* The row and the event of a failure or an unexpected pass.
RecordFailure(k) ==
  IF stage[k] = "xpass"
    THEN unexpectedPasses' = unexpectedPasses \cup {k} /\ UNCHANGED failed
    ELSE failed' = failed \cup {k} /\ UNCHANGED unexpectedPasses

FailureStatus(k) == IF stage[k] = "xpass" THEN "XPASS" ELSE "FAIL"

FailureLabels(k) ==
  Emit(label, IF stage[k] = "xpass" THEN "xpass" ELSE "failed", {k[2]})

ProcessFailure(k) ==
  /\ TakeDone(k) /\ stage[k] \in {"fail", "xpass"}
  /\ keepGoing
  /\ RecordFailure(k)
  /\ pending' = pending \ Blocked(k)
  /\ Report(k, FailureStatus(k), Blocked(k))
  /\ label' = CancelConsumers(k, FailureLabels(k))
  /\ NextDone
  /\ UNCHANGED <<stage, activeNode, values, runVars, cancelRequested, completed,
                 exitCode>>

\* --fail-fast: cancel everything, unprocessed ended tasks included.
ProcessFailFast(k) ==
  /\ TakeDone(k) /\ stage[k] \in {"fail", "xpass"}
  /\ ~keepGoing
  /\ RecordFailure(k)
  /\ cancelRequested' = cancelRequested \cup running'
  /\ Report(k, FailureStatus(k), {})
  /\ label' = Emit(FailureLabels(k), "cancelled", Nodes)
  /\ phase' = "gather"
  /\ UNCHANGED <<stage, activeNode, values, runVars, pending, completed, exitCode>>

\* task.result() raises; `finally` cancels what still runs.
ProcessCrash(k) ==
  /\ TakeDone(k) /\ stage[k] = "crash"
  /\ cancelRequested' = cancelRequested \cup running'
  /\ phase' = "unwind"
  /\ UNCHANGED <<stage, activeNode, values, runVars, label, pending, completed, failed,
                 unexpectedPasses, report, exitCode>>

------------------------------------------------------------------------------
(* Leaving *)

\* Mutant of AllSettled: the gather is not awaited.
NotAwaited == TRUE

AllSettled == \A k \in running : Settled(k)

ReturnFailFast ==
  /\ phase = "gather" /\ AllSettled
  /\ phase' = "returned"
  /\ exitCode' = 1
  /\ running' = {} /\ done' = {}
  /\ UNCHANGED <<taskVars, pending, completed, failed, unexpectedPasses, report>>

\* Ctrl-C cancels the coroutine at its await; `finally` cancels the tasks.
Interrupt ==
  /\ phase \in {"wait", "gather"}
  /\ cancelRequested' = cancelRequested \cup running
  /\ phase' = "unwind"
  /\ UNCHANGED <<stage, activeNode, values, runVars, label, pending, running, done,
                 completed, failed, unexpectedPasses, report, exitCode, options>>

Unwind ==
  /\ phase = "unwind" /\ AllSettled
  /\ phase' = "raised"
  /\ running' = {} /\ done' = {}
  /\ UNCHANGED <<taskVars, pending, completed, failed, unexpectedPasses,
                 report, exitCode>>

------------------------------------------------------------------------------

SchedulerStep ==
  /\ \/ \E k \in Scheduled :
          \/ Launch(k)
          \/ ProcessPass(k)
          \/ ProcessXfail(k)
          \/ ProcessFailure(k)
          \/ ProcessFailFast(k)
          \/ ProcessCrash(k)
     \/ Wait
     \/ Leave
     \/ Collect
     \/ ReturnFailFast
     \/ Unwind
  /\ UNCHANGED options

RunStep(k) == phase \in Awaiting /\ TaskStep(k) /\ UNCHANGED <<schedulerVars, options>>

\* The call has ended; every other state without a successor is a deadlock.
Terminated == Over /\ UNCHANGED vars

Next ==
  \/ SchedulerStep
  \/ \E k \in Scheduled : RunStep(k)
  \/ Interrupt
  \/ Terminated

(***************************************************************************)
(* The event loop runs the coroutine and every task that can go on.  That  *)
(* a task ends at all is the assumption that no test body waits for ever.  *)
(***************************************************************************)
Fairness == WF_vars(SchedulerStep) /\ \A k \in Scheduled : WF_vars(RunStep(k))

Spec == Init /\ [][Next]_vars /\ Fairness

------------------------------------------------------------------------------
(* Properties *)

Verdict(k) == IF report[k] = <<>> THEN "none" ELSE report[k][1]

\* The keys k depends on, directly or not.
UpstreamKeys(k) == {<<k[1], n>> : n \in Upstream[k[2]] \ {k[2]}}

(***************************************************************************)
(* The error of scheduler.py:91 cannot happen: whatever fails, the loop    *)
(* never faces pending keys that nothing will ever release.                *)
(***************************************************************************)
NeverUnresolved == phase # "unresolved"

(***************************************************************************)
(* A test only ever runs on inputs that passed.  `completed` is not enough *)
(* for that: it also holds the expected failures.                          *)
(***************************************************************************)
RunsOnPassedInputs ==
  \A k \in running : \A u \in UpstreamKeys(k) : Verdict(u) = "PASS"

(***************************************************************************)
(* Under --keep-going the report has exactly one row per scheduled key     *)
(* when the run returns, however failures, cancellations and passes were   *)
(* interleaved.                                                            *)
(***************************************************************************)
OneRowPerKey ==
  phase = "returned" /\ keepGoing => \A k \in Scheduled : Len(report[k]) = 1

(***************************************************************************)
(* README: "cancels only consumers of the failed checkpoint".  A key is    *)
(* cancelled if and only if something upstream of it did not pass.         *)
(***************************************************************************)
CancelsExactlyConsumers ==
  phase = "returned" /\ keepGoing =>
    \A k \in Scheduled :
      Verdict(k) = "CANCEL" <=>
        \E u \in UpstreamKeys(k) : Verdict(u) \in {"FAIL", "XFAIL", "XPASS"}

\* Exit code 1 exactly when the report has a FAIL or an XPASS row.
ExitCodeFaithful ==
  phase = "returned" =>
    (exitCode = 1 <=> \E k \in Scheduled : Verdict(k) \in {"FAIL", "XPASS"})

(***************************************************************************)
(* When schedule_targets has returned or raised, no task it started is     *)
(* still alive to hold a guest: the gathers waited for every one of them.  *)
(***************************************************************************)
NoTaskOutlivesRun == Over => \A k \in Scheduled : stage[k] \notin Live

(***************************************************************************)
(* scheduler.py:33 and 43-45: "Run graph nodes once"; a shared             *)
(* prerequisite is not run by each of its descendants.  Without --force a  *)
(* task only ever starts the body of its own node, and only when no task   *)
(* of the node, in whatever file, has passed or is in that body.           *)
(***************************************************************************)
NodesRunOnce ==
  [][\A k \in Scheduled :
       ~forced /\ stage[k] # "body" /\ stage'[k] = "body" =>
         /\ activeNode'[k] = k[2]
         /\ \A j \in Scheduled : j[2] = k[2] => stage[j] \notin {"body", "pass"}]_vars

(***************************************************************************)
(* executor.py:256-258: a task the scheduler has cancelled never turns a   *)
(* node into FAIL.                                                         *)
(***************************************************************************)
CancelledNeverFails ==
  [][\A k \in cancelRequested :
       ~Settled(k) /\ Settled(k)' =>
         \A n \in Nodes : label'[n] = "FAIL" => label[n] = "FAIL"]_vars

(***************************************************************************)
(* scheduler.py:193: "Cancel pending targets whose checkpoint state        *)
(* depends on a failure."  A node shown as cancelled is not started later. *)
(***************************************************************************)
CancelledNodesNeverStart ==
  [][\A k \in Scheduled :
       label[k[2]] = "CANCEL" /\ stage[k] = "unstarted" =>
         stage'[k] = "unstarted"]_vars

\* The labels a verdict allows for its node.
VerdictLabels(k) == IF Verdict(k) = "none" THEN {} ELSE {Verdict(k)}

(***************************************************************************)
(* What the tree shows at the end is what the report says.  A node that    *)
(* passed may show FAIL, but only if the run of a consumer was blamed on   *)
(* it: its checkpoint could not be restored.                               *)
(***************************************************************************)
LabelsMatchReport ==
  phase = "returned" /\ keepGoing =>
    \A k \in Scheduled :
      \/ label[k[2]] \in UNION {VerdictLabels(j) :
                                  j \in {j \in Scheduled : j[2] = k[2]}}
      \/ /\ label[k[2]] = "FAIL"
         /\ \E j \in Scheduled : stage[j] = "fail" /\ activeNode[j] = k[2]

(***************************************************************************)
(* Every call of schedule_targets ends: the loop never waits for a task    *)
(* that has been taken out of `running`, nor the gathers for one that was  *)
(* not cancelled.                                                          *)
(***************************************************************************)
Terminates == <>Over

------------------------------------------------------------------------------
(* The inductive invariant behind the safety properties *)

Going == phase \in {"launch", "wait", "process"}
Ran == {"PASS", "FAIL", "XFAIL", "XPASS"}

\* A key is pending, or its task is in `running`, or it has its one row: only
\* a run that is being stopped loses track of keys.
KeysAccounted ==
  /\ \A k \in pending : /\ stage[k] = "unstarted"
                         /\ report[k] = <<>>
                         /\ k \notin running
  /\ \A k \in running : stage[k] # "unstarted" /\ report[k] = <<>>
  /\ \A k \in Scheduled : stage[k] \in Live => k \in running
  /\ \A k \in done : Settled(k)
  /\ \A k \in Scheduled : report[k] = <<>> \/ \E v \in Statuses : report[k] = <<v>>
  /\ Going => \A k \in Scheduled : report[k] = <<>> => k \in pending \cup running

\* The three result sets say the same as the report.
BooksBalance ==
  /\ completed = {k \in Scheduled : Verdict(k) \in {"PASS", "XFAIL"}}
  /\ failed \cup unexpectedPasses =
       {k \in Scheduled : Verdict(k) \in {"FAIL", "XPASS"}}

\* Nothing runs ahead of an input, and nothing waits for an input that will
\* never pass.
InputsDecide ==
  /\ \A k \in Scheduled : k \in running \/ Verdict(k) \in Ran =>
       \A d \in Deps[k] : Verdict(d) = "PASS"
  /\ Going => \A k \in pending : \A d \in Deps[k] :
       d \in pending \cup running \/ Verdict(d) = "PASS"
  /\ \A k \in Scheduled : Verdict(k) = "CANCEL" =>
       \E u \in UpstreamKeys(k) : Verdict(u) \in {"FAIL", "XFAIL", "XPASS"}

EndsWell ==
  /\ phase # "unresolved"
  /\ Over => running = {}
  /\ phase = "gather" => ~keepGoing /\ failed \cup unexpectedPasses # {}
  /\ phase = "returned" /\ keepGoing => \A k \in Scheduled : report[k] # <<>>
  /\ phase = "returned" => (exitCode = 1 <=> failed \cup unexpectedPasses # {})

SchedulerInv ==
  /\ TypeOK
  /\ KeysAccounted
  /\ BooksBalance
  /\ InputsDecide
  /\ EndsWell

------------------------------------------------------------------------------
(* The scheduler implements GraphRun *)

verdictOf ==
  [k \in Scheduled |-> IF report[k] # <<>> THEN report[k][1]
                       ELSE IF stage[k] = "unstarted" THEN "WAIT"
                       ELSE "RUN"]

modeOf ==
  CASE phase \in {"launch", "wait", "process"} -> "going"
    [] phase = "gather" -> "stopping"
    [] phase = "unwind" -> "aborting"
    [] phase = "raised" -> "aborted"
    [] phase = "returned" -> IF exitCode = 0 THEN "succeeded" ELSE "failed"
    [] phase = "unresolved" -> "unresolved"

Abstract == INSTANCE GraphRun
  WITH Keys <- Scheduled, Uses <- Deps, verdict <- verdictOf, mode <- modeOf

(***************************************************************************)
(* Every behaviour of the coroutine and its tasks is a run GraphRun allows *)
(* (README, "cancels only consumers of the failed checkpoint").            *)
(***************************************************************************)
ImplementsGraphRun == Abstract!Spec
==============================================================================
