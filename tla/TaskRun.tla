------------------------------- MODULE TaskRun -------------------------------
(***************************************************************************)
(* One asyncio task of the scheduler: GraphExecutor.run for one scheduled  *)
(* key, seen from the scheduler.  Kept are the local variables `values`    *)
(* and `active_node`, the locks and the checkpoints that decide whether a  *)
(* node is executed or restored, the progress events in the order the run  *)
(* emits them, and how it ends.  The order in which the inputs of a node   *)
(* are resolved is a free choice here; the guests, and the checkpoints as  *)
(* files, are in the modules Executor and CheckpointStore.                 *)
(*                                                                         *)
(* A key is a pair <<file, node>>: two test files that import the same     *)
(* node each get a task for it, both report on the same label, and both    *)
(* look up the same checkpoint.                                            *)
(***************************************************************************)
EXTENDS TestGraph, Progress

CONSTANTS
  Files,             \* the test files of the run
  Targets,           \* the selected targets, as keys
  ExpectedFailures,  \* the nodes declared with expected_failure=...
  Leftovers,         \* the nodes an earlier call may have left a checkpoint of
  NoNode             \* active_node is None

ASSUME TaskAssumption ==
  /\ IsFiniteSet(Files)
  /\ Targets \subseteq Files \X Nodes
  /\ ExpectedFailures \subseteq Nodes
  /\ Leftovers \subseteq Nodes
  /\ NoNode \notin Nodes

\* `scheduled`: every target with everything upstream of it, per file.
Scheduled == {k \in Files \X Nodes : \E t \in Targets :
                 k[1] = t[1] /\ k[2] \in Upstream[t[2]]}

VARIABLES
  forced,           \* --force, the same for every task of a call
  stage,            \* where the task of a key is, or how it ended
  activeNode,       \* the run's active_node; failed_node once it has failed
  values,           \* the nodes the run has already resolved
  held,             \* the nodes whose lock the run holds, in resolve_checkpoint
  stored,           \* the nodes whose checkpoint `load` finds, for every file
  cancelRequested,  \* the keys whose task the scheduler has cancelled
  label             \* the progress label of every node

runVars == <<held, stored>>
taskVars == <<stage, activeNode, values, cancelRequested, label, runVars>>

Live == {"load", "resolve", "body", "restore", "rebuilt"}
Outcomes == {"pass", "fail", "xfail", "xpass", "crash", "cancelled"}

Settled(k) == stage[k] \in Outcomes
Running(k) == stage[k] \in Live /\ k \notin cancelRequested

TaskTypeOK ==
  /\ stage \in [Scheduled -> {"unstarted"} \cup Live \cup Outcomes]
  /\ activeNode \in [Scheduled -> Nodes \cup {NoNode}]
  /\ values \in [Scheduled -> SUBSET Nodes]
  /\ held \in [Scheduled -> SUBSET Nodes]
  /\ stored \subseteq Nodes
  /\ cancelRequested \subseteq Scheduled
  /\ label \in [Nodes -> Labels]
  /\ \A k \in Scheduled :
       /\ held[k] \subseteq Upstream[k[2]]
       /\ stage[k] \in {"body", "restore", "rebuilt"} =>
            activeNode[k] \in Upstream[k[2]]

TaskInit ==
  /\ stage = [k \in Scheduled |-> "unstarted"]
  /\ activeNode = [k \in Scheduled |-> NoNode]
  /\ values = [k \in Scheduled |-> {}]
  /\ held = [k \in Scheduled |-> {}]
  /\ stored \in SUBSET Leftovers
  /\ cancelRequested = {}
  /\ label = [n \in Nodes |-> "WAIT"]

\* Move the task of k to another stage with another active node.
Go(k, to, node) ==
  /\ stage' = [stage EXCEPT ![k] = to]
  /\ activeNode' = [activeNode EXCEPT ![k] = node]

(***************************************************************************)
(* The run ends: every `async with` it is in releases its lock, and its    *)
(* `finally` disposes the guests it has started; when that raises, the     *)
(* task ends with an error run_target does not catch.  Nothing another     *)
(* task does in between tells these steps apart.                           *)
(***************************************************************************)
Ends(k, outcome, node) ==
  /\ \/ Go(k, outcome, node)
     \/ stage[k] # "load" /\ Go(k, "crash", node)
  /\ held' = [held EXCEPT ![k] = {}]

------------------------------------------------------------------------------
(* resolve_checkpoint: take the lock of the node, then look it up *)

\* Mutant of LockFree: every run looks up and executes on its own.
LockShared(n) == TRUE

LockFree(n) == \A j \in Scheduled : n \notin held[j]

\* `cached is None`: --force, an expected failure, or no checkpoint.
Misses(n) == forced \/ n \in ExpectedFailures \/ n \notin stored

\* The run resolves the inputs of m: the last node it has found missing.
Resolving(k, m) ==
  /\ Running(k) /\ stage[k] = "resolve"
  /\ m \in held[k] /\ Upstream[m] \cap held[k] = {m}

MissTarget(k) ==
  /\ Running(k) /\ stage[k] = "load"
  /\ LockFree(k[2]) /\ Misses(k[2])
  /\ held' = [held EXCEPT ![k] = {k[2]}]
  /\ Go(k, "resolve", NoNode)
  /\ UNCHANGED <<values, stored, cancelRequested, label>>

\* The target has a checkpoint: the run ends without starting any guest.
HitTarget(k) ==
  /\ Running(k) /\ stage[k] = "load"
  /\ LockFree(k[2]) /\ ~Misses(k[2])
  /\ Go(k, "pass", NoNode)
  /\ label' = Emit(label, "checkpoint_restored", Upstream[k[2]])
  /\ UNCHANGED <<values, held, stored, cancelRequested>>

LookUpInput(k, n) ==
  /\ \E m \in Nodes : Resolving(k, m) /\ n \in NodeDeps[m] \ values[k]
  /\ LockFree(n)
  /\ held' = [held EXCEPT ![k] = @ \cup {n}]

MissInput(k, n) ==
  /\ LookUpInput(k, n) /\ Misses(n)
  /\ UNCHANGED <<stage, activeNode, values, stored, cancelRequested, label>>

\* An input is found on disk and its guests are restarted.
RestoreInput(k, n) ==
  /\ LookUpInput(k, n) /\ ~Misses(n)
  /\ Go(k, "restore", n)
  /\ UNCHANGED <<values, stored, cancelRequested, label>>

------------------------------------------------------------------------------
(* Executing a node that was not found *)

\* The body of a node starts once all its inputs are resolved.
StartBody(k, n) ==
  /\ Resolving(k, n)
  /\ NodeDeps[n] \subseteq values[k]
  /\ Go(k, "body", n)
  /\ label' = Emit(label, "started", {n})
  /\ UNCHANGED <<values, held, stored, cancelRequested>>

\* The body of an input returned: its checkpoint is published, then restored.
SaveInput(k) ==
  /\ Running(k) /\ stage[k] = "body"
  /\ activeNode[k] \notin ExpectedFailures \cup {k[2]}
  /\ stored' = stored \cup {activeNode[k]}
  /\ Go(k, "rebuilt", activeNode[k])
  /\ label' = Emit(label, "checkpoint_saved", {activeNode[k]})
  /\ UNCHANGED <<values, held, cancelRequested>>

InputRestored(k) ==
  /\ Running(k) /\ stage[k] \in {"restore", "rebuilt"}
  /\ LET restored == Emit(label, "checkpoint_restored", {activeNode[k]})
     IN  label' = IF stage[k] = "rebuilt"
                    THEN Emit(restored, "passed", {activeNode[k]})
                    ELSE restored
  /\ values' = [values EXCEPT ![k] = @ \cup {activeNode[k]}]
  /\ held' = [held EXCEPT ![k] = @ \ {activeNode[k]}]
  /\ Go(k, "resolve", NoNode)
  /\ UNCHANGED <<stored, cancelRequested>>

\* The body of the target returned and its checkpoint is published.
TargetPasses(k) ==
  /\ Running(k) /\ stage[k] = "body" /\ activeNode[k] = k[2]
  /\ k[2] \notin ExpectedFailures
  /\ stored' = stored \cup {k[2]}
  /\ Ends(k, "pass", NoNode)
  /\ label' = Emit(Emit(label, "checkpoint_saved", {k[2]}), "passed", {k[2]})
  /\ UNCHANGED <<values, cancelRequested>>

\* xfail(...) in the body of an expected failure, or a body that returned.
TargetExpectedFailure(k) ==
  /\ Running(k) /\ stage[k] = "body" /\ activeNode[k] = k[2]
  /\ k[2] \in ExpectedFailures
  /\ \E kind \in {"xfail", "xpass"} :
       /\ Ends(k, kind, k[2])
       /\ label' = Emit(label, kind, {k[2]})
  /\ UNCHANGED <<values, stored, cancelRequested>>

(***************************************************************************)
(* Any exception in a body, in the store or in starting a guest.  It is    *)
(* blamed on active_node, which is None while a checkpoint is looked up or *)
(* a machine source boots, and an input while that input is restored.  A   *)
(* publication that fails after its renames leaves the new entry.          *)
(***************************************************************************)
Fail(k) ==
  /\ Running(k)
  /\ Ends(k, "fail", activeNode[k])
  /\ label' = Emit(label, "failed", {activeNode[k]})
  /\ \/ UNCHANGED stored
     \/ /\ stage[k] = "body" /\ activeNode[k] \notin ExpectedFailures
        /\ stored' = stored \cup {activeNode[k]}
  /\ UNCHANGED <<values, cancelRequested>>

\* CancelledError leaves the run at its next await, and nothing is emitted.
Cancelled(k) ==
  /\ stage[k] \in Live /\ k \in cancelRequested
  /\ Ends(k, "cancelled", activeNode[k])
  /\ UNCHANGED <<values, stored, cancelRequested, label>>

(***************************************************************************)
(* QemuSession.start wraps whatever interrupts it, CancelledError too, in  *)
(* a QemuRunError: a run cancelled while it starts a guest fails instead.  *)
(***************************************************************************)
CancelledInStart(k) ==
  /\ stage[k] \in {"resolve", "restore", "rebuilt"} /\ k \in cancelRequested
  /\ Ends(k, "fail", activeNode[k])
  /\ label' = Emit(label, "failed", {activeNode[k]})
  /\ UNCHANGED <<values, stored, cancelRequested>>

TaskStep(k) ==
  \/ MissTarget(k)
  \/ HitTarget(k)
  \/ \E n \in Nodes : MissInput(k, n) \/ RestoreInput(k, n) \/ StartBody(k, n)
  \/ SaveInput(k)
  \/ InputRestored(k)
  \/ TargetPasses(k)
  \/ TargetExpectedFailure(k)
  \/ Fail(k)
  \/ Cancelled(k)
  \/ CancelledInStart(k)
==============================================================================
