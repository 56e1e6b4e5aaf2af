------------------------------ MODULE Executor ------------------------------
(***************************************************************************)
(* GraphExecutor (graph/executor.py): several runs of one invocation, each *)
(* resolving one target over the checkpoints, the locks of the coordinator *)
(* and the artifact directories they share.  A run is a stack of           *)
(* resolve_checkpoint calls; every step below ends at an await.            *)
(*                                                                         *)
(* A value is the sequence of the guests in it (the nesting of tuples is   *)
(* left out).  A guest is the machine source it was started from with the  *)
(* node whose state it is in: a test, or the source itself after a boot.   *)
(* Which events are reported, and which node is blamed, is in TaskRun.     *)
(***************************************************************************)
EXTENDS Naturals, Sequences, SequencesExt

CONSTANTS
  Sources,           \* the machines declared with add_os
  Tests,             \* the tests of the graph
  Inputs,            \* Inputs[t]: the dependencies of t, in parameter order
  Name,              \* Name[t]: the name of the function of t
  Runs,              \* the runs of this invocation
  Target,            \* Target[r]: the test a run is asked for
  Forced,            \* --force
  Recorded,          \* record=True: directories of finished guests are kept
  ExpectedFailures,  \* the tests declared with expected_failure=...
  NoRun              \* a lock nobody holds

Nodes == Sources \cup Tests

\* A dependency is a node and, for use(node)[i], the item i of its value.
\* TestGraph.validate refuses a cycle: some test of any set needs none of it.
ASSUME ExecutorAssumption ==
  /\ Sources \cap Tests = {}
  /\ Inputs \in [Tests -> Seq([node : Nodes, item : Nat])]
  /\ \A t \in Tests : Inputs[t] # <<>>
  /\ \A S \in SUBSET Tests : S # {} =>
       \E t \in S : \A i \in DOMAIN Inputs[t] : Inputs[t][i].node \notin S
  /\ Name \in [Tests -> STRING]
  /\ Target \in [Runs -> Tests]
  /\ Forced \in BOOLEAN /\ Recorded \in BOOLEAN
  /\ ExpectedFailures \subseteq Tests
  /\ NoRun \notin Runs

\* _source_dependencies: the machines a node stands on.
Machines[n \in Nodes] ==
  IF n \in Sources THEN {n}
  ELSE UNION {Machines[Inputs[n][i].node] : i \in DOMAIN Inputs[n]}

\* _source_parameter: the first parameter of a test that reaches a machine.
Parameter(t, s) ==
  CHOOSE i \in DOMAIN Inputs[t] :
    /\ s \in Machines[Inputs[t][i].node]
    /\ \A j \in 1..(i - 1) : s \notin Machines[Inputs[t][j].node]

\* One item of a value; the item 0 is the whole.
Item(value, item) == IF item \in DOMAIN value THEN <<value[item]>> ELSE value

\* _describe_output: the machines a checkpoint restores, as its value lists them.
Descriptor[n \in Nodes] ==
  IF n \in Sources THEN <<n>>
  ELSE FlattenSeq([i \in DOMAIN Inputs[n] |->
         Item(Descriptor[Inputs[n][i].node], Inputs[n][i].item)])

\* dict.fromkeys: every element once, at its first place.
Once(s) ==
  LET once[i \in 0..Len(s)] ==
        IF i = 0 THEN <<>>
        ELSE IF s[i] \in ToSet(once[i - 1]) THEN once[i - 1]
        ELSE Append(once[i - 1], s[i])
  IN  once[Len(s)]

VARIABLES
  stack,     \* the pending resolve_checkpoint calls of a run, outermost first
  phase,     \* of a run: going, closing (the `finally`), ended
  outcome,   \* of a run: none, pass, fail or cancelled
  values,    \* the memo of a run; <<>> where a node is not resolved
  runtimes,  \* the guests a run owns, in the order it started them
  lock,      \* the run that holds the lock of a test's checkpoint
  store,     \* the tests that have a checkpoint on disk
  dirs,      \* the artifact directories that exist
  qemu,      \* the running QEMU processes: a run and its guest
  faults,    \* the runs something went wrong in, a cancellation included
  leaked,    \* the runs whose `finally` was interrupted
  saves,     \* how often the checkpoint of a test has been published
  over       \* the invocation has stopped every QEMU process left

vars == <<stack, phase, outcome, values, runtimes, lock, store, dirs, qemu,
          faults, leaked, saves, over>>

Guest == [source : Sources, stage : Nodes]
Places == {"lock", "args", "save", "restore"}
Frame == [node : Tests, at : Places, args : Seq(Seq(Guest)), done : Nat]

TypeOK ==
  /\ stack \in [Runs -> Seq(Frame)]
  /\ phase \in [Runs -> {"going", "closing", "ended"}]
  /\ outcome \in [Runs -> {"none", "pass", "fail", "cancelled"}]
  /\ values \in [Runs -> [Nodes -> Seq(Guest)]]
  /\ runtimes \in [Runs -> Seq(Guest)]
  /\ lock \in [Tests -> Runs \cup {NoRun}]
  /\ store \subseteq Tests
  /\ qemu \subseteq Runs \X Guest
  /\ faults \subseteq Runs /\ leaked \subseteq Runs
  /\ saves \in [Tests -> Nat]
  /\ over \in BOOLEAN

\* A call of resolve_checkpoint that waits for its lock.
Call(t) == [node |-> t, at |-> "lock", args |-> <<>>, done |-> 0]

\* Any checkpoints of earlier invocations, each with those it was built on.
Init ==
  /\ stack = [r \in Runs |-> <<Call(Target[r])>>]
  /\ phase = [r \in Runs |-> "going"]
  /\ outcome = [r \in Runs |-> "none"]
  /\ values = [r \in Runs |-> [n \in Nodes |-> <<>>]]
  /\ runtimes = [r \in Runs |-> <<>>]
  /\ lock = [t \in Tests |-> NoRun]
  /\ store \in SUBSET (Tests \ ExpectedFailures)
  /\ \A t \in store : \A i \in DOMAIN Inputs[t] :
       Inputs[t][i].node \in store \cup Sources
  /\ dirs = {} /\ qemu = {} /\ faults = {} /\ leaked = {}
  /\ saves = [t \in Tests |-> 0]
  /\ over = FALSE
------------------------------------------------------------------------------
\* The innermost pending call of a run.
Top(r) == Last(stack[r])
At(r, place) == phase[r] = "going" /\ stack[r] # <<>> /\ Top(r).at = place
Becomes(r, frame) == stack' = [stack EXCEPT ![r] = Append(Front(@), frame)]

\* resolve_dependency: the value of a dependency, or one item of it.
NextInput(f) == Inputs[f.node][Len(f.args) + 1]
Take(f, value) ==
  [f EXCEPT !.args = Append(@, Item(value, NextInput(f).item))]

\* _implicit_output, and the machines it is saved from.
Saving(f) ==
  LET guests == FlattenSeq(f.args)
  IN  Once([i \in DOMAIN guests |-> guests[i].source])
Restoring(f) == Once(Descriptor[f.node])

\* `runtimes` is a dictionary by machine: the guest on one, and the others.
Of(r, s) == {g \in ToSet(runtimes[r]) : g.source = s}
Without(r, s) ==
  IF Of(r, s) = {} THEN runtimes[r]
  ELSE RemoveAt(runtimes[r],
         CHOOSE i \in DOMAIN runtimes[r] : runtimes[r][i].source = s)
Processes(r, guests) == {<<r, g>> : g \in guests}

\* Mutant of Directory: the directory does not name the parameter.
DirectoryByStage(r, g) ==
  <<Target[r], IF g.stage \in Sources THEN "boot" ELSE Name[g.stage]>>

\* _artifact_directory: the target, its parameter, and the stage or "boot".
Directory(r, g) ==
  <<Target[r], Parameter(Target[r], g.source),
    IF g.stage \in Sources THEN "boot" ELSE Name[g.stage]>>
Directories(r, guests) == {Directory(r, g) : g \in guests}

\* `async with coordinator.lock_for(key)` in every call the exception leaves.
LetGo(r) == lock' = [t \in Tests |-> IF lock[t] = r THEN NoRun ELSE lock[t]]

Leave(r, how) ==
  /\ phase' = [phase EXCEPT ![r] = "closing"]
  /\ outcome' = [outcome EXCEPT ![r] = how]
  /\ stack' = [stack EXCEPT ![r] = <<>>]
  /\ LetGo(r)

\* The checkpoint that ends the wait for the lock; None in three cases.
Cached(t) == ~Forced /\ t \notin ExpectedFailures /\ t \in store

\* The target is on disk: the run is over without any guest.
HitTarget(r) ==
  /\ At(r, "lock") /\ lock[Top(r).node] = NoRun
  /\ Top(r).node = Target[r] /\ Cached(Target[r])
  /\ Leave(r, "pass")
  /\ UNCHANGED <<values, runtimes, store, dirs, qemu, faults, leaked, saves, over>>

\* Mutant of Enter: the store is read without waiting for the lock.
EnterUnlocked(r) ==
  /\ At(r, "lock")
  /\ ~(Top(r).node = Target[r] /\ Cached(Target[r]))
  /\ lock' = [lock EXCEPT ![Top(r).node] = r]
  /\ Becomes(r, [Top(r) EXCEPT !.at = IF Cached(Top(r).node) THEN "restore"
                                      ELSE "args"])
  /\ UNCHANGED <<phase, outcome, values, runtimes, store, dirs, qemu, faults,
                 leaked, saves, over>>

Enter(r) ==
  /\ At(r, "lock") /\ lock[Top(r).node] = NoRun
  /\ ~(Top(r).node = Target[r] /\ Cached(Target[r]))
  /\ lock' = [lock EXCEPT ![Top(r).node] = r]
  /\ Becomes(r, [Top(r) EXCEPT !.at = IF Cached(Top(r).node) THEN "restore"
                                      ELSE "args"])
  /\ UNCHANGED <<phase, outcome, values, runtimes, store, dirs, qemu, faults,
                 leaked, saves, over>>
------------------------------------------------------------------------------
Unresolved(r, n) ==
  /\ At(r, "args") /\ Len(Top(r).args) < Len(Inputs[Top(r).node])
  /\ NextInput(Top(r)).node = n /\ values[r][n] = <<>>

\* An input this run has resolved before.
Recall(r) ==
  /\ At(r, "args") /\ Len(Top(r).args) < Len(Inputs[Top(r).node])
  /\ LET value == values[r][NextInput(Top(r)).node]
     IN  value # <<>> /\ Becomes(r, Take(Top(r), value))
  /\ UNCHANGED <<phase, outcome, values, runtimes, lock, store, dirs, qemu,
                 faults, leaked, saves, over>>

Descend(r, t) ==
  /\ t \in Tests /\ Unresolved(r, t)
  /\ stack' = [stack EXCEPT ![r] = Append(@, Call(t))]
  /\ UNCHANGED <<phase, outcome, values, runtimes, lock, store, dirs, qemu,
                 faults, leaked, saves, over>>

(***************************************************************************)
(* _start_source.  RunArtifacts.create makes the directory of the guest    *)
(* with exist_ok=False; a guest that does not come up is stopped again.    *)
(***************************************************************************)
Boot(r, s) ==
  LET g == [source |-> s, stage |-> s]
  IN  /\ s \in Sources /\ Unresolved(r, s)
      /\ Directory(r, g) \notin dirs
      /\ dirs' = dirs \cup {Directory(r, g)}
      /\ qemu' = qemu \cup {<<r, g>>}
      /\ runtimes' = [runtimes EXCEPT ![r] =
           IF Of(r, s) = {} THEN Append(@, g)
           ELSE [i \in DOMAIN @ |-> IF @[i].source = s THEN g ELSE @[i]]]
      /\ values' = [values EXCEPT ![r][s] = <<g>>]
      /\ Becomes(r, Take(Top(r), <<g>>))
      /\ UNCHANGED <<phase, outcome, lock, store, faults, leaked, saves, over>>

\* All inputs are resolved: the body of the test runs.
InBody(r) == At(r, "args") /\ Len(Top(r).args) = Len(Inputs[Top(r).node])

\* An expected failure that returns raises UnexpectedPassError: see Fail.
BodyReturns(r) ==
  /\ InBody(r) /\ Top(r).node \notin ExpectedFailures
  /\ Becomes(r, [Top(r) EXCEPT !.at = "save"])
  /\ UNCHANGED <<phase, outcome, values, runtimes, lock, store, dirs, qemu,
                 faults, leaked, saves, over>>

(***************************************************************************)
(* _publish_checkpoint saves the state of one machine after another; each  *)
(* is stopped and leaves `runtimes`.  Then the checkpoint is published.    *)
(***************************************************************************)
\* Mutant of SaveMachine: the machine leaves `runtimes` but is not stopped.
SaveMachineOnly(r) ==
  /\ At(r, "save") /\ Top(r).done < Len(Saving(Top(r)))
  /\ runtimes' = [runtimes EXCEPT
                   ![r] = Without(r, Saving(Top(r))[Top(r).done + 1])]
  /\ Becomes(r, [Top(r) EXCEPT !.done = @ + 1])
  /\ UNCHANGED <<phase, outcome, values, lock, store, dirs, qemu, faults, leaked,
                 saves, over>>

SaveMachine(r) ==
  /\ At(r, "save") /\ Top(r).done < Len(Saving(Top(r)))
  /\ LET s == Saving(Top(r))[Top(r).done + 1]
     IN  /\ qemu' = qemu \ Processes(r, Of(r, s))
         /\ dirs' = IF Recorded THEN dirs ELSE dirs \ Directories(r, Of(r, s))
         /\ runtimes' = [runtimes EXCEPT ![r] = Without(r, s)]
  /\ Becomes(r, [Top(r) EXCEPT !.done = @ + 1])
  /\ UNCHANGED <<phase, outcome, values, lock, store, faults, leaked, saves, over>>

Saved(r) ==
  /\ At(r, "save") /\ Top(r).done = Len(Saving(Top(r)))
  /\ store' = store \cup {Top(r).node}
  /\ saves' = [saves EXCEPT ![Top(r).node] = @ + 1]

\* Mutant of Publish: the guests the body left are used, not restored ones.
PublishOnly(r) ==
  /\ Saved(r) /\ Top(r).node # Target[r]
  /\ LET calls == Front(stack[r])
     IN  stack' = [stack EXCEPT ![r] =
           Append(Front(calls), Take(Last(calls), FlattenSeq(Top(r).args)))]
  /\ lock' = [lock EXCEPT ![Top(r).node] = NoRun]
  /\ UNCHANGED <<phase, outcome, values, runtimes, dirs, qemu, faults, leaked, over>>

Publish(r) ==
  /\ Saved(r) /\ Top(r).node # Target[r]
  /\ Becomes(r, [Top(r) EXCEPT !.at = "restore", !.done = 0])
  /\ UNCHANGED <<phase, outcome, values, runtimes, lock, dirs, qemu, faults,
                 leaked, over>>

PublishTarget(r) ==
  /\ Saved(r) /\ Top(r).node = Target[r]
  /\ Leave(r, "pass")
  /\ UNCHANGED <<values, runtimes, dirs, qemu, faults, leaked, over>>
------------------------------------------------------------------------------
(***************************************************************************)
(* _restore_checkpoint: the guest the run has on a machine is disposed and *)
(* the machine is started again from the checkpoint.                       *)
(***************************************************************************)
Incoming(r) == [source |-> Restoring(Top(r))[Top(r).done + 1],
                stage |-> Top(r).node]

RestoreMachine(r) ==
  /\ At(r, "restore") /\ Top(r).done < Len(Restoring(Top(r)))
  /\ LET g == Incoming(r)
         old == Of(r, g.source)
         kept == IF Recorded THEN dirs ELSE dirs \ Directories(r, old)
     IN  /\ Directory(r, g) \notin kept
         /\ dirs' = kept \cup {Directory(r, g)}
         /\ qemu' = (qemu \ Processes(r, old)) \cup {<<r, g>>}
         /\ runtimes' = [runtimes EXCEPT ![r] = Append(Without(r, g.source), g)]
  /\ Becomes(r, [Top(r) EXCEPT !.done = @ + 1])
  /\ UNCHANGED <<phase, outcome, values, lock, store, faults, leaked, saves, over>>

\* _replace_guest_values: the guests a run remembers on the restored machines.
Replaced(value, f) ==
  [i \in DOMAIN value |->
     IF value[i].source \in ToSet(Descriptor[f.node])
       THEN [source |-> value[i].source, stage |-> f.node] ELSE value[i]]

Restored(r) ==
  /\ At(r, "restore") /\ Top(r).done = Len(Restoring(Top(r)))
  /\ LET f == Top(r)
         d == Descriptor[f.node]
         value == [i \in DOMAIN d |-> [source |-> d[i], stage |-> f.node]]
         calls == Front(stack[r])
     IN  /\ values' = [values EXCEPT ![r] =
              [n \in Nodes |-> IF n = f.node THEN value ELSE Replaced(@[n], f)]]
         /\ stack' = [stack EXCEPT ![r] =
              Append(Front(calls), Take(Last(calls), value))]
         /\ lock' = [lock EXCEPT ![f.node] = NoRun]
  /\ UNCHANGED <<phase, outcome, runtimes, store, dirs, qemu, faults, leaked,
                 saves, over>>
------------------------------------------------------------------------------
(***************************************************************************)
(* The directory of the next guest exists: mkdir raises, nothing went      *)
(* wrong in this run.  The guest it was to replace is stopped already.     *)
(***************************************************************************)
Collide(r) ==
  /\ \/ /\ \E s \in Sources :
             /\ Unresolved(r, s)
             /\ Directory(r, [source |-> s, stage |-> s]) \in dirs
        /\ UNCHANGED <<dirs, qemu, runtimes>>
     \/ /\ At(r, "restore") /\ Top(r).done < Len(Restoring(Top(r)))
        /\ LET g == Incoming(r)
               old == Of(r, g.source)
           IN  /\ dirs' = IF Recorded THEN dirs ELSE dirs \ Directories(r, old)
               /\ Directory(r, g) \in dirs'
               /\ qemu' = qemu \ Processes(r, old)
               /\ runtimes' = [runtimes EXCEPT ![r] = Without(r, g.source)]
  /\ Leave(r, "fail")
  /\ UNCHANGED <<values, store, faults, leaked, saves, over>>

\* Mutant of Fail: the locks of the run are not given back.
FailHolding(r) ==
  /\ phase[r] = "going" /\ ~At(r, "lock")
  /\ phase' = [phase EXCEPT ![r] = "closing"]
  /\ outcome' = [outcome EXCEPT ![r] = "fail"]
  /\ stack' = [stack EXCEPT ![r] = <<>>]
  /\ faults' = faults \cup {r}
  /\ UNCHANGED <<values, runtimes, lock, store, dirs, qemu, leaked, saves, over>>

\* Any exception of a body, of QEMU or of the store, XFAIL and XPASS included.
Fail(r) ==
  /\ phase[r] = "going" /\ ~At(r, "lock")
  /\ Leave(r, "fail")
  /\ faults' = faults \cup {r}
  /\ UNCHANGED <<values, runtimes, store, dirs, qemu, leaked, saves, over>>

Cancel(r) ==
  /\ phase[r] = "going"
  /\ Leave(r, "cancelled")
  /\ faults' = faults \cup {r}
  /\ UNCHANGED <<values, runtimes, store, dirs, qemu, leaked, saves, over>>

(***************************************************************************)
(* The `finally` of the run: the last guest first.                         *)
(***************************************************************************)
Retain(r) == outcome[r] = "fail" \/ Recorded

Dispose(r) ==
  /\ phase[r] = "closing" /\ runtimes[r] # <<>>
  /\ LET g == Last(runtimes[r])
     IN  /\ qemu' = qemu \ {<<r, g>>}
         /\ dirs' = IF Retain(r) THEN dirs ELSE dirs \ {Directory(r, g)}
  /\ runtimes' = [runtimes EXCEPT ![r] = Front(@)]
  /\ UNCHANGED <<stack, phase, outcome, values, lock, store, faults, leaked,
                 saves, over>>

\* A dispose that raises, or a cancellation in it, stops its guest and ends
\* the loop: the guests before it keep running.
DisposeRaises(r) ==
  /\ phase[r] = "closing" /\ runtimes[r] # <<>>
  /\ qemu' = qemu \ {<<r, Last(runtimes[r])>>}
  /\ phase' = [phase EXCEPT ![r] = "ended"]
  /\ leaked' = leaked \cup {r} /\ faults' = faults \cup {r}
  /\ UNCHANGED <<stack, outcome, values, runtimes, lock, store, dirs, saves, over>>

End(r) ==
  /\ phase[r] = "closing" /\ runtimes[r] = <<>>
  /\ phase' = [phase EXCEPT ![r] = "ended"]
  /\ UNCHANGED <<stack, outcome, values, runtimes, lock, store, dirs, qemu,
                 faults, leaked, saves, over>>

\* The `finally` of the invocation: QemuRunner.stop_all_instances.
StopAllInstances ==
  /\ \A r \in Runs : phase[r] = "ended"
  /\ qemu' = {} /\ over' = TRUE
  /\ UNCHANGED <<stack, phase, outcome, values, runtimes, lock, store, dirs,
                 faults, leaked, saves>>

Step(r) ==
  \/ HitTarget(r) \/ Enter(r) \/ Recall(r)
  \/ \E t \in Tests : Descend(r, t)
  \/ \E s \in Sources : Boot(r, s)
  \/ BodyReturns(r)
  \/ SaveMachine(r) \/ Publish(r) \/ PublishTarget(r)
  \/ RestoreMachine(r) \/ Restored(r) \/ Collide(r)
  \/ Dispose(r) \/ End(r)

Next ==
  \/ \E r \in Runs : Step(r) \/ Fail(r) \/ Cancel(r) \/ DisposeRaises(r)
  \/ StopAllInstances

(***************************************************************************)
(* As long as some run can go on one does: bodies return or fail, QEMU     *)
(* answers or times out, an asyncio lock that is let go wakes its waiters. *)
(* Nothing has to fail or to be cancelled, and no run has to be served     *)
(* before another.                                                         *)
(***************************************************************************)
Spec ==
  /\ Init /\ [][Next]_vars
  /\ WF_vars(\E r \in Runs : Step(r))
  /\ WF_vars(StopAllInstances)
------------------------------------------------------------------------------
(***************************************************************************)
(* Properties.                                                             *)
(***************************************************************************)

\* No two inputs of a test stand on one machine, here and upstream.
\* TestGraph.validate does not ask for this.
Separate[n \in Nodes] ==
  \/ n \in Sources
  \/ /\ \A i, j \in DOMAIN Inputs[n] : i # j =>
          \/ Machines[Inputs[n][i].node] \cap Machines[Inputs[n][j].node] = {}
          \/ /\ Inputs[n][i].node = Inputs[n][j].node
             /\ Inputs[n][i].node \in Tests
     /\ \A i \in DOMAIN Inputs[n] : Separate[Inputs[n][i].node]

\* A lock is held by the run that has a call of its test past the wait, and by
\* no other: two runs never save or restore one checkpoint at the same time,
\* and no run that ended keeps a lock.
LocksMatchCalls ==
  \A t \in Tests, r \in Runs :
    lock[t] = r <=> \E i \in DOMAIN stack[r] :
                      stack[r][i].node = t /\ stack[r][i].at # "lock"

\* The guests a run still owns are the ones that run, and nothing else runs
\* for it: no restore, save or failure loses a QEMU process, unless a test
\* takes one machine by two inputs or the `finally` was interrupted.
OwnedGuestsRun ==
  \A r \in Runs :
    \/ {p \in qemu : p[1] = r} = Processes(r, ToSet(runtimes[r]))
    \/ r \in leaked \/ over \/ ~Separate[Target[r]]

\* The bookkeeping of a run: its types and its guests.
ExecutorInv == TypeOK /\ OwnedGuestsRun

\* The arguments of the running body: live guests, each in the state of the
\* input it comes from.
FromInputs(r) ==
  \A i \in DOMAIN Top(r).args : \A j \in DOMAIN Top(r).args[i] :
    LET g == Top(r).args[i][j]
    IN  <<r, g>> \in qemu /\ g.stage = Inputs[Top(r).node][i].node

\* A body gets its inputs.  They are resolved one after another, each with what
\* it stands on, and a guest that is replaced meanwhile is replaced in all the
\* run remembers: nothing a body gets may be stale or of another test, unless
\* the target takes one machine by two inputs.
ArgumentsExact ==
  \A r \in Runs : InBody(r) /\ Separate[Target[r]] => FromInputs(r)

\* What graph/executor.py:198 says, "A test starts only after its dependency
\* checkpoints have been restored": so does a test with inputs of its own, when
\* it is another test of the run that takes one machine by two inputs.
StartsFromInputs ==
  \A r \in Runs : InBody(r) /\ Separate[Top(r).node] => FromInputs(r)

\* The locks make concurrent runs publish a checkpoint once, without --force.
PublishedOnce == ~Forced => \A t \in Tests : saves[t] <= 1

\* Directories are named after the parameter and the function of the stage: they
\* tell the guests of a test apart when each parameter brings one machine of its
\* own and no two tests on a machine, and no boot, have one name.
DirectoriesTell(t) ==
  /\ \A s1, s2 \in Machines[t] : Parameter(t, s1) = Parameter(t, s2) => s1 = s2
  /\ \A t1, t2 \in Tests : Machines[t] \cap Machines[t1] \cap Machines[t2] # {} =>
       Name[t1] # "boot" /\ (Name[t1] = Name[t2] => t1 = t2)

\* A run fails only when something went wrong in it, or in another run of the
\* same test (imported by two files): a guest never meets a directory that is
\* left over.  With --force the second run of a test does.
FailuresHaveCauses ==
  \A r \in Runs : outcome[r] = "fail" /\ DirectoriesTell(Target[r]) =>
    \/ \E q \in faults : Target[q] = Target[r]
    \/ Forced /\ \E q \in Runs \ {r} : Target[q] = Target[r]

\* What test_projects_a_tuple_checkpoint_into_separate_guest_parameters asks for:
\* a test that takes the guests of another as two parameters runs unless
\* something goes wrong.
ProjectionsRun == faults = {} => \A r \in Runs : outcome[r] # "fail"

\* What README.md:302 says of --force, "rebuilding prerequisite environments and
\* replacing their cache": a run of it fails only when something goes wrong.
ForcedRunsPass == Forced => ProjectionsRun

\* Locks are held while other locks are awaited; no order of runs blocks, and
\* after the last run no QEMU process is left.
EveryRunEnds == <>[](over /\ qemu = {})
==============================================================================
