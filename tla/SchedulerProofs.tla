--------------------------- MODULE SchedulerProofs ---------------------------
(***************************************************************************)
(* Proofs about Scheduler, for every test graph, every number of files and *)
(* jobs, and every setting of --force and --keep-going.                    *)
(***************************************************************************)
EXTENDS Scheduler, FiniteSetTheorems, TLAPS

USE DEF Live, Outcomes, Statuses, Phases, Awaiting, runVars

------------------------------------------------------------------------------
(* Upstream and Consumers, in every test graph *)

(* add_closure and the Merkle key both rely on it: a node is part of what  *)
(* is upstream of it, together with everything that part uses.             *)
LEMMA UpstreamClosed ==
  ASSUME NEW n \in Nodes
  PROVE  /\ n \in Upstream[n]
         /\ Upstream[n] \subseteq Nodes
         /\ DependencyClosed(Upstream[n])
<1>1. n \in Upstream[n] /\ Upstream[n] \subseteq Nodes
  BY DEF Upstream
<1>2. ASSUME NEW m \in Upstream[n], NEW d \in NodeDeps[m]
      PROVE  d \in Upstream[n]
  <2>1. m \in Nodes /\ d \in Nodes
    BY <1>1, <1>2, GraphAssumption
  <2>2. ASSUME NEW S \in SUBSET Nodes, n \in S, DependencyClosed(S)
        PROVE  d \in S
    <3>1. m \in S
      BY <2>2 DEF Upstream
    <3>2. QED
      BY <2>2, <3>1 DEF DependencyClosed
  <2>3. QED
    BY <2>1, <2>2 DEF Upstream
<1>3. QED
  BY <1>1, <1>2 DEF DependencyClosed

LEMMA UpstreamLeast ==
  ASSUME NEW n \in Nodes, NEW S \in SUBSET Nodes, n \in S, DependencyClosed(S)
  PROVE  Upstream[n] \subseteq S
BY DEF Upstream

LEMMA UpstreamTransitive ==
  ASSUME NEW n \in Nodes, NEW m \in Upstream[n]
  PROVE  Upstream[m] \subseteq Upstream[n]
BY UpstreamClosed, UpstreamLeast

LEMMA UpstreamOfDependency ==
  ASSUME NEW n \in Nodes, NEW d \in NodeDeps[n]
  PROVE  d \in Nodes /\ d # n /\ Upstream[d] \subseteq Upstream[n]
<1>1. d \in Upstream[n] /\ d \in Nodes
  BY UpstreamClosed, GraphAssumption DEF DependencyClosed
<1>2. d # n
  <2>1. {n} \in SUBSET Nodes /\ {n} # {}
    OBVIOUS
  <2>2. NodeDeps[n] \cap {n} = {}
    BY <2>1, GraphAssumption DEF Acyclic
  <2>3. QED
    BY <2>2
<1>3. QED
  BY <1>1, <1>2, UpstreamTransitive

\* What is upstream of a node is upstream of one of its dependencies.
LEMMA UpstreamUnfold ==
  ASSUME NEW n \in Nodes, NEW m \in Upstream[n], m # n
  PROVE  \E d \in NodeDeps[n] : m \in Upstream[d]
<1> DEFINE S == {n} \cup UNION {Upstream[d] : d \in NodeDeps[n]}
<1>1. NodeDeps[n] \subseteq Nodes
  BY GraphAssumption
<1>2. S \in SUBSET Nodes
  BY <1>1, UpstreamClosed
<1>3. ASSUME NEW x \in S
      PROVE  NodeDeps[x] \subseteq S
  <2>1. CASE x = n
    BY <2>1, <1>1, UpstreamClosed
  <2>2. CASE \E d \in NodeDeps[n] : x \in Upstream[d]
    BY <2>2, <1>1, UpstreamClosed DEF DependencyClosed
  <2>3. QED
    BY <1>3, <2>1, <2>2
<1>4. DependencyClosed(S)
  BY <1>3 DEF DependencyClosed
<1>5. Upstream[n] \subseteq S
  BY <1>2, <1>4, UpstreamLeast
<1>6. QED
  BY <1>5

\* No node is upstream of what it uses.
LEMMA NotUpstreamOfDependency ==
  ASSUME NEW n \in Nodes, NEW d \in NodeDeps[n]
  PROVE  n \notin Upstream[d]
<1> SUFFICES ASSUME n \in Upstream[d]
             PROVE  FALSE
  OBVIOUS
<1> DEFINE Cycle == {m \in Upstream[d] : n \in Upstream[m]}
<1>1. d \in Nodes /\ d \in Cycle /\ Cycle \in SUBSET Nodes
  BY GraphAssumption, UpstreamClosed
<1>2. PICK m \in Cycle : NodeDeps[m] \cap Cycle = {}
  BY <1>1, GraphAssumption DEF Acyclic
<1>3. m # n
  BY <1>1, <1>2
<1>4. PICK e \in NodeDeps[m] : n \in Upstream[e]
  BY <1>1, <1>2, <1>3, UpstreamUnfold
<1>5. e \in Upstream[d]
  BY <1>1, <1>2, <1>4, UpstreamClosed DEF DependencyClosed
<1>6. QED
  BY <1>2, <1>4, <1>5

LEMMA InputIsUpstream ==
  ASSUME NEW k \in Nodes, NEW m \in Upstream[k], NEW n \in NodeDeps[m]
  PROVE  n \in Upstream[k] /\ n # k
<1>1. m \in Nodes /\ n \in Upstream[k]
  BY UpstreamClosed DEF DependencyClosed
<1>2. QED
  BY <1>1, NotUpstreamOfDependency

------------------------------------------------------------------------------
(* Labels *)

LEMMA EmitType ==
  ASSUME NEW labels \in [Nodes -> Labels], NEW kind \in EventKinds, NEW S
  PROVE  Emit(labels, kind, S) \in [Nodes -> Labels]
BY DEF Emit, NextLabel, Labels, EventKinds

------------------------------------------------------------------------------
(* Type correctness *)

LEMMA TaskStepType ==
  ASSUME TaskTypeOK, NEW k \in Scheduled, TaskStep(k)
  PROVE  TaskTypeOK'
<1> USE DEF TaskTypeOK, Go, Ends, Running, EventKinds
<1>0. k[2] \in Nodes /\ Upstream[k[2]] \subseteq Nodes
  BY DEF Scheduled, Upstream
<1>1. CASE MissTarget(k)
  BY <1>0, <1>1, UpstreamClosed DEF MissTarget
<1>2. CASE HitTarget(k)
  <2>1. label' \in [Nodes -> Labels]
    BY <1>2, EmitType DEF HitTarget
  <2>2. QED
    BY <1>2, <2>1 DEF HitTarget
<1>3. ASSUME NEW n \in Nodes, StartBody(k, n)
      PROVE  TaskTypeOK'
  <2>1. label' \in [Nodes -> Labels]
    BY <1>3, EmitType DEF StartBody
  <2>2. QED
    BY <1>3, <2>1 DEF StartBody, Resolving
<1>4. ASSUME NEW n \in Nodes, LookUpInput(k, n)
      PROVE  /\ n \in Upstream[k[2]]
             /\ held' \in [Scheduled -> SUBSET Nodes]
             /\ \A j \in Scheduled : held'[j] \subseteq Upstream[j[2]]
  <2>1. n \in Upstream[k[2]]
    BY <1>0, <1>4, InputIsUpstream DEF LookUpInput, Resolving
  <2>2. QED
    BY <1>4, <2>1 DEF LookUpInput
<1>4a. ASSUME NEW n \in Nodes, MissInput(k, n)
       PROVE  TaskTypeOK'
  BY <1>4, <1>4a DEF MissInput
<1>4b. ASSUME NEW n \in Nodes, RestoreInput(k, n)
       PROVE  TaskTypeOK'
  BY <1>4, <1>4b DEF RestoreInput
<1>5. CASE SaveInput(k)
  <2>1. label' \in [Nodes -> Labels]
    BY <1>5, EmitType DEF SaveInput
  <2>2. QED
    BY <1>0, <1>5, <2>1 DEF SaveInput
<1>6. CASE InputRestored(k)
  <2>1. label' \in [Nodes -> Labels]
    BY <1>6, EmitType DEF InputRestored
  <2>2. values' \in [Scheduled -> SUBSET Nodes]
    BY <1>0, <1>6 DEF InputRestored
  <2>3. QED
    BY <1>6, <2>1, <2>2 DEF InputRestored
<1>7. CASE TargetPasses(k)
  <2>1. label' \in [Nodes -> Labels]
    BY <1>7, EmitType DEF TargetPasses
  <2>2. QED
    BY <1>0, <1>7, <2>1 DEF TargetPasses
<1>8. CASE TargetExpectedFailure(k)
  <2>1. label' \in [Nodes -> Labels]
    BY <1>8, EmitType DEF TargetExpectedFailure
  <2>2. QED
    BY <1>0, <1>8, <2>1, ZenonT(30) DEF TargetExpectedFailure
<1>9. CASE Fail(k) \/ Cancelled(k) \/ CancelledInStart(k)
  <2>1. label' \in [Nodes -> Labels]
    BY <1>9, EmitType DEF Fail, Cancelled, CancelledInStart
  <2>2. QED
    BY <1>0, <1>9, <2>1 DEF Fail, Cancelled, CancelledInStart
<1>10. QED
  BY <1>1, <1>2, <1>3, <1>4a, <1>4b, <1>5, <1>6, <1>7, <1>8, <1>9 DEF TaskStep

LEMMA FailureLabelsType ==
  ASSUME TypeOK, NEW k \in Scheduled
  PROVE  FailureLabels(k) \in [Nodes -> Labels]
BY EmitType DEF FailureLabels, TypeOK, TaskTypeOK, EventKinds

LEMMA ReportType ==
  ASSUME TypeOK, NEW k \in Scheduled, NEW s \in Statuses, NEW C, Report(k, s, C)
  PROVE  report' \in [Scheduled -> Seq(Statuses)]
<1>1. ASSUME NEW j \in Scheduled, NEW v \in Statuses
      PROVE  Append(report[j], v) \in Seq(Statuses)
  BY DEF TypeOK
<1>2. QED
  BY <1>1 DEF Report, TypeOK

\* The command line's options hold for the whole run.
LEMMA OptionsFixed ==
  ASSUME [Next]_vars
  PROVE  UNCHANGED options
BY DEF Next, SchedulerStep, RunStep, Interrupt, Terminated, options, vars

LEMMA NextType ==
  ASSUME TypeOK, [Next]_vars
  PROVE  TypeOK'
<1> USE DEF TypeOK
<1> forced' \in BOOLEAN /\ keepGoing' \in BOOLEAN
  BY OptionsFixed DEF options
<1>1. ASSUME NEW k \in Scheduled, Launch(k)
      PROVE  TypeOK'
  BY <1>1 DEF Launch, Ready, Go, TaskTypeOK
<1>2. ASSUME NEW k \in Scheduled, ProcessPass(k)
      PROVE  TypeOK'
  <2>1. label' \in [Nodes -> Labels]
    BY <1>2, EmitType DEF ProcessPass, TaskTypeOK, EventKinds
  <2>2. TaskTypeOK'
    BY <1>2, <2>1 DEF ProcessPass, TaskTypeOK
  <2>3. report' \in [Scheduled -> Seq(Statuses)]
    BY <1>2, ReportType DEF ProcessPass
  <2>4. QED
    BY <1>2, <2>2, <2>3 DEF ProcessPass, TakeDone, NextDone
<1>3. ASSUME NEW k \in Scheduled, ProcessXfail(k)
      PROVE  TypeOK'
  <2>1. label' \in [Nodes -> Labels]
    BY <1>3, EmitType DEF ProcessXfail, CancelConsumers, TaskTypeOK, EventKinds
  <2>2. TaskTypeOK'
    BY <1>3, <2>1 DEF ProcessXfail, TaskTypeOK
  <2>3. report' \in [Scheduled -> Seq(Statuses)]
    BY <1>3, ReportType DEF ProcessXfail
  <2>4. QED
    BY <1>3, <2>2, <2>3 DEF ProcessXfail, TakeDone, NextDone
<1>4. ASSUME NEW k \in Scheduled, ProcessFailure(k)
      PROVE  TypeOK'
  <2>1. label' \in [Nodes -> Labels]
    BY <1>4, EmitType, FailureLabelsType
    DEF ProcessFailure, CancelConsumers, EventKinds
  <2>2. TaskTypeOK'
    BY <1>4, <2>1 DEF ProcessFailure, TaskTypeOK
  <2>3. report' \in [Scheduled -> Seq(Statuses)]
    BY <1>4, ReportType DEF ProcessFailure, FailureStatus
  <2>4. QED
    BY <1>4, <2>2, <2>3 DEF ProcessFailure, TakeDone, NextDone, RecordFailure
<1>5. ASSUME NEW k \in Scheduled, ProcessFailFast(k)
      PROVE  TypeOK'
  <2>1. label' \in [Nodes -> Labels]
    BY <1>5, EmitType, FailureLabelsType DEF ProcessFailFast, EventKinds
  <2>2. TaskTypeOK'
    BY <1>5, <2>1 DEF ProcessFailFast, TakeDone, TaskTypeOK
  <2>3. report' \in [Scheduled -> Seq(Statuses)]
    BY <1>5, ReportType DEF ProcessFailFast, FailureStatus
  <2>4. QED
    BY <1>5, <2>2, <2>3 DEF ProcessFailFast, TakeDone, RecordFailure
<1>6. ASSUME NEW k \in Scheduled, ProcessCrash(k)
      PROVE  TypeOK'
  BY <1>6 DEF ProcessCrash, TakeDone, TaskTypeOK
<1>7. CASE Wait \/ Leave \/ Collect \/ ReturnFailFast
             \/ Unwind \/ Terminated \/ UNCHANGED vars
  BY <1>7 DEF Wait, Leave, Collect, ReturnFailFast, Unwind,
              Terminated, vars, schedulerVars, taskVars, TaskTypeOK
<1>8. CASE Interrupt
  BY <1>8 DEF Interrupt, TaskTypeOK
<1>9. ASSUME NEW k \in Scheduled, RunStep(k)
      PROVE  TypeOK'
  BY <1>9, TaskStepType DEF RunStep, schedulerVars
<1>10. QED
  BY <1>1, <1>2, <1>3, <1>4, <1>5, <1>6, <1>7, <1>8, <1>9
  DEF Next, SchedulerStep

LEMMA InitType == Init => TypeOK
BY TaskAssumption DEF Init, TaskInit, TypeOK, TaskTypeOK, Labels

(***************************************************************************)
(* Every variable of the scheduler and of its tasks keeps its type, and a  *)
(* busy task is busy with its own node or with something upstream of it    *)
(* (scheduler.py:45-78, executor.py:136-142).                              *)
(***************************************************************************)
THEOREM TypeCorrect == Spec => []TypeOK
BY InitType, NextType, PTL DEF Spec

------------------------------------------------------------------------------
(* Keys, their dependencies and what cancel_failed_descendants reaches *)

LEMMA DepsScheduled ==
  ASSUME NEW k \in Scheduled, NEW d \in Deps[k]
  PROVE  /\ d \in Scheduled /\ d # k
         /\ d \in UpstreamKeys(k)
         /\ UpstreamKeys(d) \subseteq UpstreamKeys(k)
<1>1. PICK t \in Targets : k[1] = t[1] /\ k[2] \in Upstream[t[2]]
  BY DEF Scheduled
<1>2. k \in Files \X Nodes /\ t \in Files \X Nodes
  BY TaskAssumption DEF Scheduled
<1>3. PICK n \in NodeDeps[k[2]] : d = <<k[1], n>>
  BY DEF Deps
<1>4. n \in Nodes /\ n # k[2] /\ Upstream[n] \subseteq Upstream[k[2]]
  BY <1>2, <1>3, UpstreamOfDependency
<1>5. n \in Upstream[n] /\ Upstream[k[2]] \subseteq Upstream[t[2]]
  BY <1>1, <1>2, <1>4, UpstreamClosed, UpstreamTransitive
<1>6. k[2] \notin Upstream[n]
  BY <1>2, <1>3, NotUpstreamOfDependency
<1>7. QED
  BY <1>1, <1>2, <1>3, <1>4, <1>5, <1>6 DEF Scheduled, UpstreamKeys

LEMMA UpstreamKeysScheduled ==
  ASSUME NEW k \in Scheduled
  PROVE  UpstreamKeys(k) \subseteq Scheduled
<1>1. PICK t \in Targets : k[1] = t[1] /\ k[2] \in Upstream[t[2]]
  BY DEF Scheduled
<1>2. k \in Files \X Nodes /\ t \in Files \X Nodes
  BY TaskAssumption DEF Scheduled
<1>3. Upstream[k[2]] \subseteq Upstream[t[2]] /\ Upstream[k[2]] \subseteq Nodes
  BY <1>1, <1>2, UpstreamTransitive, UpstreamClosed
<1>4. QED
  BY <1>1, <1>2, <1>3 DEF Scheduled, UpstreamKeys

\* No set of keys has all its members waiting for one another.
LEMMA KeysWellFounded ==
  ASSUME NEW S \in SUBSET Scheduled, S # {}
  PROVE  \E k \in S : Deps[k] \cap S = {}
<1>1. PICK k0 \in S : k0 \in Files \X Nodes
  BY DEF Scheduled
<1> DEFINE N == {n \in Nodes : <<k0[1], n>> \in S}
<1>2. N # {}
  BY <1>1
<1>3. PICK n \in N : NodeDeps[n] \cap N = {}
  BY <1>2, GraphAssumption DEF Acyclic
<1>4. Deps[<<k0[1], n>>] = {<<k0[1], m>> : m \in NodeDeps[n]}
  BY <1>3 DEF Deps
<1>5. NodeDeps[n] \subseteq Nodes
  BY GraphAssumption
<1>6. Deps[<<k0[1], n>>] \cap S = {}
  BY <1>3, <1>4, <1>5
<1>7. QED
  BY <1>3, <1>6

LEMMA BlockedClosed ==
  ASSUME NEW k
  PROVE  Blocked(k) \subseteq pending /\ BlockedBy(k, Blocked(k))
<1>1. ASSUME NEW c \in pending, Deps[c] \cap ({k} \cup Blocked(k)) # {},
             NEW B \in SUBSET pending, BlockedBy(k, B)
      PROVE  c \in B
  <2>1. Blocked(k) \subseteq B
    BY <1>1 DEF Blocked
  <2>2. QED
    BY <1>1, <2>1 DEF BlockedBy
<1>2. QED
  BY <1>1 DEF Blocked, BlockedBy

\* cancel_failed_descendants removes only keys that depend on k.
LEMMA BlockedAreConsumers ==
  ASSUME TypeOK, NEW k \in Scheduled, NEW c \in Blocked(k)
  PROVE  k \in UpstreamKeys(c)
<1> DEFINE B == {x \in pending : k \in UpstreamKeys(x)}
<1>1. ASSUME NEW x \in pending, Deps[x] \cap ({k} \cup B) # {}
      PROVE  x \in B
  <2>1. PICK d \in Deps[x] : d = k \/ d \in B
    BY <1>1
  <2>2. d \in UpstreamKeys(x) /\ UpstreamKeys(d) \subseteq UpstreamKeys(x)
    BY DepsScheduled DEF TypeOK
  <2>3. QED
    BY <2>1, <2>2
<1>2. BlockedBy(k, B)
  BY <1>1 DEF BlockedBy
<1>3. QED
  BY <1>2 DEF Blocked

------------------------------------------------------------------------------
(* The inductive invariant *)

LEMMA InitInv == Init => SchedulerInv
<1> SUFFICES ASSUME Init
             PROVE  SchedulerInv
  OBVIOUS
<1>1. TypeOK
  BY InitType
<1>2. KeysAccounted
  BY DEF Init, TaskInit, KeysAccounted
<1>3. BooksBalance
  BY DEF Init, BooksBalance, Verdict
<1>4. InputsDecide
  BY DepsScheduled DEF Init, InputsDecide, Verdict, Ran
<1>5. EndsWell
  BY DEF Init, EndsWell, Over
<1>6. QED
  BY <1>1, <1>2, <1>3, <1>4, <1>5 DEF SchedulerInv

(***************************************************************************)
(* What one round of row-writing does to the verdicts: k gets the status,  *)
(* the cancelled keys get CANCEL, and no other verdict changes.            *)
(***************************************************************************)
LEMMA VerdictsAfterReport ==
  ASSUME SchedulerInv, NEW k \in running, NEW s \in Statuses,
         NEW C \in SUBSET pending, Report(k, s, C)
  PROVE  /\ \A j \in Scheduled :
              report'[j] = IF j = k THEN <<s>>
                           ELSE IF j \in C THEN <<"CANCEL">> ELSE report[j]
         /\ \A j \in Scheduled :
              Verdict(j)' = IF j = k THEN s
                            ELSE IF j \in C THEN "CANCEL" ELSE Verdict(j)
         /\ Verdict(k) = "none" /\ \A j \in pending : Verdict(j) = "none"
<1>1. k \in Scheduled /\ C \subseteq Scheduled /\ pending \subseteq Scheduled
  BY DEF SchedulerInv, TypeOK
<1>2. report[k] = <<>> /\ \A j \in pending : report[j] = <<>>
  BY DEF SchedulerInv, KeysAccounted
<1>3. \A v \in Statuses : Append(<<>>, v) = <<v>>
  OBVIOUS
<1>4. \A j \in Scheduled :
         report'[j] = IF j = k THEN <<s>>
                      ELSE IF j \in C THEN <<"CANCEL">> ELSE report[j]
  BY <1>1, <1>2, <1>3 DEF Report
<1>5. QED
  BY <1>1, <1>2, <1>4 DEF Verdict

(***************************************************************************)
(* The steps that write the row of an ended task and go on with the loop.  *)
(***************************************************************************)
LEMMA SettleInv ==
  ASSUME SchedulerInv, TypeOK', NEW k \in Scheduled, TakeDone(k),
         NEW s \in Ran,
         NEW C, C = IF s = "PASS" THEN {} ELSE Blocked(k),
         Report(k, s, C),
         pending' = pending \ C,
         stage' = stage,
         completed' = IF s \in {"PASS", "XFAIL"} THEN completed \cup {k}
                      ELSE completed,
         (failed \cup unexpectedPasses)' =
           IF s \in {"FAIL", "XPASS"} THEN failed \cup unexpectedPasses \cup {k}
           ELSE failed \cup unexpectedPasses,
         phase' \in {"launch", "process"},
         exitCode' = exitCode
  PROVE  SchedulerInv'
<1>1. k \in running /\ k \notin pending /\ Going /\ Going'
  BY DEF TakeDone, SchedulerInv, TypeOK, KeysAccounted, Going
<1>2. C \in SUBSET pending /\ k \notin C /\ s \in Statuses /\ pending \subseteq Scheduled
  BY <1>1, BlockedClosed DEF Ran, SchedulerInv, TypeOK
<1>3. /\ \A j \in Scheduled :
           report'[j] = IF j = k THEN <<s>>
                        ELSE IF j \in C THEN <<"CANCEL">> ELSE report[j]
      /\ \A j \in Scheduled :
           Verdict(j)' = IF j = k THEN s
                         ELSE IF j \in C THEN "CANCEL" ELSE Verdict(j)
      /\ Verdict(k) = "none" /\ \A j \in pending : Verdict(j) = "none"
  BY <1>1, <1>2, VerdictsAfterReport
<1>4. KeysAccounted'
  <2>1. running' = running \ {k} /\ done' = done \ {k}
    BY DEF TakeDone
  <2>2. \A j \in running' : j \in Scheduled /\ j # k /\ j \notin C
    BY <1>2, <2>1 DEF SchedulerInv, TypeOK, KeysAccounted
  <2>3. \A j \in Scheduled : stage[j] \in Live => j \in running'
    BY <2>1 DEF SchedulerInv, KeysAccounted, TakeDone, Settled
  <2>4. \A j \in Scheduled :
           report'[j] = <<>> \/ \E v \in Statuses : report'[j] = <<v>>
    BY <1>2, <1>3 DEF SchedulerInv, KeysAccounted
  <2>5. \A j \in Scheduled : report'[j] = <<>> => j \in pending' \cup running'
    <3>1. <<s>> # <<>> /\ <<"CANCEL">> # <<>>
      OBVIOUS
    <3>2. QED
      BY <1>1, <1>3, <2>1, <3>1 DEF SchedulerInv, KeysAccounted
  <2>6. \A j \in pending' : stage[j] = "unstarted" /\ report'[j] = <<>>
                                /\ j \notin running'
    BY <1>1, <1>2, <1>3, <2>1 DEF SchedulerInv, KeysAccounted
  <2>7. \A j \in running' : stage[j] # "unstarted" /\ report'[j] = <<>>
    BY <1>3, <2>1, <2>2 DEF SchedulerInv, KeysAccounted
  <2>8. \A j \in done' : stage[j] \in Outcomes
    BY <2>1 DEF SchedulerInv, KeysAccounted, Settled
  <2>9. QED
    BY <2>3, <2>4, <2>5, <2>6, <2>7, <2>8 DEF KeysAccounted, Settled, Going
<1>5. BooksBalance'
  BY <1>2, <1>3 DEF SchedulerInv, BooksBalance, Ran
<1>6. ASSUME NEW j \in Scheduled, (j \in running \/ Verdict(j) \in Ran)',
             NEW d \in Deps[j]
      PROVE  Verdict(d)' = "PASS"
  <2>1. j \in running \/ Verdict(j) \in Ran
    BY <1>1, <1>3, <1>6 DEF TakeDone, Ran
  <2>2. d \in Scheduled /\ Verdict(d) = "PASS"
    BY <2>1, DepsScheduled DEF SchedulerInv, InputsDecide
  <2>3. QED
    BY <1>2, <1>3, <2>2
<1>7. ASSUME NEW j \in pending', NEW d \in Deps[j]
      PROVE  (d \in pending \cup running \/ Verdict(d) = "PASS")'
  <2>1. j \in Scheduled /\ j \in pending /\ j \notin C
    BY <1>7 DEF SchedulerInv, TypeOK
  <2>2. d \in Scheduled /\ (d \in pending \cup running \/ Verdict(d) = "PASS")
    BY <1>1, <2>1, DepsScheduled DEF SchedulerInv, InputsDecide
  <2>3. CASE s = "PASS"
    BY <1>2, <1>3, <2>2, <2>3 DEF TakeDone
  <2>4. CASE s # "PASS"
    <3>1. d # k /\ d \notin C
      BY <2>1, <2>4, BlockedClosed DEF BlockedBy
    <3>2. QED
      BY <1>2, <1>3, <2>2, <3>1 DEF TakeDone
  <2>5. QED
    BY <2>3, <2>4
<1>8. ASSUME NEW j \in Scheduled, Verdict(j)' = "CANCEL"
      PROVE  \E u \in UpstreamKeys(j) : Verdict(u)' \in {"FAIL", "XFAIL", "XPASS"}
  <2>1. CASE j \in C
    <3>1. k \in UpstreamKeys(j) /\ s # "PASS"
      BY <2>1, BlockedAreConsumers DEF SchedulerInv
    <3>2. QED
      BY <1>3, <3>1 DEF Ran
  <2>2. CASE j \notin C
    <3>1. PICK u \in UpstreamKeys(j) : Verdict(u) \in {"FAIL", "XFAIL", "XPASS"}
      BY <1>3, <1>8, <2>2 DEF SchedulerInv, InputsDecide, Ran
    <3>2. u \in Scheduled
      BY <3>1, UpstreamKeysScheduled
    <3>3. QED
      BY <1>2, <1>3, <3>1, <3>2
  <2>3. QED
    BY <2>1, <2>2
<1>9. InputsDecide'
  BY <1>6, <1>7, <1>8 DEF InputsDecide, UpstreamKeys, Deps
<1>10. EndsWell'
  BY <1>3 DEF EndsWell, Over
<1>11. QED
  BY <1>4, <1>5, <1>9, <1>10 DEF SchedulerInv

LEMMA TaskStepFrame ==
  ASSUME TaskTypeOK, NEW k \in Scheduled, TaskStep(k)
  PROVE  /\ stage[k] \in Live
         /\ \E st \in Live \cup Outcomes : stage' = [stage EXCEPT ![k] = st]
<1>1. stage[k] \in Live
  BY DEF TaskStep, MissTarget, HitTarget, MissInput, RestoreInput, LookUpInput,
         StartBody, Resolving, SaveInput, InputRestored, TargetPasses,
         TargetExpectedFailure, Fail, Cancelled, CancelledInStart, Running
<1>2. \/ UNCHANGED stage
      \/ \E st \in Live \cup Outcomes : stage' = [stage EXCEPT ![k] = st]
  BY DEF TaskStep, MissTarget, HitTarget, MissInput, RestoreInput, StartBody,
         SaveInput, InputRestored, TargetPasses, TargetExpectedFailure, Fail,
         Cancelled, CancelledInStart, Go, Ends
<1>3. UNCHANGED stage => stage' = [stage EXCEPT ![k] = stage[k]]
  BY DEF TaskTypeOK
<1>4. QED
  BY <1>1, <1>2, <1>3

\* A task's own step moves only its stage, from a live one.
LEMMA RunStepInv ==
  ASSUME SchedulerInv, TypeOK', NEW k \in Scheduled, RunStep(k)
  PROVE  SchedulerInv'
<1>1. PICK st \in Live \cup Outcomes :
         stage[k] \in Live /\ stage' = [stage EXCEPT ![k] = st]
  BY TaskStepFrame DEF RunStep, SchedulerInv, TypeOK
<1>2. UNCHANGED <<schedulerVars, keepGoing>>
  BY DEF RunStep, options
<1>3. stage \in [Scheduled -> {"unstarted"} \cup Live \cup Outcomes]
         /\ pending \subseteq Scheduled /\ running \subseteq Scheduled
         /\ done \subseteq running
  BY DEF SchedulerInv, TypeOK, TaskTypeOK
<1>4. KeysAccounted'
  BY <1>1, <1>2, <1>3
  DEF SchedulerInv, KeysAccounted, Settled, Going, schedulerVars
<1>5. BooksBalance' /\ InputsDecide' /\ EndsWell'
  BY <1>2 DEF SchedulerInv, BooksBalance, InputsDecide, EndsWell, Verdict,
              UpstreamKeys, Deps, Going, Over, schedulerVars
<1>6. QED
  BY <1>4, <1>5 DEF SchedulerInv

LEMMA LaunchInv ==
  ASSUME SchedulerInv, TypeOK', NEW k \in Scheduled, Launch(k)
  PROVE  SchedulerInv'
<1>1. k \in pending /\ k \notin running /\ Going /\ report[k] = <<>>
  BY DEF Launch, Ready, Going, SchedulerInv, KeysAccounted
<1>2. UNCHANGED <<done, completed, failed, unexpectedPasses, report, phase, exitCode>>
         /\ running' = running \cup {k} /\ pending' = pending \ {k}
         /\ stage' = [stage EXCEPT ![k] = "load"]
  BY DEF Launch, Go
<1>3. stage \in [Scheduled -> {"unstarted"} \cup Live \cup Outcomes]
         /\ pending \subseteq Scheduled /\ running \subseteq Scheduled
         /\ done \subseteq running
  BY DEF SchedulerInv, TypeOK, TaskTypeOK
<1>4. \A j \in Scheduled : Verdict(j)' = Verdict(j)
  BY <1>2 DEF Verdict
<1>5. KeysAccounted'
  BY <1>1, <1>2, <1>3 DEF SchedulerInv, KeysAccounted, Settled, Going
<1>6. BooksBalance'
  BY <1>2, <1>4 DEF SchedulerInv, BooksBalance
<1>7. ASSUME NEW d \in Deps[k]
      PROVE  Verdict(d) = "PASS"
  <2>1. d \in Scheduled /\ d \in completed
    BY <1>7, DepsScheduled DEF Launch, Ready
  <2>2. Verdict(d) # "none"
    BY <2>1 DEF SchedulerInv, BooksBalance
  <2>3. d \notin pending \cup running
    BY <2>2 DEF SchedulerInv, KeysAccounted, Verdict
  <2>4. QED
    BY <1>1, <1>7, <2>3 DEF SchedulerInv, InputsDecide
<1>8. InputsDecide'
  <2>1. \A j \in Scheduled : j \in running' \/ Verdict(j) \in Ran =>
          \A d \in Deps[j] : Verdict(d) = "PASS"
    BY <1>2, <1>7 DEF SchedulerInv, InputsDecide
  <2>2. \A j \in pending' : \A d \in Deps[j] :
          d \in pending' \cup running' \/ Verdict(d) = "PASS"
    BY <1>1, <1>2 DEF SchedulerInv, InputsDecide
  <2>3. \A j \in Scheduled : \A d \in Deps[j] : d \in Scheduled
    BY DepsScheduled
  <2>4. \A j \in Scheduled : \A u \in UpstreamKeys(j) : u \in Scheduled
    BY UpstreamKeysScheduled
  <2>5. \A j \in Scheduled : Verdict(j)' = "CANCEL" =>
          \E u \in UpstreamKeys(j) : Verdict(u)' \in {"FAIL", "XFAIL", "XPASS"}
    BY <1>4, <2>4 DEF SchedulerInv, InputsDecide
  <2>6. QED
    BY <1>3, <1>4, <2>1, <2>2, <2>3, <2>5, <1>2 DEF InputsDecide, UpstreamKeys, Deps
<1>9. EndsWell'
  BY <1>1, <1>2 DEF SchedulerInv, EndsWell, Over, Going
<1>10. QED
  BY <1>5, <1>6, <1>8, <1>9 DEF SchedulerInv

\* The first failure under --fail-fast writes one row and starts the gather.
LEMMA FailFastInv ==
  ASSUME SchedulerInv, TypeOK', UNCHANGED keepGoing, NEW k \in Scheduled,
         ProcessFailFast(k)
  PROVE  SchedulerInv'
<1>1. k \in running /\ k \notin pending
  BY DEF ProcessFailFast, TakeDone, SchedulerInv, TypeOK, KeysAccounted
<1>2. FailureStatus(k) \in {"FAIL", "XPASS"} /\ FailureStatus(k) \in Statuses
  BY DEF FailureStatus
<1>3. /\ \A j \in Scheduled :
           report'[j] = IF j = k THEN <<FailureStatus(k)>> ELSE report[j]
      /\ \A j \in Scheduled :
           Verdict(j)' = IF j = k THEN FailureStatus(k) ELSE Verdict(j)
      /\ Verdict(k) = "none"
  <2>1. Report(k, FailureStatus(k), {})
    BY DEF ProcessFailFast
  <2>2. QED
    BY <1>1, <1>2, <2>1, VerdictsAfterReport
<1>4. /\ running' = running \ {k} /\ done' = done \ {k}
      /\ phase' = "gather" /\ ~keepGoing
      /\ UNCHANGED <<stage, pending, completed, exitCode>>
      /\ (failed \cup unexpectedPasses)' = failed \cup unexpectedPasses \cup {k}
  BY DEF ProcessFailFast, TakeDone, RecordFailure
<1>5. pending \subseteq Scheduled /\ running \subseteq Scheduled
  BY DEF SchedulerInv, TypeOK
<1>6. KeysAccounted'
  <2>1. \A j \in Scheduled : stage[j] \in Live => j \in running'
    BY <1>4 DEF SchedulerInv, KeysAccounted, ProcessFailFast, TakeDone, Settled
  <2>2. \A j \in Scheduled :
           report'[j] = <<>> \/ \E v \in Statuses : report'[j] = <<v>>
    BY <1>2, <1>3 DEF SchedulerInv, KeysAccounted
  <2>3. ~Going'
    BY <1>4 DEF Going
  <2>4. \A j \in done' : stage[j] \in Outcomes
    BY <1>4 DEF SchedulerInv, KeysAccounted, Settled
  <2>5. \A j \in pending : stage[j] = "unstarted" /\ report'[j] = <<>>
                                /\ j \notin running'
    BY <1>1, <1>3, <1>4, <1>5 DEF SchedulerInv, KeysAccounted
  <2>6. \A j \in running' : stage[j] # "unstarted" /\ report'[j] = <<>>
    BY <1>3, <1>4, <1>5 DEF SchedulerInv, KeysAccounted
  <2>7. QED
    BY <1>4, <2>1, <2>2, <2>3, <2>4, <2>5, <2>6 DEF KeysAccounted, Settled
<1>7. BooksBalance'
  BY <1>2, <1>3, <1>4 DEF SchedulerInv, BooksBalance
<1>8. ASSUME NEW j \in Scheduled, (j \in running \/ Verdict(j) \in Ran)',
             NEW d \in Deps[j]
      PROVE  Verdict(d)' = "PASS"
  <2>1. j \in running \/ Verdict(j) \in Ran
    BY <1>1, <1>3, <1>4, <1>8 DEF Ran
  <2>2. d \in Scheduled /\ Verdict(d) = "PASS"
    BY <2>1, DepsScheduled DEF SchedulerInv, InputsDecide
  <2>3. QED
    BY <1>3, <2>2
<1>9. ASSUME NEW j \in Scheduled, Verdict(j)' = "CANCEL"
      PROVE  \E u \in UpstreamKeys(j) : Verdict(u)' \in {"FAIL", "XFAIL", "XPASS"}
  <2>1. PICK u \in UpstreamKeys(j) : Verdict(u) \in {"FAIL", "XFAIL", "XPASS"}
    BY <1>2, <1>3, <1>9 DEF SchedulerInv, InputsDecide
  <2>2. QED
    BY <1>3, <2>1, UpstreamKeysScheduled
<1>10. InputsDecide'
  BY <1>4, <1>8, <1>9 DEF InputsDecide, UpstreamKeys, Deps, Going
<1>11. EndsWell'
  BY <1>4 DEF EndsWell, Over
<1>12. QED
  BY <1>6, <1>7, <1>10, <1>11 DEF SchedulerInv

\* The loop never gives up with keys that nothing will release.
LEMMA NothingStranded ==
  ASSUME SchedulerInv, LaunchesNoMore, running = {}
  PROVE  pending = {}
<1> SUFFICES ASSUME pending # {}
             PROVE  FALSE
  OBVIOUS
<1>1. pending \in SUBSET Scheduled /\ pending # {} /\ running = {} /\ Going
  BY DEF LaunchesNoMore, SchedulerInv, TypeOK, Going
<1>2. PICK k \in pending : Deps[k] \cap pending = {}
  BY <1>1, KeysWellFounded
<1>3. ASSUME NEW d \in Deps[k]
      PROVE  d \in completed
  <2>1. d \in Scheduled /\ Verdict(d) = "PASS"
    BY <1>1, <1>2, DepsScheduled DEF SchedulerInv, InputsDecide
  <2>2. QED
    BY <2>1 DEF SchedulerInv, BooksBalance
<1>4. Ready # {}
  BY <1>2, <1>3 DEF Ready
<1>5. Cardinality(running) # Jobs
  BY <1>1, FS_EmptySet, SchedulerAssumption
<1>6. QED
  BY <1>4, <1>5 DEF LaunchesNoMore

\* Steps that write no row and start no task.
LEMMA QuietInv ==
  ASSUME SchedulerInv, TypeOK', UNCHANGED keepGoing,
         Wait \/ Leave \/ Collect \/ ReturnFailFast \/ Unwind \/ Interrupt
           \/ Terminated \/ UNCHANGED vars \/ \E k \in Scheduled : ProcessCrash(k)
  PROVE  SchedulerInv'
<1> USE DEF SchedulerInv
<1>1. UNCHANGED <<stage, pending, completed, failed, unexpectedPasses, report>>
  BY DEF Wait, Leave, Collect, ReturnFailFast, Unwind, Interrupt, Terminated,
         ProcessCrash, vars, taskVars, schedulerVars
<1>2. \A j \in Scheduled : Verdict(j)' = Verdict(j)
  BY <1>1 DEF Verdict
<1>3. /\ running' \subseteq running
      /\ Going' => Going /\ running' = running
      /\ \A j \in running : stage[j] \in Live => j \in running'
      /\ \A j \in done' : Settled(j)
  BY DEF Wait, Leave, Collect, ReturnFailFast, Unwind, Interrupt, Terminated,
         ProcessCrash, TakeDone, LaunchesNoMore, AllSettled, Settled, Going,
         vars, schedulerVars, KeysAccounted, TypeOK
<1>4. KeysAccounted'
  BY <1>1, <1>3 DEF KeysAccounted, Settled
<1>5. BooksBalance'
  BY <1>1, <1>2 DEF BooksBalance
<1>6. InputsDecide'
  <2>1. \A j \in Scheduled : \A d \in Deps[j] : d \in Scheduled
    BY DepsScheduled
  <2>2. \A j \in Scheduled : j \in running' \/ Verdict(j)' \in Ran =>
          \A d \in Deps[j] : Verdict(d)' = "PASS"
    BY <1>2, <1>3, <2>1 DEF InputsDecide
  <2>3. Going' => \A j \in pending' : \A d \in Deps[j] :
          d \in pending' \cup running' \/ Verdict(d)' = "PASS"
    BY <1>1, <1>2, <1>3, <2>1 DEF InputsDecide, TypeOK
  <2>4. \A j \in Scheduled : Verdict(j)' = "CANCEL" =>
          \E u \in UpstreamKeys(j) : Verdict(u)' \in {"FAIL", "XFAIL", "XPASS"}
    BY <1>2, UpstreamKeysScheduled DEF InputsDecide
  <2>5. QED
    BY <2>2, <2>3, <2>4 DEF InputsDecide, UpstreamKeys, Deps
<1>7. EndsWell'
  <2>1. CASE Leave
    BY <2>1, NothingStranded
    DEF Leave, LaunchesNoMore, EndsWell, Over, KeysAccounted, Going
  <2>2. CASE ~Leave
    BY <1>1, <2>2
    DEF Wait, Collect, ReturnFailFast, Unwind, Interrupt, Terminated, ProcessCrash,
        TakeDone, LaunchesNoMore, EndsWell, Over, vars, schedulerVars
  <2>3. QED
    BY <2>1, <2>2
<1>8. QED
  BY <1>4, <1>5, <1>6, <1>7

LEMMA NextInv == SchedulerInv /\ [Next]_vars => SchedulerInv'
<1> SUFFICES ASSUME SchedulerInv, [Next]_vars
             PROVE  SchedulerInv'
  OBVIOUS
<1> UNCHANGED keepGoing
  BY OptionsFixed DEF options
<1> TypeOK'
  BY NextType DEF SchedulerInv
<1>1. ASSUME NEW k \in Scheduled, ProcessPass(k)
      PROVE  SchedulerInv'
  <2>1. Report(k, "PASS", {}) /\ TakeDone(k) /\ "PASS" \in Ran
    BY <1>1 DEF ProcessPass, Ran
  <2>2. QED
    BY <1>1, <2>1, SettleInv DEF ProcessPass, NextDone
<1>2. ASSUME NEW k \in Scheduled, ProcessXfail(k)
      PROVE  SchedulerInv'
  <2>1. Report(k, "XFAIL", Blocked(k)) /\ TakeDone(k) /\ "XFAIL" \in Ran
    BY <1>2 DEF ProcessXfail, Ran
  <2>2. QED
    BY <1>2, <2>1, SettleInv DEF ProcessXfail, NextDone
<1>3. ASSUME NEW k \in Scheduled, ProcessFailure(k)
      PROVE  SchedulerInv'
  <2>1. /\ Report(k, FailureStatus(k), Blocked(k)) /\ TakeDone(k)
        /\ FailureStatus(k) \in Ran /\ FailureStatus(k) \in {"FAIL", "XPASS"}
    BY <1>3 DEF ProcessFailure, FailureStatus, Ran
  <2>2. (failed \cup unexpectedPasses)' = failed \cup unexpectedPasses \cup {k}
    BY <1>3 DEF ProcessFailure, RecordFailure
  <2>3. QED
    BY <1>3, <2>1, <2>2, SettleInv DEF ProcessFailure, NextDone
<1>4. CASE \E k \in Scheduled :
             Launch(k) \/ ProcessFailFast(k) \/ ProcessCrash(k) \/ RunStep(k)
  BY <1>4, LaunchInv, FailFastInv, QuietInv, RunStepInv
<1>5. CASE Wait \/ Leave \/ Collect \/ ReturnFailFast \/ Unwind \/ Interrupt
             \/ Terminated \/ UNCHANGED vars
  BY <1>5, QuietInv
<1>6. QED
  BY <1>1, <1>2, <1>3, <1>4, <1>5 DEF Next, SchedulerStep

(***************************************************************************)
(* The bookkeeping of schedule_targets is consistent at every await and    *)
(* between any two of its steps (scheduler.py:74-181).                     *)
(***************************************************************************)
THEOREM Invariance == Spec => []SchedulerInv
BY InitInv, NextInv, PTL DEF Spec

(***************************************************************************)
(* RuntimeError("selected tests have an unresolved dependency") of         *)
(* scheduler.py:91 is unreachable in every acyclic graph.                  *)
(***************************************************************************)
THEOREM Unresolved == Spec => []NeverUnresolved
<1>1. SchedulerInv => NeverUnresolved
  BY DEF SchedulerInv, EndsWell, NeverUnresolved
<1>2. QED
  BY <1>1, Invariance, PTL

LEMMA UpstreamPassed ==
  ASSUME SchedulerInv, NEW k \in Scheduled, k \in running \/ Verdict(k) \in Ran,
         NEW u \in UpstreamKeys(k)
  PROVE  Verdict(u) = "PASS"
<1> DEFINE S == {n \in Nodes : \/ n = k[2]
                               \/ /\ <<k[1], n>> \in Scheduled
                                  /\ Verdict(<<k[1], n>>) = "PASS"}
<1>1. k = <<k[1], k[2]>> /\ k[2] \in Nodes
  BY DEF Scheduled
<1>2. ASSUME NEW n \in S, NEW m \in NodeDeps[n]
      PROVE  m \in S
  <2>1. n \in Nodes /\ m \in Nodes
    BY <1>2, GraphAssumption
  <2>2. <<k[1], n>> \in Scheduled
    BY <1>1, <1>2
  <2>3. <<k[1], m>> \in Deps[<<k[1], n>>]
    BY <1>2, <2>2 DEF Deps
  <2>4. <<k[1], n>> \in running \/ Verdict(<<k[1], n>>) \in Ran
    BY <1>1, <1>2 DEF Ran
  <2>5. <<k[1], m>> \in Scheduled /\ Verdict(<<k[1], m>>) = "PASS"
    BY <2>2, <2>3, <2>4, DepsScheduled DEF SchedulerInv, InputsDecide
  <2>6. QED
    BY <2>1, <2>5
<1>3. DependencyClosed(S) /\ S \in SUBSET Nodes /\ k[2] \in S
  BY <1>1, <1>2 DEF DependencyClosed
<1>4. Upstream[k[2]] \subseteq S
  BY <1>1, <1>3, UpstreamLeast
<1>5. QED
  BY <1>4 DEF UpstreamKeys

(***************************************************************************)
(* scheduler.py:85: no test runs before everything upstream of it has      *)
(* passed, although `completed` holds the expected failures too.           *)
(***************************************************************************)
THEOREM PassedInputs == Spec => []RunsOnPassedInputs
<1>1. SchedulerInv => RunsOnPassedInputs
  BY UpstreamPassed DEF RunsOnPassedInputs, SchedulerInv, TypeOK
<1>2. QED
  BY <1>1, Invariance, PTL

(***************************************************************************)
(* Under --keep-going a run that returns has written exactly one row for   *)
(* every scheduled key (scheduler.py:106, 128, 164 and 208).               *)
(***************************************************************************)
THEOREM OneRow == Spec => []OneRowPerKey
<1>1. SchedulerInv => OneRowPerKey
  <2> SUFFICES ASSUME SchedulerInv, phase = "returned", keepGoing,
                      NEW k \in Scheduled
               PROVE  Len(report[k]) = 1
    BY DEF OneRowPerKey
  <2>1. PICK v \in Statuses : report[k] = <<v>>
    BY DEF SchedulerInv, EndsWell, KeysAccounted
  <2>2. QED
    BY <2>1
<1>2. QED
  BY <1>1, Invariance, PTL

(***************************************************************************)
(* README, "cancels only consumers of the failed checkpoint": the CANCEL   *)
(* rows are exactly the keys with something upstream that did not pass.    *)
(***************************************************************************)
THEOREM ExactCancellation == Spec => []CancelsExactlyConsumers
<1>1. SchedulerInv => CancelsExactlyConsumers
  <2> SUFFICES ASSUME SchedulerInv, phase = "returned", keepGoing,
                      NEW k \in Scheduled
               PROVE  Verdict(k) = "CANCEL" <=>
                        \E u \in UpstreamKeys(k) :
                          Verdict(u) \in {"FAIL", "XFAIL", "XPASS"}
    BY DEF CancelsExactlyConsumers
  <2>1. PICK v \in Statuses : report[k] = <<v>>
    BY DEF SchedulerInv, EndsWell, KeysAccounted
  <2>2. Verdict(k) = "CANCEL" \/ Verdict(k) \in Ran
    BY <2>1 DEF Verdict, Ran
  <2>3. Verdict(k) \in Ran => \A u \in UpstreamKeys(k) : Verdict(u) = "PASS"
    BY UpstreamPassed
  <2>4. QED
    BY <2>2, <2>3 DEF SchedulerInv, InputsDecide
<1>2. QED
  BY <1>1, Invariance, PTL

\* scheduler.py:160 and 176: the exit code is 1 exactly for a FAIL or XPASS row.
THEOREM ExitCode == Spec => []ExitCodeFaithful
<1>1. SchedulerInv => ExitCodeFaithful
  BY DEF SchedulerInv, EndsWell, BooksBalance, ExitCodeFaithful
<1>2. QED
  BY <1>1, Invariance, PTL

\* scheduler.py:159 and 177-181: no task outlives the call that started it.
THEOREM NoOrphanTask == Spec => []NoTaskOutlivesRun
<1>1. SchedulerInv => NoTaskOutlivesRun
  BY DEF SchedulerInv, EndsWell, KeysAccounted, NoTaskOutlivesRun
<1>2. QED
  BY <1>1, Invariance, PTL

------------------------------------------------------------------------------
(***************************************************************************)
(* What schedule_targets promises its user: each run is one that GraphRun  *)
(* allows, no body of a node that has passed is run again, and the tree    *)
(* shows what the report says.                                             *)
(***************************************************************************)

(* Consumers *)

\* What is upstream of a key is one of its dependencies or upstream of one.
LEMMA UpstreamKeysUnfold ==
  ASSUME NEW c \in Scheduled, NEW k \in UpstreamKeys(c)
  PROVE  \E d \in Deps[c] : k = d \/ k \in UpstreamKeys(d)
<1>1. c = <<c[1], c[2]>> /\ c[2] \in Nodes
  BY DEF Scheduled
<1>2. PICK n \in Upstream[c[2]] : n # c[2] /\ k = <<c[1], n>>
  BY DEF UpstreamKeys
<1>3. PICK m \in NodeDeps[c[2]] : n \in Upstream[m]
  BY <1>1, <1>2, UpstreamUnfold
<1>4. <<c[1], m>> \in Deps[c]
  BY <1>3 DEF Deps
<1>5. k = <<c[1], m>> \/ k \in UpstreamKeys(<<c[1], m>>)
  BY <1>2, <1>3 DEF UpstreamKeys
<1>6. QED
  BY <1>4, <1>5

\* cancel_failed_descendants finds every pending consumer of a key that ran.
LEMMA ConsumersAreBlocked ==
  ASSUME SchedulerInv, Going, NEW k \in running, NEW c \in pending,
         k \in UpstreamKeys(c)
  PROVE  c \in Blocked(k)
<1> DEFINE S == {x \in pending : k \in UpstreamKeys(x) /\ x \notin Blocked(k)}
<1>1. pending \subseteq Scheduled /\ running \subseteq Scheduled /\ Verdict(k) = "none"
  BY DEF SchedulerInv, TypeOK, KeysAccounted, Verdict
<1>2. S = {}
  <2> SUFFICES ASSUME S # {}
               PROVE  FALSE
    OBVIOUS
  <2>1. PICK x \in S : Deps[x] \cap S = {}
    BY <1>1, KeysWellFounded
  <2>2. PICK d \in Deps[x] : k = d \/ k \in UpstreamKeys(d)
    BY <1>1, <2>1, UpstreamKeysUnfold
  <2>3. d \notin {k} \cup Blocked(k)
    BY <2>1, <2>2, BlockedClosed DEF BlockedBy
  <2>4. d \in Scheduled /\ k \in UpstreamKeys(d)
    BY <1>1, <2>1, <2>2, <2>3, DepsScheduled
  <2>5. d \notin running /\ Verdict(d) # "PASS"
    BY <1>1, <2>4, UpstreamPassed DEF Ran
  <2>6. d \in pending
    BY <1>1, <2>1, <2>2, <2>5 DEF SchedulerInv, InputsDecide
  <2>7. QED
    BY <2>1, <2>2, <2>3, <2>4, <2>6
<1>3. QED
  BY <1>2

LEMMA InitRefines == Init => Abstract!Init
BY DEF Init, TaskInit, Abstract!Init, verdictOf, modeOf

\* What GraphRun sees of a key.
LEMMA VerdictOfKey ==
  ASSUME SchedulerInv, NEW k \in Scheduled
  PROVE  /\ Verdict(k) # "none" => verdictOf[k] = Verdict(k)
         /\ Verdict(k) = "none" <=> report[k] = <<>>
         /\ k \in pending => verdictOf[k] = "WAIT"
         /\ k \in running => verdictOf[k] = "RUN"
         /\ Verdict(k) = "none" \/ Verdict(k) \in Statuses
<1>1. report[k] = <<>> \/ \E v \in Statuses : report[k] = <<v>>
  BY DEF SchedulerInv, KeysAccounted
<1>2. \A v : <<v>> # <<>> /\ <<v>>[1] = v
  OBVIOUS
<1>3. k \in pending => stage[k] = "unstarted" /\ report[k] = <<>>
  BY DEF SchedulerInv, KeysAccounted
<1>4. k \in running => stage[k] # "unstarted" /\ report[k] = <<>>
  BY DEF SchedulerInv, KeysAccounted
<1>5. QED
  BY <1>1, <1>2, <1>3, <1>4 DEF Verdict, verdictOf

LEMMA LaunchRefines ==
  ASSUME SchedulerInv, SchedulerInv', NEW k \in Scheduled, Launch(k)
  PROVE  Abstract!Start(k)
<1>1. k \in pending /\ running' = running \cup {k} /\ UNCHANGED <<report, phase, exitCode>>
         /\ stage' = [stage EXCEPT ![k] = "load"] /\ phase = "launch"
  BY DEF Launch, Ready, Go
<1>2. report[k] = <<>>
  BY <1>1 DEF SchedulerInv, KeysAccounted
<1>3. \A u \in Deps[k] : u \in Scheduled /\ Verdict(u)' = "PASS"
  BY <1>1, DepsScheduled DEF SchedulerInv, InputsDecide
<1>4. \A u \in Deps[k] : verdictOf[u] = "PASS"
  BY <1>1, <1>3, VerdictOfKey DEF Verdict
<1>5. verdictOf' = [verdictOf EXCEPT ![k] = "RUN"]
  BY <1>1, <1>2 DEF verdictOf, SchedulerInv, TypeOK, TaskTypeOK
<1>6. verdictOf[k] = "WAIT"
  BY <1>1, VerdictOfKey
<1>7. modeOf = "going" /\ modeOf' = modeOf
  BY <1>1 DEF modeOf
<1>8. QED
  BY <1>4, <1>5, <1>6, <1>7 DEF Abstract!Start

\* What one round of row-writing does to the verdicts of GraphRun.
LEMMA VerdictOfAfterReport ==
  ASSUME SchedulerInv, NEW k \in running, NEW s \in Statuses,
         NEW C \in SUBSET pending, Report(k, s, C), UNCHANGED stage
  PROVE  verdictOf' = [j \in Scheduled |->
                         IF j = k THEN s
                         ELSE IF j \in C THEN "CANCEL" ELSE verdictOf[j]]
<1>1. \A j \in Scheduled :
         report'[j] = IF j = k THEN <<s>>
                      ELSE IF j \in C THEN <<"CANCEL">> ELSE report[j]
  BY VerdictsAfterReport
<1>2. \A v : <<v>> # <<>> /\ <<v>>[1] = v
  OBVIOUS
<1>3. QED
  BY <1>1, <1>2, SMTT(30) DEF verdictOf

LEMMA PassRefines ==
  ASSUME SchedulerInv, NEW k \in Scheduled, ProcessPass(k)
  PROVE  Abstract!Pass(k)
<1>1. k \in running
  BY DEF ProcessPass, TakeDone, SchedulerInv, TypeOK
<1>2. modeOf = "going" /\ modeOf' = "going"
  BY DEF ProcessPass, TakeDone, NextDone, modeOf
<1>3. verdictOf[k] = "RUN"
  BY <1>1, VerdictOfKey
<1>4. verdictOf' = [j \in Scheduled |-> IF j = k THEN "PASS"
                       ELSE IF j \in {} THEN "CANCEL" ELSE verdictOf[j]]
  BY <1>1, VerdictOfAfterReport DEF ProcessPass
<1>5. verdictOf' = [verdictOf EXCEPT ![k] = "PASS"]
  BY <1>4 DEF verdictOf
<1>6. QED
  BY <1>2, <1>3, <1>5 DEF Abstract!Pass

(***************************************************************************)
(* The rows of one failure are the failure and the cancellation of exactly *)
(* its consumers, those cancelled before included.                         *)
(***************************************************************************)
LEMMA SettleRefines ==
  ASSUME SchedulerInv, NEW k \in Scheduled, TakeDone(k),
         NEW s \in {"FAIL", "XFAIL", "XPASS"},
         Report(k, s, Blocked(k)), UNCHANGED stage,
         phase' \in {"launch", "process"}
  PROVE  Abstract!NotPass(k)
<1> DEFINE C == {c \in Scheduled : k \in UpstreamKeys(c)}
<1>1. k \in running /\ Going /\ Verdict(k) = "none" /\ pending \subseteq Scheduled
  BY VerdictOfKey DEF TakeDone, SchedulerInv, TypeOK, KeysAccounted, Going, Verdict
<1>2. Abstract!AreConsumers(C, k)
  <2>1. ASSUME NEW c \in Scheduled, c \in C
        PROVE  Deps[c] \cap ({k} \cup C) # {}
    BY <2>1, UpstreamKeysUnfold, DepsScheduled
  <2>2. ASSUME NEW c \in Scheduled, NEW d \in Deps[c], d \in {k} \cup C
        PROVE  c \in C
    BY <2>2, DepsScheduled
  <2>3. QED
    BY <2>1, <2>2 DEF Abstract!AreConsumers
<1>3. ASSUME NEW c \in C
      PROVE  c \notin running /\ (c \in pending \/ Verdict(c) = "CANCEL")
  <2>1. c \notin running /\ Verdict(c) \notin Ran
    BY <1>1, <1>3, UpstreamPassed
  <2>2. Verdict(c) = "none" \/ Verdict(c) = "CANCEL"
    BY <1>3, <2>1, VerdictOfKey DEF Ran
  <2>3. QED
    BY <1>1, <1>3, <2>1, <2>2, VerdictOfKey DEF SchedulerInv, KeysAccounted
<1>4. \A c \in C : verdictOf[c] \in {"WAIT", "CANCEL"}
  BY <1>3, VerdictOfKey
<1>5. Blocked(k) \subseteq pending /\ Blocked(k) \subseteq C
  BY <1>1, BlockedClosed, BlockedAreConsumers DEF SchedulerInv
<1>6. \A c \in C : c \in Blocked(k) \/ verdictOf[c] = "CANCEL"
  BY <1>1, <1>3, ConsumersAreBlocked, VerdictOfKey
<1>7. verdictOf' = [j \in Scheduled |->
                       IF j = k THEN s
                       ELSE IF j \in Blocked(k) THEN "CANCEL" ELSE verdictOf[j]]
  BY <1>1, <1>5, VerdictOfAfterReport
<1>8. verdictOf' = [j \in Scheduled |-> IF j = k THEN s
                       ELSE IF j \in C THEN "CANCEL" ELSE verdictOf[j]]
  BY <1>5, <1>6, <1>7
<1>9. modeOf = "going" /\ modeOf' = "going" /\ verdictOf[k] = "RUN"
  BY <1>1, VerdictOfKey DEF modeOf, Going, TakeDone
<1>10. QED
  BY <1>2, <1>4, <1>8, <1>9 DEF Abstract!NotPass

LEMMA FailFastRefines ==
  ASSUME SchedulerInv, NEW k \in Scheduled, ProcessFailFast(k)
  PROVE  Abstract!FailFast(k)
<1>1. k \in running /\ FailureStatus(k) \in {"FAIL", "XPASS"}
  BY DEF ProcessFailFast, TakeDone, SchedulerInv, TypeOK, FailureStatus
<1>2. modeOf = "going" /\ modeOf' = "stopping"
  BY DEF ProcessFailFast, TakeDone, modeOf
<1>3. verdictOf' = [j \in Scheduled |-> IF j = k THEN FailureStatus(k)
                       ELSE IF j \in {} THEN "CANCEL" ELSE verdictOf[j]]
  BY <1>1, VerdictOfAfterReport DEF ProcessFailFast
<1>4. verdictOf' = [verdictOf EXCEPT ![k] = FailureStatus(k)]
  BY <1>3 DEF verdictOf
<1>5. verdictOf[k] = "RUN"
  BY <1>1, VerdictOfKey
<1>6. QED
  BY <1>1, <1>2, <1>4, <1>5 DEF Abstract!FailFast

LEMMA LeaveRefines ==
  ASSUME SchedulerInv, SchedulerInv', Leave
  PROVE  Abstract!Finish
<1>1. pending = {} /\ running = {} /\ Going /\ modeOf = "going"
  BY NothingStranded DEF Leave, LaunchesNoMore, Going, modeOf
<1>2. \A k \in Scheduled : verdictOf[k] = Verdict(k) /\ verdictOf[k] \in Statuses
  BY <1>1, VerdictOfKey DEF SchedulerInv, KeysAccounted
<1>3. Abstract!HasFailure <=> failed \cup unexpectedPasses # {}
  BY <1>2 DEF Abstract!HasFailure, SchedulerInv, BooksBalance
<1>4. modeOf' = IF Abstract!HasFailure THEN "failed" ELSE "succeeded"
  BY <1>1, <1>3 DEF Leave, modeOf
<1>5. UNCHANGED verdictOf
  BY DEF Leave, taskVars, verdictOf
<1>6. QED
  BY <1>1, <1>2, <1>4, <1>5 DEF Abstract!Finish

LEMMA RunStepRefines ==
  ASSUME SchedulerInv, NEW k \in Scheduled, RunStep(k)
  PROVE  UNCHANGED <<verdictOf, modeOf>>
<1>1. PICK st \in Live \cup Outcomes :
         stage[k] \in Live /\ stage' = [stage EXCEPT ![k] = st]
  BY TaskStepFrame DEF RunStep, SchedulerInv, TypeOK
<1>2. UNCHANGED <<report, phase, exitCode>>
  BY DEF RunStep, schedulerVars
<1>3. UNCHANGED verdictOf
  BY <1>1, <1>2 DEF verdictOf, SchedulerInv, TypeOK, TaskTypeOK
<1>4. QED
  BY <1>2, <1>3 DEF modeOf

LEMMA NextRefines ==
  SchedulerInv /\ SchedulerInv' /\ [Next]_vars => [Abstract!Next]_<<verdictOf, modeOf>>
<1> SUFFICES ASSUME SchedulerInv, SchedulerInv', [Next]_vars
             PROVE  [Abstract!Next]_<<verdictOf, modeOf>>
  OBVIOUS
<1>1. ASSUME NEW k \in Scheduled, Launch(k)
      PROVE  Abstract!Next
  BY <1>1, LaunchRefines DEF Abstract!Next
<1>2. ASSUME NEW k \in Scheduled, ProcessPass(k)
      PROVE  Abstract!Next
  BY <1>2, PassRefines DEF Abstract!Next
<1>3. ASSUME NEW k \in Scheduled, ProcessXfail(k) \/ ProcessFailure(k)
      PROVE  Abstract!Next
  <2>1. PICK s \in {"FAIL", "XFAIL", "XPASS"} : Report(k, s, Blocked(k))
    BY <1>3 DEF ProcessXfail, ProcessFailure, FailureStatus
  <2>2. TakeDone(k) /\ UNCHANGED stage /\ phase' \in {"launch", "process"}
    BY <1>3 DEF ProcessXfail, ProcessFailure, NextDone
  <2>3. Abstract!NotPass(k)
    BY <2>1, <2>2, SettleRefines
  <2>4. QED
    BY <2>3 DEF Abstract!Next
<1>4. ASSUME NEW k \in Scheduled, ProcessFailFast(k)
      PROVE  Abstract!Next
  BY <1>4, FailFastRefines DEF Abstract!Next
<1>5. CASE Interrupt \/ \E k \in Scheduled : ProcessCrash(k)
  <2>1. UNCHANGED verdictOf
    BY <1>5 DEF Interrupt, ProcessCrash, verdictOf
  <2>2. modeOf \in {"going", "stopping"} /\ modeOf' = "aborting"
    BY <1>5 DEF Interrupt, ProcessCrash, TakeDone, modeOf
  <2>3. QED
    BY <2>1, <2>2 DEF Abstract!Stop, Abstract!Next
<1>6. CASE Leave
  BY <1>6, LeaveRefines DEF Abstract!Next
<1>7. CASE ReturnFailFast \/ Unwind
  <2>1. UNCHANGED verdictOf
    BY <1>7 DEF ReturnFailFast, Unwind, taskVars, verdictOf
  <2>2. \/ modeOf = "stopping" /\ modeOf' = "failed"
        \/ modeOf = "aborting" /\ modeOf' = "aborted"
    BY <1>7 DEF ReturnFailFast, Unwind, modeOf
  <2>3. QED
    BY <2>1, <2>2 DEF Abstract!Finish, Abstract!Next
<1>8. CASE \E k \in Scheduled : RunStep(k)
  BY <1>8, RunStepRefines
<1>9. CASE Wait \/ Collect \/ Terminated \/ UNCHANGED vars
  <2>1. UNCHANGED verdictOf
    BY <1>9 DEF Wait, Collect, Terminated, vars, taskVars, schedulerVars, verdictOf
  <2>2. UNCHANGED modeOf
    BY <1>9 DEF Wait, Collect, LaunchesNoMore, Terminated, vars, taskVars,
                schedulerVars, modeOf
  <2>3. QED
    BY <2>1, <2>2
<1>10. QED
  BY <1>1, <1>2, <1>3, <1>4, <1>5, <1>6, <1>7, <1>8, <1>9 DEF Next, SchedulerStep

(***************************************************************************)
(* README, "cancels only consumers of the failed checkpoint", and          *)
(* scheduler.py:45-181: every run of the scheduler, whatever its tasks do  *)
(* and in which order they end, is a run that GraphRun allows.             *)
(***************************************************************************)
THEOREM Refinement == Spec => ImplementsGraphRun
<1>1. Spec => []SchedulerInv
  BY Invariance
<1>2. QED
  BY <1>1, InitRefines, NextRefines, PTL
  DEF Spec, ImplementsGraphRun, Abstract!Spec, Abstract!gvars

------------------------------------------------------------------------------
(* The inductive invariant behind the labels *)

InBody(n) == \E k \in Scheduled : stage[k] = "body" /\ activeNode[k] = n
Crashed == \E k \in Scheduled : stage[k] = "crash"

\* The tree has shown a verdict of its own for k.
Shown(k) == stage[k] = "xfail" \/ Verdict(k) \in Ran

\* A row says how the task of its key ended.
RowsTellStages ==
  \A k \in Scheduled :
    /\ Verdict(k) = "PASS" => stage[k] = "pass"
    /\ Verdict(k) = "FAIL" => stage[k] = "fail"
    /\ Verdict(k) = "XFAIL" => stage[k] = "xfail"
    /\ Verdict(k) = "XPASS" => stage[k] = "xpass"
    /\ Verdict(k) = "CANCEL" => stage[k] = "unstarted"

\* A task is blamed on its own node or on something upstream of it, and only
\* an input is ever restored.
BlamedOnUpstream ==
  \A k \in Scheduled :
    /\ activeNode[k] \in Upstream[k[2]] \cup {NoNode}
    /\ stage[k] \in {"restore", "rebuilt"} => activeNode[k] # k[2]

\* A label has a task behind it.
LabelCaused(n) ==
  /\ label[n] = "RUN" => InBody(n)
  /\ label[n] = "PASS" => \E j \in Scheduled : stage[j] = "pass" /\ j[2] = n
  /\ label[n] = "FAIL" =>
       \E j \in Scheduled : stage[j] = "fail" /\ n \in {j[2], activeNode[j]}
  /\ label[n] = "XFAIL" => \E j \in Scheduled : stage[j] = "xfail" /\ j[2] = n
  /\ label[n] = "XPASS" => \E j \in Scheduled : stage[j] = "xpass" /\ j[2] = n

\* A verdict leaves its mark on the label, and a cancellation hides it only
\* while another file runs the node.
LabelMarked(n) ==
  \A j \in Scheduled : j[2] = n =>
    /\ Shown(j) \/ Verdict(j) = "CANCEL" => label[n] \notin {"WAIT", "CACHE"}
    /\ Shown(j) /\ label[n] = "CANCEL" => InBody(n)

LabelKept(n) == LabelCaused(n) /\ LabelMarked(n)

LabelInv ==
  /\ RowsTellStages
  /\ BlamedOnUpstream
  /\ Going => /\ cancelRequested = {}
              /\ \A k \in Scheduled : stage[k] = "crash" => k \in running
              /\ Crashed \/ \A n \in Nodes : LabelKept(n)
  /\ phase = "returned" /\ keepGoing =>
       \A n \in Nodes : LabelKept(n) /\ ~InBody(n)

LEMMA InitLabelInv == Init => LabelInv
BY DEF Init, TaskInit, LabelInv, RowsTellStages, BlamedOnUpstream, LabelKept,
       LabelCaused, LabelMarked, Shown, Verdict, Ran

\* An input of a running task has passed in the same file.
LEMMA InputHasPassed ==
  ASSUME SchedulerInv, RowsTellStages, NEW k \in running,
         NEW a \in Upstream[k[2]], a # k[2]
  PROVE  \E j \in Scheduled : stage[j] = "pass" /\ j[2] = a /\ Shown(j)
<1>1. <<k[1], a>> \in UpstreamKeys(k) /\ k \in Scheduled
  BY DEF UpstreamKeys, SchedulerInv, TypeOK
<1>2. <<k[1], a>> \in Scheduled /\ Verdict(<<k[1], a>>) = "PASS"
  BY <1>1, UpstreamKeysScheduled, UpstreamPassed
<1>3. QED
  BY <1>2 DEF RowsTellStages, Shown, Ran

------------------------------------------------------------------------------
(* The steps of a task *)

\* What a step of a task leaves alone.
LEMMA TaskStepKeeps ==
  ASSUME SchedulerInv, NEW k \in Scheduled, RunStep(k)
  PROVE  /\ k \in running /\ stage[k] \in Live /\ Verdict(k) = "none"
         /\ stage'[k] # "unstarted"
         /\ \A j \in Scheduled \ {k} :
              stage'[j] = stage[j] /\ activeNode'[j] = activeNode[j]
         /\ \A j \in Scheduled : Verdict(j)' = Verdict(j)
         /\ UNCHANGED <<running, phase>>
<1>1. \E st \in Live \cup Outcomes : stage' = [stage EXCEPT ![k] = st]
  BY TaskStepFrame DEF RunStep, SchedulerInv, TypeOK
<1>2. \E a : activeNode' = [activeNode EXCEPT ![k] = a]
  BY DEF RunStep, TaskStep, MissTarget, HitTarget, MissInput, RestoreInput,
         StartBody, SaveInput, InputRestored, TargetPasses, TargetExpectedFailure,
         Fail, Cancelled, CancelledInStart, Go, Ends, SchedulerInv, TypeOK, TaskTypeOK
<1>3. stage[k] \in Live
  BY TaskStepFrame DEF RunStep, SchedulerInv, TypeOK
<1>4. k \in running /\ report[k] = <<>>
  BY <1>3 DEF SchedulerInv, KeysAccounted
<1>5. UNCHANGED schedulerVars
  BY DEF RunStep
<1>6. stage \in [Scheduled -> {"unstarted"} \cup Live \cup Outcomes]
         /\ activeNode \in [Scheduled -> Nodes \cup {NoNode}]
  BY DEF SchedulerInv, TypeOK, TaskTypeOK
<1>7. QED
  BY <1>1, <1>2, <1>3, <1>4, <1>5, <1>6 DEF Verdict, schedulerVars

LEMMA RunStepBlames ==
  ASSUME SchedulerInv, BlamedOnUpstream, NEW k \in Scheduled, RunStep(k)
  PROVE  BlamedOnUpstream'
<1>1. \A j \in Scheduled \ {k} :
         stage'[j] = stage[j] /\ activeNode'[j] = activeNode[j]
  BY TaskStepKeeps
<1>2. k[2] \in Nodes /\ k[2] \in Upstream[k[2]]
  BY UpstreamClosed DEF Scheduled
<1>3. \A n : LookUpInput(k, n) => n \in Upstream[k[2]] /\ n # k[2]
  BY <1>2, InputIsUpstream
  DEF LookUpInput, Resolving, SchedulerInv, TypeOK, TaskTypeOK
<1>4. /\ stage \in [Scheduled -> {"unstarted"} \cup Live \cup Outcomes]
      /\ activeNode \in [Scheduled -> Nodes \cup {NoNode}]
      /\ held[k] \subseteq Upstream[k[2]]
      /\ stage[k] = "body" => activeNode[k] \in Upstream[k[2]]
  BY DEF SchedulerInv, TypeOK, TaskTypeOK
<1>5. /\ activeNode'[k] \in Upstream[k[2]] \cup {NoNode}
      /\ stage'[k] \in {"restore", "rebuilt"} => activeNode'[k] # k[2]
  <2>1. ASSUME NEW n \in Nodes, MissInput(k, n) \/ RestoreInput(k, n)
        PROVE  /\ activeNode'[k] \in Upstream[k[2]] \cup {NoNode}
               /\ stage'[k] \in {"restore", "rebuilt"} => activeNode'[k] # k[2]
    BY <1>3, <1>4, <2>1 DEF MissInput, RestoreInput, Go, BlamedOnUpstream
  <2>2. ASSUME NEW n \in Nodes, StartBody(k, n)
        PROVE  activeNode'[k] \in Upstream[k[2]] /\ stage'[k] = "body"
    BY <1>4, <2>2 DEF StartBody, Resolving, Go
  <2>3. CASE SaveInput(k) \/ InputRestored(k)
    BY <1>4, <2>3 DEF SaveInput, InputRestored, Go
  <2>4. CASE MissTarget(k) \/ HitTarget(k) \/ TargetPasses(k)
               \/ TargetExpectedFailure(k)
    BY <1>2, <1>4, <2>4
    DEF MissTarget, HitTarget, TargetPasses, TargetExpectedFailure, Go, Ends
  <2>5. CASE Fail(k) \/ Cancelled(k) \/ CancelledInStart(k)
    BY <1>4, <2>5
    DEF Fail, Cancelled, CancelledInStart, Go, Ends, BlamedOnUpstream
  <2>6. QED
    BY <2>1, <2>2, <2>3, <2>4, <2>5 DEF RunStep, TaskStep
<1>6. QED
  BY <1>1, <1>5 DEF BlamedOnUpstream

\* A node whose label a step of k does not change keeps its causes and marks.
LEMMA SameLabelKept ==
  ASSUME SchedulerInv, NEW k \in Scheduled, RunStep(k),
         NEW n \in Nodes, LabelKept(n), label'[n] = label[n],
         ~(stage[k] = "body" /\ activeNode[k] = n),
         stage'[k] # "xfail" \/ k[2] # n
  PROVE  LabelKept(n)'
<1>1. /\ stage[k] \in Live /\ Verdict(k) = "none"
      /\ \A j \in Scheduled \ {k} :
           stage'[j] = stage[j] /\ activeNode'[j] = activeNode[j]
      /\ \A j \in Scheduled : Verdict(j)' = Verdict(j)
  BY TaskStepKeeps
<1>2. InBody(n) => InBody(n)'
  BY <1>1 DEF InBody
<1>3. LabelCaused(n)'
  BY <1>1, <1>2 DEF LabelKept, LabelCaused
<1>4. LabelMarked(n)'
  BY <1>1, <1>2 DEF LabelKept, LabelMarked, Shown, Ran
<1>5. QED
  BY <1>3, <1>4 DEF LabelKept

LEMMA RunStepKeepsLabels ==
  ASSUME SchedulerInv, LabelInv, NEW k \in Scheduled, RunStep(k), Going,
         ~Crashed', NEW n \in Nodes
  PROVE  LabelKept(n)'
<1>1. /\ k \in running /\ stage[k] \in Live /\ Verdict(k) = "none"
      /\ \A j \in Scheduled \ {k} :
           stage'[j] = stage[j] /\ activeNode'[j] = activeNode[j]
      /\ \A j \in Scheduled : Verdict(j)' = Verdict(j)
  BY TaskStepKeeps
<1>2. LabelKept(n)
  BY <1>1 DEF LabelInv, Crashed
<1>3. stage'[k] # "crash"
  BY DEF Crashed
<1>4. stage \in [Scheduled -> {"unstarted"} \cup Live \cup Outcomes]
         /\ activeNode \in [Scheduled -> Nodes \cup {NoNode}]
         /\ label \in [Nodes -> Labels]
  BY DEF SchedulerInv, TypeOK, TaskTypeOK
<1>5. stage[k] = "body" => activeNode[k] \in Nodes
  BY UpstreamClosed DEF SchedulerInv, TypeOK, TaskTypeOK, Scheduled
<1>6. NoNode \notin Nodes
  BY TaskAssumption
<1> USE DEF Go, Ends, Emit, NextLabel, EventKinds
<1>7. CASE MissTarget(k)
  BY <1>2, <1>4, <1>7, SameLabelKept DEF MissTarget
<1>8. CASE HitTarget(k)
  <2>1. stage'[k] = "pass" /\ stage[k] = "load"
    BY <1>4, <1>8 DEF HitTarget
  <2>2. CASE label'[n] = label[n]
    BY <1>2, <2>1, <2>2, SameLabelKept
  <2>3. CASE label'[n] # label[n]
    <3>1. label[n] = "WAIT" /\ label'[n] = "CACHE"
      BY <1>4, <1>8, <2>3 DEF HitTarget
    <3>2. LabelMarked(n)'
      BY <1>1, <1>2, <2>1, <3>1 DEF LabelKept, LabelMarked, Shown
    <3>3. QED
      BY <3>1, <3>2 DEF LabelKept, LabelCaused
  <2>4. QED
    BY <2>2, <2>3
<1>9. ASSUME NEW m \in Nodes, StartBody(k, m)
      PROVE  LabelKept(n)'
  <2>1. stage[k] = "resolve" /\ stage'[k] = "body" /\ activeNode'[k] = m
    BY <1>4, <1>9 DEF StartBody, Resolving
  <2>2. CASE n = m
    <3>1. label'[n] = "RUN" /\ InBody(n)'
      BY <1>4, <1>9, <2>1, <2>2 DEF StartBody, InBody
    <3>2. QED
      BY <3>1 DEF LabelKept, LabelCaused, LabelMarked
  <2>3. CASE n # m
    <3>1. label'[n] = label[n]
      BY <1>4, <1>9, <2>3 DEF StartBody
    <3>2. QED
      BY <1>2, <2>1, <3>1, SameLabelKept
  <2>4. QED
    BY <2>2, <2>3
<1>10. ASSUME NEW m \in Nodes, MissInput(k, m) \/ RestoreInput(k, m)
       PROVE  LabelKept(n)'
  BY <1>2, <1>4, <1>10, SameLabelKept
  DEF MissInput, RestoreInput, LookUpInput, Resolving
<1>11. CASE SaveInput(k) \/ InputRestored(k)
  <2>1. activeNode[k] # k[2] /\ activeNode[k] \in Upstream[k[2]]
    BY <1>11 DEF SaveInput, InputRestored, LabelInv, BlamedOnUpstream,
                 SchedulerInv, TypeOK, TaskTypeOK
  <2>2. PICK j \in Scheduled : stage[j] = "pass" /\ j[2] = activeNode[k] /\ Shown(j)
    BY <1>1, <2>1, InputHasPassed DEF LabelInv
  <2>3. j # k /\ stage'[j] = "pass" /\ stage'[k] \in {"rebuilt", "resolve"}
    BY <1>1, <1>4, <1>11, <2>2 DEF SaveInput, InputRestored
  <2>4. CASE label'[n] = label[n] /\ ~(stage[k] = "body" /\ activeNode[k] = n)
    BY <1>2, <2>3, <2>4, SameLabelKept
  <2>5. CASE label'[n] # label[n] \/ (stage[k] = "body" /\ activeNode[k] = n)
    <3>1. n = activeNode[k]
      BY <1>4, <1>11, <2>5 DEF SaveInput, InputRestored
    <3>2. label[n] # "WAIT"
      BY <1>2, <2>2, <3>1 DEF LabelKept, LabelMarked
    <3>3. label'[n] = "PASS"
      BY <1>4, <1>11, <2>5, <3>1, <3>2 DEF SaveInput, InputRestored
    <3>4. QED
      BY <2>2, <2>3, <3>1, <3>3 DEF LabelKept, LabelCaused, LabelMarked
  <2>6. QED
    BY <2>4, <2>5
<1>12. CASE TargetPasses(k) \/ TargetExpectedFailure(k)
  <2>1. activeNode[k] = k[2] /\ stage[k] = "body"
    BY <1>12 DEF TargetPasses, TargetExpectedFailure
  <2>2. CASE n = k[2]
    <3>1. \/ label'[n] = "PASS" /\ stage'[k] = "pass"
          \/ label'[n] = "XFAIL" /\ stage'[k] = "xfail"
          \/ label'[n] = "XPASS" /\ stage'[k] = "xpass"
      BY <1>3, <1>4, <1>12, <2>2 DEF TargetPasses, TargetExpectedFailure
    <3>2. QED
      BY <2>2, <3>1 DEF LabelKept, LabelCaused, LabelMarked
  <2>3. CASE n # k[2]
    <3>1. label'[n] = label[n]
      BY <1>4, <1>12, <2>3 DEF TargetPasses, TargetExpectedFailure
    <3>2. QED
      BY <1>2, <2>1, <2>3, <3>1, SameLabelKept
  <2>4. QED
    BY <2>2, <2>3
<1>13. CASE Fail(k)
  <2>1. stage'[k] = "fail" /\ activeNode'[k] = activeNode[k]
    BY <1>3, <1>4, <1>13 DEF Fail
  <2>2. CASE n = activeNode[k]
    <3>1. label'[n] = "FAIL"
      BY <1>4, <1>13, <2>2 DEF Fail
    <3>2. QED
      BY <2>1, <2>2, <3>1 DEF LabelKept, LabelCaused, LabelMarked
  <2>3. CASE n # activeNode[k]
    <3>1. label'[n] = label[n]
      BY <1>4, <1>13, <2>3 DEF Fail
    <3>2. QED
      BY <1>2, <2>1, <2>3, <3>1, SameLabelKept
  <2>4. QED
    BY <2>2, <2>3
<1>14. ~Cancelled(k) /\ ~CancelledInStart(k)
  BY DEF LabelInv, Cancelled, CancelledInStart
<1>15. TaskStep(k)
  BY DEF RunStep
<1>16. QED
  BY <1>7, <1>8, <1>9, <1>10, <1>11, <1>12, <1>13, <1>14, <1>15 DEF TaskStep

LEMMA RunStepLabelInv ==
  ASSUME SchedulerInv, LabelInv, NEW k \in Scheduled, RunStep(k)
  PROVE  LabelInv'
<1>1. /\ k \in running /\ stage[k] \in Live /\ Verdict(k) = "none"
      /\ stage'[k] # "unstarted"
      /\ \A j \in Scheduled \ {k} :
           stage'[j] = stage[j] /\ activeNode'[j] = activeNode[j]
      /\ \A j \in Scheduled : Verdict(j)' = Verdict(j)
      /\ UNCHANGED <<running, phase>>
  BY TaskStepKeeps
<1>2. RowsTellStages'
  BY <1>1 DEF LabelInv, RowsTellStages
<1>3. BlamedOnUpstream'
  BY RunStepBlames DEF LabelInv
<1>4. phase \in Awaiting /\ UNCHANGED phase
  BY <1>1 DEF RunStep
<1>5. ASSUME Going'
      PROVE  /\ cancelRequested' = {}
             /\ \A j \in Scheduled : stage'[j] = "crash" => j \in running'
             /\ Crashed' \/ \A n \in Nodes : LabelKept(n)'
  <2>1. Going
    BY <1>4, <1>5 DEF Going
  <2>2. cancelRequested' = cancelRequested
    BY DEF RunStep, TaskStep, MissTarget, HitTarget, StartBody, MissInput,
           RestoreInput, SaveInput, InputRestored, TargetPasses, TargetExpectedFailure, Fail,
           Cancelled, CancelledInStart
  <2>3. ~Crashed' => \A n \in Nodes : LabelKept(n)'
    BY <2>1, RunStepKeepsLabels
  <2>4. QED
    BY <1>1, <2>1, <2>2, <2>3 DEF LabelInv
<1>6. QED
  BY <1>2, <1>3, <1>4, <1>5 DEF LabelInv

------------------------------------------------------------------------------
(* The steps that write rows *)

\* A key upstream of another is not a consumer of it.
LEMMA ConsumerNodes ==
  ASSUME SchedulerInv, BlamedOnUpstream, NEW k \in Scheduled,
         NEW c \in Scheduled, k \in UpstreamKeys(c)
  PROVE  c[2] \in Consumers[FailedNode(k)]
<1>1. /\ k[2] \in Nodes /\ c[2] \in Nodes
      /\ k[2] \in Upstream[c[2]] /\ k[2] # c[2]
  BY DEF UpstreamKeys, Scheduled
<1>2. FailedNode(k) \in Upstream[k[2]] /\ Upstream[k[2]] \subseteq Nodes
  BY <1>1, UpstreamClosed DEF FailedNode, BlamedOnUpstream
<1>3. Upstream[k[2]] \subseteq Upstream[c[2]]
  BY <1>1, UpstreamTransitive
<1>4. c[2] \notin Upstream[k[2]]
  <2>1. PICK d \in NodeDeps[c[2]] : k[2] \in Upstream[d]
    BY <1>1, UpstreamUnfold
  <2>2. d \in Nodes
    BY <1>1, <2>1, UpstreamOfDependency
  <2>3. QED
    BY <1>1, <2>1, <2>2, UpstreamTransitive, NotUpstreamOfDependency
<1>5. QED
  BY <1>1, <1>2, <1>3, <1>4 DEF Consumers

\* A round of rows is told by the stages.
LEMMA RowsAfterReport ==
  ASSUME SchedulerInv, RowsTellStages, NEW k \in running, NEW s \in Ran,
         NEW C \in SUBSET pending, Report(k, s, C), UNCHANGED stage,
         stage[k] = CASE s = "PASS" -> "pass" [] s = "FAIL" -> "fail"
                      [] s = "XFAIL" -> "xfail" [] s = "XPASS" -> "xpass"
  PROVE  /\ RowsTellStages'
         /\ \A j \in Scheduled :
              Verdict(j)' = IF j = k THEN s
                            ELSE IF j \in C THEN "CANCEL" ELSE Verdict(j)
<1>1. s \in Statuses /\ \A j \in C : stage[j] = "unstarted"
  BY DEF Ran, SchedulerInv, KeysAccounted
<1>2. \A j \in Scheduled :
         Verdict(j)' = IF j = k THEN s
                       ELSE IF j \in C THEN "CANCEL" ELSE Verdict(j)
  BY <1>1, VerdictsAfterReport
<1>3. QED
  BY <1>1, <1>2 DEF RowsTellStages, Ran

(***************************************************************************)
(* The cancellation of the consumers of k.  `shown` is what the row of k   *)
(* has done to the labels before.                                          *)
(***************************************************************************)
LEMMA CancellationKeepsLabels ==
  ASSUME SchedulerInv, BlamedOnUpstream, NEW k \in Scheduled,
         UNCHANGED <<stage, activeNode>>,
         NEW shown \in [Nodes -> Labels], label' = CancelConsumers(k, shown),
         NEW s, NEW C, \A j \in C : j \in Scheduled /\ k \in UpstreamKeys(j),
         \A j \in Scheduled :
           Verdict(j)' = IF j = k THEN s
                         ELSE IF j \in C THEN "CANCEL" ELSE Verdict(j),
         NEW n \in Nodes, LabelKept(n), shown[n] = label[n],
         k[2] # n \/ (Shown(k) /\ s # "CANCEL")
  PROVE  LabelKept(n)'
<1>1. InBody(n)' <=> InBody(n)
  BY DEF InBody
<1>2. CASE label'[n] = label[n]
  <2>1. LabelCaused(n)'
    BY <1>1, <1>2 DEF LabelKept, LabelCaused
  <2>2. \A j \in C : j[2] = n => label'[n] \notin {"WAIT", "CACHE"}
    BY ConsumerNodes DEF CancelConsumers, Emit, NextLabel, EventKinds
  <2>3. LabelMarked(n)'
    BY <1>1, <1>2, <2>2 DEF LabelKept, LabelMarked, Shown, Ran
  <2>4. QED
    BY <2>1, <2>3 DEF LabelKept
<1>3. CASE label'[n] # label[n]
  <2>1. label'[n] = "CANCEL" /\ label[n] \notin {"PASS", "FAIL", "XFAIL", "XPASS"}
    BY <1>3 DEF CancelConsumers, Emit, NextLabel, EventKinds
  <2>2. label[n] \in {"WAIT", "CACHE", "RUN"}
    BY <1>3, <2>1 DEF SchedulerInv, TypeOK, TaskTypeOK, Labels
  <2>3. \A j \in Scheduled : j[2] = n /\ Shown(j)' => Shown(j)
    BY DEF Shown, Ran
  <2>4. QED
    BY <1>1, <2>1, <2>2, <2>3 DEF LabelKept, LabelCaused, LabelMarked
<1>4. QED
  BY <1>2, <1>3

\* What a processed task leaves alone, and that its rows keep the labels.
LEMMA SettleLabelInv ==
  ASSUME SchedulerInv, LabelInv, NEW k \in Scheduled, TakeDone(k),
         stage[k] # "crash",
         UNCHANGED <<stage, activeNode, cancelRequested>>,
         phase' \in {"launch", "process"}, RowsTellStages',
         ~Crashed => \A n \in Nodes : LabelKept(n)'
  PROVE  LabelInv'
<1>1. Going /\ running' = running \ {k} /\ phase' # "returned"
  BY DEF Going, TakeDone
<1>2. BlamedOnUpstream'
  BY DEF LabelInv, BlamedOnUpstream
<1>3. Crashed' <=> Crashed
  BY DEF Crashed
<1>4. QED
  BY <1>1, <1>2, <1>3 DEF LabelInv

LEMMA PassLabelInv ==
  ASSUME SchedulerInv, LabelInv, NEW k \in Scheduled, ProcessPass(k)
  PROVE  LabelInv'
<1>1. k \in running /\ TakeDone(k) /\ stage[k] = "pass" /\ UNCHANGED <<stage, activeNode>>
  BY DEF ProcessPass, TakeDone, SchedulerInv, TypeOK
<1>2. /\ RowsTellStages'
      /\ \A j \in Scheduled :
           Verdict(j)' = IF j = k THEN "PASS"
                         ELSE IF j \in {} THEN "CANCEL" ELSE Verdict(j)
  <2>1. Report(k, "PASS", {}) /\ {} \in SUBSET pending /\ "PASS" \in Ran
    BY DEF ProcessPass, Ran
  <2>2. QED
    BY <1>1, <2>1, RowsAfterReport DEF LabelInv
<1>3. ASSUME NEW n \in Nodes, LabelKept(n)
      PROVE  LabelKept(n)'
  <2>1. label \in [Nodes -> Labels]
    BY DEF SchedulerInv, TypeOK, TaskTypeOK
  <2>2. CASE n = k[2]
    <3>1. label'[n] = "PASS"
      BY <2>1, <2>2 DEF ProcessPass, Emit, NextLabel, EventKinds
    <3>2. QED
      BY <1>1, <2>2, <3>1 DEF LabelKept, LabelCaused, LabelMarked
  <2>3. CASE n # k[2]
    <3>1. label'[n] = label[n]
      BY <2>1, <2>3 DEF ProcessPass, Emit
    <3>2. InBody(n)' <=> InBody(n)
      BY <1>1 DEF InBody
    <3>3. LabelCaused(n)'
      BY <1>1, <1>3, <3>1, <3>2 DEF LabelKept, LabelCaused
    <3>4. LabelMarked(n)'
      BY <1>1, <1>2, <1>3, <2>3, <3>1, <3>2 DEF LabelKept, LabelMarked, Shown
    <3>5. QED
      BY <3>3, <3>4 DEF LabelKept
  <2>4. QED
    BY <2>2, <2>3
<1>4. ~Crashed => \A n \in Nodes : LabelKept(n)'
  BY <1>3 DEF LabelInv, TakeDone, ProcessPass, Going
<1>5. QED
  BY <1>1, <1>2, <1>4, SettleLabelInv DEF ProcessPass, NextDone

LEMMA XfailLabelInv ==
  ASSUME SchedulerInv, LabelInv, NEW k \in Scheduled, ProcessXfail(k)
  PROVE  LabelInv'
<1>1. k \in running /\ TakeDone(k) /\ stage[k] = "xfail" /\ UNCHANGED <<stage, activeNode>>
  BY DEF ProcessXfail, TakeDone, SchedulerInv, TypeOK
<1>2. /\ RowsTellStages'
      /\ \A j \in Scheduled :
           Verdict(j)' = IF j = k THEN "XFAIL"
                         ELSE IF j \in Blocked(k) THEN "CANCEL" ELSE Verdict(j)
  <2>1. Report(k, "XFAIL", Blocked(k)) /\ Blocked(k) \in SUBSET pending /\ "XFAIL" \in Ran
    BY BlockedClosed DEF ProcessXfail, Ran
  <2>2. QED
    BY <1>1, <2>1, RowsAfterReport DEF LabelInv
<1>3. ASSUME NEW n \in Nodes, LabelKept(n)
      PROVE  LabelKept(n)'
  <2>1. label \in [Nodes -> Labels] /\ label' = CancelConsumers(k, label)
    BY DEF SchedulerInv, TypeOK, TaskTypeOK, ProcessXfail
  <2>2. \A j \in Blocked(k) : j \in Scheduled /\ k \in UpstreamKeys(j)
    BY BlockedClosed, BlockedAreConsumers DEF SchedulerInv, TypeOK
  <2>3. Shown(k) /\ "XFAIL" # "CANCEL" /\ BlamedOnUpstream
    BY <1>1 DEF Shown, LabelInv
  <2>4. QED
    BY <1>1, <1>2, <1>3, <2>1, <2>2, <2>3, CancellationKeepsLabels
<1>4. ~Crashed => \A n \in Nodes : LabelKept(n)'
  BY <1>3 DEF LabelInv, TakeDone, ProcessXfail, Going
<1>5. QED
  BY <1>1, <1>2, <1>4, SettleLabelInv DEF ProcessXfail, NextDone

LEMMA FailureLabelInv ==
  ASSUME SchedulerInv, LabelInv, NEW k \in Scheduled, ProcessFailure(k)
  PROVE  LabelInv'
<1>1. k \in running /\ TakeDone(k) /\ stage[k] \in {"fail", "xpass"}
         /\ UNCHANGED <<stage, activeNode>>
  BY DEF ProcessFailure, TakeDone, SchedulerInv, TypeOK
<1>2. /\ RowsTellStages'
      /\ \A j \in Scheduled :
           Verdict(j)' = IF j = k THEN FailureStatus(k)
                         ELSE IF j \in Blocked(k) THEN "CANCEL" ELSE Verdict(j)
  <2>1. PICK s \in {"FAIL", "XPASS"} :
          s = FailureStatus(k) /\ stage[k] = IF s = "FAIL" THEN "fail" ELSE "xpass"
    BY <1>1 DEF FailureStatus
  <2>2. Report(k, s, Blocked(k)) /\ Blocked(k) \in SUBSET pending /\ s \in Ran
    BY <2>1, BlockedClosed DEF ProcessFailure, Ran
  <2>3. stage[k] = CASE s = "PASS" -> "pass" [] s = "FAIL" -> "fail"
                     [] s = "XFAIL" -> "xfail" [] s = "XPASS" -> "xpass"
    BY <2>1
  <2>4. /\ RowsTellStages'
        /\ \A j \in Scheduled :
             Verdict(j)' = IF j = k THEN s
                           ELSE IF j \in Blocked(k) THEN "CANCEL" ELSE Verdict(j)
    BY <1>1, <2>2, <2>3, RowsAfterReport DEF LabelInv
  <2>5. QED
    BY <2>1, <2>4
<1>3. ASSUME NEW n \in Nodes, LabelKept(n)
      PROVE  LabelKept(n)'
  <2>1. /\ FailureLabels(k) \in [Nodes -> Labels]
        /\ label' = CancelConsumers(k, FailureLabels(k))
    BY FailureLabelsType DEF SchedulerInv, ProcessFailure
  <2>2. \A j \in Blocked(k) : j \in Scheduled /\ k \in UpstreamKeys(j)
    BY BlockedClosed, BlockedAreConsumers DEF SchedulerInv, TypeOK
  <2>3. label \in [Nodes -> Labels] /\ BlamedOnUpstream
    BY DEF SchedulerInv, TypeOK, TaskTypeOK, LabelInv
  <2>4. CASE n = k[2]
    <3>1. FailureLabels(k)[n] = IF stage[k] = "xpass" THEN "XPASS" ELSE "FAIL"
      BY <2>3, <2>4 DEF FailureLabels, Emit, NextLabel, EventKinds
    <3>2. label'[n] = IF stage[k] = "xpass" THEN "XPASS" ELSE "FAIL"
      BY <2>1, <3>1 DEF CancelConsumers, Emit, NextLabel, EventKinds
    <3>3. QED
      BY <1>1, <2>4, <3>2 DEF LabelKept, LabelCaused, LabelMarked
  <2>5. CASE n # k[2]
    <3>1. FailureLabels(k)[n] = label[n]
      BY <2>3, <2>5 DEF FailureLabels, Emit
    <3>2. QED
      BY <1>1, <1>2, <1>3, <2>1, <2>2, <2>3, <2>5, <3>1, CancellationKeepsLabels, SMTT(30)
  <2>6. QED
    BY <2>4, <2>5
<1>4. ~Crashed => \A n \in Nodes : LabelKept(n)'
  BY <1>3 DEF LabelInv, TakeDone, ProcessFailure, Going
<1>5. UNCHANGED cancelRequested /\ stage[k] # "crash"
  BY <1>1 DEF ProcessFailure
<1>6. QED
  BY <1>1, <1>2, <1>4, <1>5, SettleLabelInv DEF ProcessFailure, NextDone

------------------------------------------------------------------------------
(* The other steps of the coroutine *)

LEMMA LaunchLabelInv ==
  ASSUME SchedulerInv, LabelInv, NEW k \in Scheduled, Launch(k)
  PROVE  LabelInv'
<1>1. k \in pending /\ stage[k] = "unstarted" /\ report[k] = <<>> /\ Going
  BY DEF Launch, Ready, Going, SchedulerInv, KeysAccounted
<1>2. /\ running' = running \cup {k} /\ stage' = [stage EXCEPT ![k] = "load"]
      /\ activeNode' = [activeNode EXCEPT ![k] = NoNode]
      /\ UNCHANGED <<report, phase, label, cancelRequested>>
  BY DEF Launch, Go
<1>3. stage \in [Scheduled -> {"unstarted"} \cup Live \cup Outcomes]
         /\ activeNode \in [Scheduled -> Nodes \cup {NoNode}]
  BY DEF SchedulerInv, TypeOK, TaskTypeOK
<1>4. \A j \in Scheduled : Verdict(j)' = Verdict(j)
  BY <1>2 DEF Verdict
<1>5. Verdict(k) = "none"
  BY <1>1 DEF Verdict
<1>6. /\ stage'[k] = "load" /\ activeNode'[k] = NoNode
      /\ \A j \in Scheduled \ {k} :
           stage'[j] = stage[j] /\ activeNode'[j] = activeNode[j]
  BY <1>2, <1>3
<1>7. RowsTellStages' /\ BlamedOnUpstream'
  BY <1>4, <1>5, <1>6 DEF LabelInv, RowsTellStages, BlamedOnUpstream
<1>8. ASSUME NEW n \in Nodes, LabelKept(n)
      PROVE  LabelKept(n)'
  <2>1. InBody(n) => InBody(n)'
    BY <1>1, <1>6 DEF InBody
  <2>2. LabelCaused(n)'
    BY <1>1, <1>2, <1>6, <1>8, <2>1 DEF LabelKept, LabelCaused
  <2>3. LabelMarked(n)'
    BY <1>1, <1>2, <1>4, <1>6, <1>8, <2>1 DEF LabelKept, LabelMarked, Shown
  <2>4. QED
    BY <2>2, <2>3 DEF LabelKept
<1>9. Crashed => Crashed'
  BY <1>1, <1>6 DEF Crashed
<1>10. Going' /\ phase' # "returned"
  BY <1>1, <1>2 DEF Going
<1>11. QED
  BY <1>1, <1>2, <1>6, <1>7, <1>8, <1>9, <1>10 DEF LabelInv

\* The steps that write no row and start no task, and the stopping failure.
LEMMA QuietLabelInv ==
  ASSUME SchedulerInv, SchedulerInv', LabelInv, UNCHANGED keepGoing,
         Wait \/ Leave \/ Collect \/ ReturnFailFast \/ Unwind \/ Interrupt
           \/ Terminated \/ UNCHANGED vars \/ \E k \in Scheduled : ProcessCrash(k)
  PROVE  LabelInv'
<1>1. UNCHANGED <<stage, activeNode, report, label>>
  BY DEF Wait, Leave, Collect, ReturnFailFast, Unwind, Interrupt, Terminated,
         ProcessCrash, vars, taskVars, schedulerVars
<1>2. \A j \in Scheduled : Verdict(j)' = Verdict(j)
  BY <1>1 DEF Verdict
<1>3. RowsTellStages' /\ BlamedOnUpstream' /\ (Crashed' <=> Crashed)
  BY <1>1, <1>2 DEF LabelInv, RowsTellStages, BlamedOnUpstream, Crashed
<1>4. ASSUME NEW n \in Nodes
      PROVE  /\ InBody(n)' <=> InBody(n)
             /\ LabelKept(n)' <=> LabelKept(n)
  <2>1. InBody(n)' <=> InBody(n)
    BY <1>1 DEF InBody
  <2>2. QED
    BY <1>1, <1>2, <2>1 DEF LabelKept, LabelCaused, LabelMarked, Shown
<1>5. ASSUME Going'
      PROVE  Going /\ UNCHANGED <<cancelRequested, running>>
  BY <1>5 DEF Wait, Leave, Collect, ReturnFailFast, Unwind, Interrupt, Terminated,
              ProcessCrash, LaunchesNoMore, Going, vars, taskVars, schedulerVars
<1>6. ASSUME (phase = "returned" /\ keepGoing)'
      PROVE  \A n \in Nodes : LabelKept(n) /\ ~InBody(n)
  <2>1. CASE Leave
    <3>1. Going /\ running = {}
      BY <2>1 DEF Leave, LaunchesNoMore, Going
    <3>2. ~Crashed /\ \A n \in Nodes : ~InBody(n)
      BY <3>1 DEF LabelInv, Crashed, InBody, SchedulerInv, KeysAccounted
    <3>3. QED
      BY <3>1, <3>2 DEF LabelInv
  <2>2. CASE ~Leave
    <3>1. phase = "returned" /\ keepGoing
      BY <1>6, <2>2
      DEF Wait, Collect, ReturnFailFast, Unwind, Interrupt, Terminated,
          ProcessCrash, vars, schedulerVars, SchedulerInv, EndsWell
    <3>2. QED
      BY <3>1 DEF LabelInv
  <2>3. QED
    BY <2>1, <2>2
<1>7. Going' => /\ cancelRequested' = {}
                /\ \A k \in Scheduled : stage'[k] = "crash" => k \in running'
                /\ Crashed' \/ \A n \in Nodes : LabelKept(n)'
  BY <1>1, <1>3, <1>4, <1>5 DEF LabelInv
<1>8. (phase = "returned" /\ keepGoing)' =>
         \A n \in Nodes : LabelKept(n)' /\ ~InBody(n)'
  BY <1>4, <1>6
<1>9. QED
  BY <1>3, <1>7, <1>8 DEF LabelInv

LEMMA FailFastLabelInv ==
  ASSUME SchedulerInv, LabelInv, NEW k \in Scheduled, ProcessFailFast(k)
  PROVE  LabelInv'
<1>1. k \in running /\ stage[k] \in {"fail", "xpass"} /\ UNCHANGED <<stage, activeNode>>
  BY DEF ProcessFailFast, TakeDone, SchedulerInv, TypeOK
<1>2. RowsTellStages'
  <2>1. PICK s \in {"FAIL", "XPASS"} :
          s = FailureStatus(k) /\ stage[k] = IF s = "FAIL" THEN "fail" ELSE "xpass"
    BY <1>1 DEF FailureStatus
  <2>2. Report(k, s, {}) /\ {} \in SUBSET pending /\ s \in Ran
    BY <2>1 DEF ProcessFailFast, Ran
  <2>3. stage[k] = CASE s = "PASS" -> "pass" [] s = "FAIL" -> "fail"
                     [] s = "XFAIL" -> "xfail" [] s = "XPASS" -> "xpass"
    BY <2>1
  <2>4. QED
    BY <1>1, <2>2, <2>3, RowsAfterReport DEF LabelInv
<1>3. BlamedOnUpstream'
  BY <1>1 DEF LabelInv, BlamedOnUpstream
<1>4. ~Going' /\ phase' # "returned"
  BY DEF ProcessFailFast, Going
<1>5. QED
  BY <1>2, <1>3, <1>4 DEF LabelInv

LEMMA NextLabelInv ==
  SchedulerInv /\ SchedulerInv' /\ LabelInv /\ [Next]_vars => LabelInv'
<1> SUFFICES ASSUME SchedulerInv, SchedulerInv', LabelInv, [Next]_vars
             PROVE  LabelInv'
  OBVIOUS
<1>1. UNCHANGED keepGoing
  BY OptionsFixed DEF options
<1>2. CASE \E k \in Scheduled : Launch(k) \/ ProcessPass(k) \/ ProcessXfail(k)
             \/ ProcessFailure(k) \/ ProcessFailFast(k) \/ RunStep(k)
  BY <1>2, LaunchLabelInv, PassLabelInv, XfailLabelInv, FailureLabelInv,
     FailFastLabelInv, RunStepLabelInv
<1>3. CASE Wait \/ Leave \/ Collect \/ ReturnFailFast \/ Unwind \/ Interrupt
             \/ Terminated \/ UNCHANGED vars \/ \E k \in Scheduled : ProcessCrash(k)
  BY <1>1, <1>3, QuietLabelInv
<1>4. QED
  BY <1>2, <1>3 DEF Next, SchedulerStep

LEMMA LabelInvariance == Spec => []LabelInv
BY Invariance, InitLabelInv, NextLabelInv, PTL DEF Spec

(***************************************************************************)
(* Under --keep-going the tree ends up showing what the report says, with  *)
(* a node of two files showing the verdict of either (progress.py:218-245, *)
(* scheduler.py:94-170): no interleaving of the runs' own events with      *)
(* those of the scheduler leaves a stale label behind.                     *)
(***************************************************************************)
THEOREM LabelsTellVerdicts == Spec => []LabelsMatchReport
<1>1. SchedulerInv /\ LabelInv => LabelsMatchReport
  <2> SUFFICES ASSUME SchedulerInv, LabelInv, phase = "returned", keepGoing,
                      NEW k \in Scheduled
               PROVE  \/ label[k[2]] \in UNION {VerdictLabels(j) :
                                           j \in {j \in Scheduled : j[2] = k[2]}}
                      \/ /\ label[k[2]] = "FAIL"
                         /\ \E j \in Scheduled :
                              stage[j] = "fail" /\ activeNode[j] = k[2]
    BY DEF LabelsMatchReport
  <2> DEFINE n == k[2]
  <2>1. n \in Nodes /\ LabelKept(n) /\ ~InBody(n)
    BY DEF LabelInv, Scheduled
  <2>2. \A j \in Scheduled : Verdict(j) \in Statuses
    BY VerdictOfKey DEF SchedulerInv, EndsWell
  <2>3. \A j \in Scheduled : Verdict(j) = "CANCEL" \/ Verdict(j) \in Ran
    BY <2>2 DEF Ran
  <2>4. SUFFICES ASSUME ~(label[n] = "FAIL" /\ \E j \in Scheduled :
                                stage[j] = "fail" /\ activeNode[j] = n)
                 PROVE  \E j \in Scheduled : j[2] = n /\ Verdict(j) = label[n]
    BY <2>2 DEF VerdictLabels
  <2>5. label[n] \in Labels /\ label[n] \notin {"WAIT", "CACHE", "RUN"}
    BY <2>1, <2>3
    DEF LabelKept, LabelCaused, LabelMarked, Shown, SchedulerInv, TypeOK, TaskTypeOK
  <2>6. CASE label[n] = "CANCEL"
    BY <2>1, <2>3, <2>6 DEF LabelKept, LabelMarked, Shown
  <2>7. CASE label[n] \in Ran
    BY <2>1, <2>2, <2>4, <2>7
    DEF LabelKept, LabelCaused, LabelInv, RowsTellStages, Ran
  <2>8. QED
    BY <2>5, <2>6, <2>7 DEF Labels, Ran
<1>2. QED
  BY <1>1, LabelInvariance, Invariance, PTL

------------------------------------------------------------------------------
(* Shared prerequisites: the locks and the checkpoints *)

\* A node that is being restored was found, or has just been published.
Restoring(k, n) == stage[k] \in {"restore", "rebuilt"} /\ activeNode[k] = n

\* One run at a time holds the lock of a node, the node it executes included.
LocksExclude ==
  /\ \A j, k \in Scheduled : j # k => held[j] \cap held[k] = {}
  /\ \A k \in Scheduled : stage[k] = "body" => activeNode[k] \in held[k]

\* A passed node is found by every later lookup.
PassedAreStored ==
  \A k \in Scheduled : stage[k] = "pass" =>
    k[2] \in stored \ ExpectedFailures

\* What a run is about to execute cannot be found, and is its own node.
HeldAreMissing ==
  ~forced => \A k \in Scheduled :
    /\ \A n \in held[k] : Restoring(k, n) \/ n \in ExpectedFailures \/ n \notin stored
    /\ stage[k] = "body" => activeNode[k] = k[2]

OnceInv == LocksExclude /\ PassedAreStored /\ HeldAreMissing

LEMMA InitOnceInv == Init => OnceInv
BY DEF Init, TaskInit, OnceInv, LocksExclude, PassedAreStored, HeldAreMissing

\* Without --force the body that starts is the one of the target: its inputs
\* have passed, so they were found.
LEMMA OnlyOwnBody ==
  ASSUME SchedulerInv, LabelInv, OnceInv, ~forced, NEW k \in Scheduled,
         phase \in Awaiting, NEW n \in Nodes, StartBody(k, n)
  PROVE  n = k[2] /\ n \in held[k] /\ (n \in ExpectedFailures \/ n \notin stored)
<1>1. stage[k] = "resolve" /\ n \in held[k]
  BY DEF StartBody, Resolving
<1>2. n \in ExpectedFailures \/ n \notin stored
  BY <1>1 DEF OnceInv, HeldAreMissing, Restoring
<1>3. k \in running /\ n \in Upstream[k[2]]
  BY <1>1 DEF SchedulerInv, KeysAccounted, TypeOK, TaskTypeOK
<1>4. ASSUME n # k[2]
      PROVE  FALSE
  <2>1. PICK j \in Scheduled : stage[j] = "pass" /\ j[2] = n
    BY <1>3, <1>4, InputHasPassed DEF LabelInv
  <2>2. QED
    BY <1>2, <2>1 DEF OnceInv, PassedAreStored
<1>5. QED
  BY <1>1, <1>2, <1>4

\* What a step of a task does to the locks and to the store.
LEMMA RunStepLocks ==
  ASSUME SchedulerInv, NEW k \in Scheduled, RunStep(k)
  PROVE  /\ held \in [Scheduled -> SUBSET Nodes]
         /\ \A j \in Scheduled \ {k} : held'[j] = held[j]
         /\ \A n \in held'[k] : n \in held[k] \/ LockFree(n)
         /\ \/ UNCHANGED stored
            \/ /\ stage[k] = "body" /\ activeNode[k] \notin ExpectedFailures
               /\ stored' = stored \cup {activeNode[k]}
         /\ UNCHANGED forced
<1>1. /\ held \in [Scheduled -> SUBSET Nodes]
      /\ activeNode \in [Scheduled -> Nodes \cup {NoNode}]
  BY DEF SchedulerInv, TypeOK, TaskTypeOK
<1>2. \E H : held' = [held EXCEPT ![k] = H]
  BY <1>1 DEF RunStep, TaskStep, MissTarget, HitTarget, MissInput, RestoreInput,
      LookUpInput, StartBody, SaveInput, InputRestored, TargetPasses,
      TargetExpectedFailure, Fail, Cancelled, CancelledInStart, Ends
<1>3. \A n \in held'[k] : n \in held[k] \/ LockFree(n)
  BY <1>1 DEF RunStep, TaskStep, MissTarget, HitTarget, MissInput, RestoreInput,
      LookUpInput, StartBody, SaveInput, InputRestored, TargetPasses,
      TargetExpectedFailure, Fail, Cancelled, CancelledInStart, Ends
<1>4. \/ UNCHANGED stored
      \/ /\ stage[k] = "body" /\ activeNode[k] \notin ExpectedFailures
         /\ stored' = stored \cup {activeNode[k]}
  BY DEF RunStep, TaskStep, MissTarget, HitTarget, MissInput, RestoreInput,
      LookUpInput, StartBody, SaveInput, InputRestored, TargetPasses,
      TargetExpectedFailure, Fail, Cancelled, CancelledInStart
<1>5. QED
  BY <1>1, <1>2, <1>3, <1>4 DEF RunStep, options

LEMMA RunStepOnceInv ==
  ASSUME SchedulerInv, LabelInv, OnceInv, NEW k \in Scheduled, RunStep(k)
  PROVE  OnceInv'
<1>1. /\ held \in [Scheduled -> SUBSET Nodes]
      /\ \A j \in Scheduled \ {k} : held'[j] = held[j]
      /\ \A n \in held'[k] : n \in held[k] \/ LockFree(n)
      /\ \/ UNCHANGED stored
         \/ /\ stage[k] = "body" /\ activeNode[k] \notin ExpectedFailures
            /\ stored' = stored \cup {activeNode[k]}
      /\ UNCHANGED forced
  BY RunStepLocks
<1>2. \A j \in Scheduled \ {k} :
         stage'[j] = stage[j] /\ activeNode'[j] = activeNode[j]
  BY TaskStepKeeps
<1>3. /\ stage \in [Scheduled -> {"unstarted"} \cup Live \cup Outcomes]
      /\ activeNode \in [Scheduled -> Nodes \cup {NoNode}]
      /\ k[2] \in Nodes
  BY DEF SchedulerInv, TypeOK, TaskTypeOK, Scheduled
<1>4. LocksExclude'
  <2>1. \A j \in Scheduled \ {k} : held'[j] \cap held'[k] = {}
    BY <1>1 DEF OnceInv, LocksExclude, LockFree
  <2>2. stage'[k] = "body" => activeNode'[k] \in held'[k]
    BY <1>1, <1>3
    DEF RunStep, TaskStep, MissTarget, HitTarget, MissInput, RestoreInput,
        LookUpInput, Resolving, StartBody, SaveInput, InputRestored, TargetPasses,
        TargetExpectedFailure, Fail, Cancelled, CancelledInStart, Go, Ends
  <2>3. QED
    BY <1>1, <1>2, <2>1, <2>2 DEF OnceInv, LocksExclude
<1>5. PassedAreStored'
  <2>1. stage'[k] = "pass" => k[2] \in stored' \ ExpectedFailures
    BY <1>3
    DEF RunStep, TaskStep, MissTarget, HitTarget, MissInput, RestoreInput,
        LookUpInput, Resolving, StartBody, SaveInput, InputRestored, TargetPasses,
        TargetExpectedFailure, Fail, Cancelled, CancelledInStart, Go, Ends, Misses
  <2>2. QED
    BY <1>1, <1>2, <2>1 DEF OnceInv, PassedAreStored
<1>6. ASSUME ~forced', NEW j \in Scheduled, j # k, NEW n \in held'[j]
      PROVE  (Restoring(j, n) \/ n \in ExpectedFailures \/ n \notin stored)'
  <2>1. n \in held[j] /\ (Restoring(j, n) \/ n \in ExpectedFailures \/ n \notin stored)
    BY <1>1, <1>6 DEF OnceInv, HeldAreMissing
  <2>2. Restoring(j, n) => Restoring(j, n)'
    BY <1>2, <1>6 DEF Restoring
  <2>3. n \notin stored => n \notin stored'
    BY <1>1, <1>6, <2>1 DEF OnceInv, LocksExclude
  <2>4. QED
    BY <2>1, <2>2, <2>3
<1>7. ASSUME ~forced', NEW n \in held'[k]
      PROVE  (Restoring(k, n) \/ n \in ExpectedFailures \/ n \notin stored)'
  <2>1. n \in held[k] =>
          Restoring(k, n) \/ n \in ExpectedFailures \/ n \notin stored
    BY <1>1, <1>7 DEF OnceInv, HeldAreMissing
  <2>2. ASSUME NEW m \in Nodes, MissInput(k, m)
        PROVE  (n \in ExpectedFailures \/ n \notin stored)'
    BY <1>1, <1>7, <2>1, <2>2
    DEF MissInput, LookUpInput, Resolving, Misses, Restoring
  <2>3. ASSUME NEW m \in Nodes, RestoreInput(k, m)
        PROVE  (Restoring(k, n) \/ n \in ExpectedFailures \/ n \notin stored)'
    BY <1>1, <1>3, <1>7, <2>1, <2>3
    DEF RestoreInput, LookUpInput, Resolving, Restoring, Go
  <2>4. ASSUME NEW m \in Nodes, StartBody(k, m)
        PROVE  (n \in ExpectedFailures \/ n \notin stored)'
    BY <1>1, <1>7, <2>1, <2>4 DEF StartBody, Resolving, Restoring
  <2>5. CASE MissTarget(k)
    BY <1>1, <1>7, <2>5 DEF MissTarget, Misses
  <2>6. CASE SaveInput(k)
    BY <1>1, <1>3, <1>7, <2>1, <2>6 DEF SaveInput, Restoring, Go
  <2>7. CASE InputRestored(k)
    BY <1>1, <1>7, <2>1, <2>7 DEF InputRestored, Restoring
  <2>8. held'[k] # {}
    BY <1>7
  <2>9. CASE HitTarget(k)
    BY <1>1, <1>7, <2>1, <2>9 DEF HitTarget, Restoring
  <2>10. ~TargetPasses(k) /\ ~TargetExpectedFailure(k) /\ ~Fail(k)
           /\ ~Cancelled(k) /\ ~CancelledInStart(k)
    BY <1>1, <2>8
    DEF TargetPasses, TargetExpectedFailure, Fail, Cancelled, CancelledInStart, Ends
  <2>11. QED
    BY <2>2, <2>3, <2>4, <2>5, <2>6, <2>7, <2>9, <2>10 DEF RunStep, TaskStep
<1>8. ASSUME ~forced', stage'[k] = "body"
      PROVE  activeNode'[k] = k[2]
  <2>1. PICK n \in Nodes : StartBody(k, n)
    BY <1>3, <1>8
    DEF RunStep, TaskStep, MissTarget, HitTarget, MissInput, RestoreInput,
        LookUpInput, Resolving, SaveInput, InputRestored, TargetPasses,
        TargetExpectedFailure, Fail, Cancelled, CancelledInStart, Go, Ends
  <2>2. n = k[2]
    BY <1>1, <1>8, <2>1, OnlyOwnBody DEF RunStep
  <2>3. QED
    BY <1>3, <2>1, <2>2 DEF StartBody, Go
<1>9. HeldAreMissing'
  BY <1>1, <1>2, <1>6, <1>7, <1>8 DEF OnceInv, HeldAreMissing
<1>10. QED
  BY <1>4, <1>5, <1>9 DEF OnceInv

LEMMA NextOnceInv == SchedulerInv /\ LabelInv /\ OnceInv /\ [Next]_vars => OnceInv'
<1> SUFFICES ASSUME SchedulerInv, LabelInv, OnceInv, [Next]_vars
             PROVE  OnceInv'
  OBVIOUS
<1> UNCHANGED forced
  BY OptionsFixed DEF options
<1>1. CASE \E k \in Scheduled : RunStep(k)
  BY <1>1, RunStepOnceInv
<1>2. CASE \E k \in Scheduled : Launch(k)
  <2>1. PICK k \in Scheduled : Launch(k)
    BY <1>2
  <2>2. k \in pending /\ stage[k] = "unstarted" /\ UNCHANGED <<held, stored>>
    BY <2>1 DEF Launch, Ready, SchedulerInv, KeysAccounted
  <2>3. /\ stage'[k] = "load"
        /\ \A j \in Scheduled \ {k} :
             stage'[j] = stage[j] /\ activeNode'[j] = activeNode[j]
    BY <2>1 DEF Launch, Go, SchedulerInv, TypeOK, TaskTypeOK
  <2>4. QED
    BY <2>2, <2>3
    DEF OnceInv, LocksExclude, PassedAreStored, HeldAreMissing, Restoring
<1>3. CASE UNCHANGED <<stage, activeNode, held, stored>>
  BY <1>3 DEF OnceInv, LocksExclude, PassedAreStored, HeldAreMissing, Restoring
<1>4. QED
  BY <1>1, <1>2, <1>3
  DEF Next, SchedulerStep, ProcessPass, ProcessXfail, ProcessFailure,
      ProcessFailFast, ProcessCrash, Wait, Leave, Collect, ReturnFailFast, Unwind,
      Interrupt, Terminated, vars, taskVars

LEMMA OnceInvariance == Spec => []OnceInv
BY Invariance, LabelInvariance, InitOnceInv, NextOnceInv, PTL DEF Spec

(***************************************************************************)
(* scheduler.py:33 and 43-45, "Run graph nodes once": without --force a    *)
(* task starts no body but its own, and only if no task of the node, in    *)
(* any file, has passed or is in that body.  It follows from the lookup    *)
(* under the lock of the node (executor.py:186-192) and from the order of  *)
(* the schedule, and from neither alone.                                   *)
(***************************************************************************)
THEOREM BodiesRunOnce == Spec => NodesRunOnce
<1>1. ASSUME SchedulerInv, LabelInv, OnceInv, [Next]_vars, NEW k \in Scheduled,
             ~forced, stage[k] # "body", stage'[k] = "body"
      PROVE  /\ activeNode'[k] = k[2]
             /\ \A j \in Scheduled : j[2] = k[2] => stage[j] \notin {"body", "pass"}
  <2>1. CASE \E j \in Scheduled : RunStep(j)
    <3>1. PICK j \in Scheduled : RunStep(j)
      BY <2>1
    <3>2. j = k
      BY <1>1, <3>1, TaskStepKeeps
    <3>3. PICK n \in Nodes : StartBody(k, n)
      BY <1>1, <3>1, <3>2
      DEF RunStep, TaskStep, MissTarget, HitTarget, MissInput, RestoreInput,
          LookUpInput, Resolving, SaveInput, InputRestored, TargetPasses,
          TargetExpectedFailure, Fail, Cancelled, CancelledInStart, Go, Ends,
          SchedulerInv, TypeOK, TaskTypeOK
    <3>4. n = k[2] /\ n \in held[k] /\ (n \in ExpectedFailures \/ n \notin stored)
      BY <1>1, <3>1, <3>2, <3>3, OnlyOwnBody DEF RunStep
    <3>5. activeNode'[k] = k[2]
      BY <1>1, <3>3, <3>4 DEF StartBody, Go, SchedulerInv, TypeOK, TaskTypeOK
    <3>6. ASSUME NEW i \in Scheduled, i[2] = k[2]
          PROVE  stage[i] \notin {"body", "pass"}
      <4>1. stage[i] # "pass"
        BY <1>1, <3>4, <3>6 DEF OnceInv, PassedAreStored
      <4>2. stage[i] # "body"
        BY <1>1, <3>4, <3>6 DEF OnceInv, LocksExclude, HeldAreMissing
      <4>3. QED
        BY <4>1, <4>2
    <3>7. QED
      BY <3>5, <3>6
  <2>2. CASE \E j \in Scheduled : Launch(j)
    BY <1>1, <2>2 DEF Launch, Go, SchedulerInv, TypeOK, TaskTypeOK
  <2>3. CASE UNCHANGED stage
    BY <1>1, <2>3
  <2>4. QED
    BY <1>1, <2>1, <2>2, <2>3
    DEF Next, SchedulerStep, ProcessPass, ProcessXfail, ProcessFailure,
        ProcessFailFast, ProcessCrash, Wait, Leave, Collect, ReturnFailFast, Unwind,
        Interrupt, Terminated, vars, taskVars
<1>2. SchedulerInv /\ LabelInv /\ OnceInv /\ [Next]_vars =>
        [\A k \in Scheduled :
           ~forced /\ stage[k] # "body" /\ stage'[k] = "body" =>
             /\ activeNode'[k] = k[2]
             /\ \A j \in Scheduled : j[2] = k[2] => stage[j] \notin {"body", "pass"}]_vars
  BY <1>1
<1>3. QED
  BY <1>2, Invariance, LabelInvariance, OnceInvariance, PTL DEF Spec, NodesRunOnce
==============================================================================
