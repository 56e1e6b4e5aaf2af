------------------------ MODULE CheckpointStoreProofs ------------------------
(***************************************************************************)
(* Proofs about CheckpointStore, for every test graph, any number of       *)
(* files, edits and builds.                                                *)
(***************************************************************************)
EXTENDS CheckpointStore, TLAPS

(* What is upstream of a node is closed, and holds the node. *)
LEMMA UpstreamClosed ==
  ASSUME NEW n \in Nodes
  PROVE  /\ n \in Upstream[n]
         /\ Upstream[n] \subseteq Nodes
         /\ DependencyClosed(Upstream[n])
<1>1. n \in Upstream[n] /\ Upstream[n] \subseteq Nodes
  BY DEF Upstream
<1>2. ASSUME NEW m \in Upstream[n], NEW d \in NodeDeps[m]
      PROVE  d \in Upstream[n]
  <2>1. m \in Nodes /\ d \in Nodes
    BY <1>1, <1>2, GraphAssumption
  <2>2. ASSUME NEW S \in SUBSET Nodes, n \in S, DependencyClosed(S)
        PROVE  d \in S
    <3>1. m \in S
      BY <2>2 DEF Upstream
    <3>2. QED
      BY <2>2, <3>1 DEF DependencyClosed
  <2>3. QED
    BY <2>1, <2>2 DEF Upstream
<1>3. QED
  BY <1>1, <1>2 DEF DependencyClosed

LEMMA UpstreamOfDependency ==
  ASSUME NEW n \in Nodes, NEW d \in NodeDeps[n]
  PROVE  d \in Nodes /\ Upstream[d] \subseteq Upstream[n]
<1>1. /\ d \in Upstream[n] /\ d \in Nodes
      /\ Upstream[n] \in SUBSET Nodes /\ DependencyClosed(Upstream[n])
  BY UpstreamClosed, GraphAssumption DEF DependencyClosed
<1>2. QED
  BY <1>1 DEF Upstream

(* A key names its node, and the key of a prerequisite can be read off it. *)
LEMMA KeyType ==
  ASSUME NEW n \in Nodes, NEW code \in SUBSET Editable, NEW options \in Runtimes
  PROVE  /\ KeyOf(n, code, options) \in Keys
         /\ KeyOf(n, code, options)[1] = n
         /\ KeyOf(n, code, options)[3] = options
BY DEF KeyOf, Keys

LEMMA KeyOfDependency ==
  ASSUME NEW n \in Nodes, NEW d \in NodeDeps[n], NEW code, NEW options
  PROVE  /\ d \in Nodes
         /\ LET k == KeyOf(n, code, options) IN
              KeyOf(d, k[2], k[3]) = KeyOf(d, code, options)
BY UpstreamOfDependency DEF KeyOf

------------------------------------------------------------------------------
(* Type correctness *)

BuildsNodes == \A t \in Nodes : work[t] # "none" => building[t] \in Nodes
TypeInv == TypeOK /\ BuildsNodes

LEMMA NoEntryType == NoEntry \in Entries
BY DEF NoEntry, Entries

LEMMA EntryType ==
  ASSUME NEW e \in Entries
  PROVE  /\ e.files \subseteq Parts /\ e.build \in Nat /\ e.bases \subseteq Keys \X Nat
         /\ \A left \in SUBSET Parts : [e EXCEPT !.files = left] \in Entries
BY DEF Entries

LEMMA StoreTypeInit == Init => TypeInv
<1> SUFFICES ASSUME Init
             PROVE  TypeInv
  OBVIOUS
<1>1. edited \subseteq Editable /\ selection \in SUBSET Files /\ runtime \in Runtimes
  BY StoreAssumption DEF Init
<1>2. hidden \subseteq {"tmp", "previous"} \X Keys /\ doomed \subseteq Keys
  BY DEF Init
<1>3. entries \in [Keys -> Entries] /\ making \in [Nodes -> Entries] /\ previous \in Entries
  BY NoEntryType DEF Init
<1>4. held \in [Nodes -> SUBSET (Keys \X Nat)]
  BY DEF Init
<1>5. verdict \in [Nodes -> {"open", "passed", "failed"}]
  BY DEF Init
<1>6. work \in [Nodes -> {"none", "body", "saving", "published"}] /\ BuildsNodes
  BY DEF Init, BuildsNodes
<1>7. building \in [Nodes -> Nodes \cup {NoNode}] /\ swapping \in Nodes \cup {NoNode}
  BY DEF Init
<1>8. phase \in {"idle", "prune", "run"} /\ command \in {"run", "prune"} /\ forced \in BOOLEAN
      /\ builds \in Nat
  BY DEF Init
<1>9. QED
  BY <1>1, <1>2, <1>3, <1>4, <1>5, <1>6, <1>7, <1>8 DEF TypeInv, TypeOK

LEMMA CurrentKeyType ==
  ASSUME TypeInv, NEW n \in Nodes
  PROVE  Key(n) \in Keys /\ Input(n, n) = <<Key(n), entries[Key(n)].build>>
         /\ entries[Key(n)] \in Entries /\ <<Key(n), entries[Key(n)].build>> \in Keys \X Nat
<1>1. Key(n) \in Keys
  BY KeyType DEF TypeInv, TypeOK, Key
<1>2. entries[Key(n)] \in Entries
  BY <1>1 DEF TypeInv, TypeOK
<1>3. QED
  BY <1>1, <1>2, EntryType DEF Input

LEMMA BodyType ==
  ASSUME TypeInv, NEW t \in Nodes, NEW n \in Nodes, StartBody(t, n)
  PROVE  TypeInv'
<1> DEFINE e == [files |-> Parts, build |-> builds + 1,
                 bases |-> {b \in held[t] : \E d \in NodeDeps[n] : b[1] = Key(d)}]
<1>1. held[t] \subseteq Keys \X Nat /\ builds + 1 \in Nat
  BY DEF TypeInv, TypeOK
<1>2. e \in Entries
  BY <1>1 DEF Entries
<1>3. making' = [making EXCEPT ![t] = e] /\ builds' = builds + 1
  BY DEF StartBody
<1> HIDE DEF e
<1>4. making' \in [Nodes -> Entries] /\ builds' \in Nat
  BY <1>1, <1>2, <1>3 DEF TypeInv, TypeOK
<1>5. work' = [work EXCEPT ![t] = "body"] /\ building' = [building EXCEPT ![t] = n]
  BY DEF StartBody
<1>6. UNCHANGED <<edited, entries, hidden, phase, command, selection, forced, runtime, doomed, verdict, held, swapping, previous>>
  BY DEF StartBody, invocation, arguments
<1>7. QED
  BY <1>4, <1>5, <1>6 DEF TypeInv, TypeOK, BuildsNodes

LEMMA StaleType == \A S, options : Stale(S, options) \subseteq Keys
BY DEF Stale

LEMMA InvokeType ==
  ASSUME TypeInv, NEW S \in Selections, NEW f \in BOOLEAN, NEW options \in Runtimes,
         InvokeRun(S, f, options) \/ InvokePrune(S)
  PROVE  TypeInv'
<1>1. S \in SUBSET Files /\ Default \in Runtimes
  BY StoreAssumption
<1>2. held' \in [Nodes -> SUBSET (Keys \X Nat)] /\ verdict' \in [Nodes -> {"open", "passed", "failed"}]
  BY DEF TypeInv, TypeOK, InvokeRun, InvokePrune, runs
<1>3. selection' \in SUBSET Files /\ command' \in {"run", "prune"} /\ forced' \in BOOLEAN
      /\ runtime' \in Runtimes /\ phase' \in {"idle", "prune", "run"}
  BY <1>1 DEF InvokeRun, InvokePrune
<1>4. doomed' \subseteq Keys
  BY StaleType DEF InvokeRun, InvokePrune
<1>5. UNCHANGED <<edited, entries, hidden, building, work, making, swapping, previous, builds>>
  BY DEF InvokeRun, InvokePrune, runs, publication
<1>6. QED
  BY <1>2, <1>3, <1>4, <1>5 DEF TypeInv, TypeOK, BuildsNodes

LEMMA RemovalType ==
  ASSUME TypeInv, (\E h \in hidden : RemoveHidden(h)) \/ (\E k \in Keys : Remove(k)) \/ Pruned \/ Exit
  PROVE  TypeInv'
<1>1. entries' \in [Keys -> Entries]
  BY NoEntryType DEF TypeInv, TypeOK, RemoveHidden, Remove, Pruned, Exit
<1>2. hidden' \subseteq hidden /\ doomed' \subseteq doomed /\ phase' \in {"idle", "prune", "run"}
  BY DEF TypeInv, TypeOK, RemoveHidden, Remove, Pruned, Exit, invocation
<1>3. UNCHANGED <<edited, arguments, runs, publication>>
  BY DEF RemoveHidden, Remove, Pruned, Exit, invocation
<1>4. QED
  BY <1>1, <1>2, <1>3 DEF TypeInv, TypeOK, BuildsNodes, arguments, runs, publication

LEMMA CrashType ==
  ASSUME TypeInv, Crash
  PROVE  TypeInv'
<1>1. entries' \in [Keys -> Entries]
  <2>1. CASE UNCHANGED entries
    BY <2>1 DEF TypeInv, TypeOK
  <2>2. ASSUME NEW k \in doomed, NEW left \in SUBSET Parts,
               entries' = [entries EXCEPT ![k].files = left]
        PROVE  entries' \in [Keys -> Entries]
    <3>1. k \in Keys /\ entries[k] \in Entries
      BY DEF TypeInv, TypeOK
    <3>2. [entries[k] EXCEPT !.files = left] \in Entries
      BY <3>1, EntryType
    <3>3. entries' = [entries EXCEPT ![k] = [entries[k] EXCEPT !.files = left]]
      BY <2>2, <3>1 DEF TypeInv, TypeOK
    <3>4. QED
      BY <3>2, <3>3 DEF TypeInv, TypeOK
  <2>3. QED
    BY <2>1, <2>2 DEF Crash
<1>2. phase' = "idle" /\ doomed' = {} /\ swapping' = NoNode /\ previous' \in Entries
      /\ work' = [n \in Nodes |-> "none"]
      /\ UNCHANGED <<edited, hidden, command, selection, forced, runtime, verdict, held, building, making, builds>>
  BY NoEntryType DEF Crash, Gone, arguments
<1>3. QED
  BY <1>1, <1>2 DEF TypeInv, TypeOK, BuildsNodes

LEMMA EditType ==
  ASSUME TypeInv, NEW n \in Nodes, Edit(n)
  PROVE  TypeInv'
BY DEF Edit, TypeInv, TypeOK, BuildsNodes, invocation, arguments, runs, publication

LEMMA RunType ==
  ASSUME TypeInv, NEW t \in Nodes,
         \/ Hit(t) \/ Save(t) \/ Abandon(t) \/ MoveAside(t)
         \/ Swap(t) \/ SwapFails(t) \/ Cleanup(t)
         \/ \E n \in Nodes : Restore(t, n)
  PROVE  TypeInv'
<1> USE DEF invocation, arguments, runs, publication
<1>1. CASE Hit(t)
  BY <1>1 DEF Hit, TypeInv, TypeOK, BuildsNodes
<1>2. CASE Save(t)
  <2>1. building[t] \in Nodes
    BY <1>2 DEF Save, TypeInv, BuildsNodes
  <2>2. Key(building[t]) \in Keys
    BY <2>1, CurrentKeyType
  <2>3. hidden' \subseteq {"tmp", "previous"} \X Keys
    BY <1>2, <2>2 DEF Save, TypeInv, TypeOK
  <2>4. QED
    BY <1>2, <2>1, <2>3 DEF Save, TypeInv, TypeOK, BuildsNodes
<1>3. CASE Abandon(t)
  <2>1. hidden' \subseteq hidden
    BY <1>3 DEF Abandon
  <2>2. QED
    BY <1>3, <2>1 DEF Abandon, Fails, TypeInv, TypeOK, BuildsNodes
<1>4. CASE MoveAside(t)
  <2> DEFINE k == Key(building[t])
  <2>1. k \in Keys /\ entries[k] \in Entries
    BY <1>4, CurrentKeyType DEF MoveAside, TypeInv, BuildsNodes
  <2>2. previous' = entries[k] /\ entries' = [entries EXCEPT ![k] = NoEntry]
        /\ hidden' \subseteq hidden \cup {<<"previous", k>>} /\ swapping' = t
    BY <1>4 DEF MoveAside
  <2>3. UNCHANGED <<edited, phase, command, selection, forced, runtime, doomed, verdict, held,
                    building, work, making, builds>>
    BY <1>4 DEF MoveAside
  <2> HIDE DEF k
  <2>4. entries' \in [Keys -> Entries] /\ previous' \in Entries
    BY <2>1, <2>2, NoEntryType DEF TypeInv, TypeOK
  <2>5. hidden' \subseteq {"tmp", "previous"} \X Keys
    BY <2>1, <2>2 DEF TypeInv, TypeOK
  <2>6. QED
    BY <2>2, <2>3, <2>4, <2>5 DEF TypeInv, TypeOK, BuildsNodes
<1>5. CASE Swap(t)
  <2>1. entries' \in [Keys -> Entries]
    BY <1>5 DEF Swap, TypeInv, TypeOK
  <2>2. QED
    BY <1>5, <2>1 DEF Swap, TypeInv, TypeOK, BuildsNodes
<1>6. CASE SwapFails(t)
  <2>1. entries' \in [Keys -> Entries] /\ hidden' \subseteq hidden
    BY <1>6 DEF SwapFails, TypeInv, TypeOK
  <2>2. previous' \in Entries /\ swapping' = NoNode
    BY <1>6, NoEntryType DEF SwapFails, NoSwap
  <2>3. QED
    BY <1>6, <2>1, <2>2 DEF SwapFails, Fails, NoSwap, TypeInv, TypeOK, BuildsNodes
<1>7. CASE Cleanup(t)
  <2>1. <<Key(building[t]), entries[Key(building[t])].build>> \in Keys \X Nat
    BY <1>7, CurrentKeyType DEF Cleanup, TypeInv, BuildsNodes
  <2>2. held' \in [Nodes -> SUBSET (Keys \X Nat)]
    BY <1>7, <2>1 DEF Cleanup, Input, TypeInv, TypeOK
  <2>3. verdict' \in [Nodes -> {"open", "passed", "failed"}] /\ hidden' \subseteq hidden
    BY <1>7 DEF Cleanup, TypeInv, TypeOK
  <2>4. previous' \in Entries /\ swapping' = NoNode
    BY <1>7, NoEntryType DEF Cleanup, NoSwap
  <2>5. QED
    BY <1>7, <2>2, <2>3, <2>4 DEF Cleanup, NoSwap, TypeInv, TypeOK, BuildsNodes
<1>8. ASSUME NEW n \in Nodes, Restore(t, n)
      PROVE  TypeInv'
  <2>1. held' \in [Nodes -> SUBSET (Keys \X Nat)]
    BY <1>8, CurrentKeyType DEF Restore, Input, TypeInv, TypeOK
  <2>2. QED
    BY <1>8, <2>1 DEF Restore, TypeInv, TypeOK, BuildsNodes
<1>9. QED
  BY <1>1, <1>2, <1>3, <1>4, <1>5, <1>6, <1>7, <1>8

LEMMA StoreTypeStep == TypeInv /\ [Next]_vars => TypeInv'
<1> SUFFICES ASSUME TypeInv, [Next]_vars
             PROVE  TypeInv'
  OBVIOUS
<1>1. CASE UNCHANGED vars
  BY <1>1 DEF vars, TypeInv, TypeOK, BuildsNodes, invocation, arguments, runs, publication
<1>2. CASE Next
  <2>1. ASSUME NEW S \in Selections, NEW f \in BOOLEAN, NEW options \in Runtimes,
               InvokeRun(S, f, options) \/ InvokePrune(S)
        PROVE  TypeInv'
    BY <2>1, InvokeType
  <2>2. ASSUME NEW t \in Nodes, NEW n \in Nodes, StartBody(t, n)
        PROVE  TypeInv'
    BY <2>2, BodyType
  <2>3. ASSUME NEW t \in Nodes, NEW n \in Nodes, Restore(t, n)
        PROVE  TypeInv'
    BY <2>3, RunType
  <2>4. ASSUME NEW t \in Nodes,
               \/ Hit(t) \/ Save(t) \/ Abandon(t) \/ MoveAside(t)
               \/ Swap(t) \/ SwapFails(t) \/ Cleanup(t)
        PROVE  TypeInv'
    BY <2>4, RunType
  <2>5. ASSUME NEW n \in Nodes, Edit(n)
        PROVE  TypeInv'
    BY <2>5, EditType
  <2>6. CASE Crash
    BY <2>6, CrashType
  <2>7. CASE (\E h \in hidden : RemoveHidden(h)) \/ (\E k \in Keys : Remove(k)) \/ Pruned \/ Exit
    BY <2>7, RemovalType
  <2>8. ASSUME NEW S \in Selections, InvokePrune(S)
        PROVE  TypeInv'
    <3>1. TRUE \in BOOLEAN /\ Default \in Runtimes
      BY StoreAssumption
    <3>2. QED
      BY <2>1, <2>8, <3>1
  <2>9. QED
    BY <1>2, <2>1, <2>2, <2>3, <2>4, <2>5, <2>6, <2>7, <2>8 DEF Next
<1>3. QED
  BY <1>1, <1>2

(***************************************************************************)
(* Type correctness of the store in every graph, with and without --force, *)
(* for every selection of files and every pattern of kills.                *)
(***************************************************************************)
THEOREM StoreTypeCorrect == Spec => []TypeOK
<1>1. TypeInv => TypeOK
  BY DEF TypeInv
<1>2. QED
  BY <1>1, StoreTypeInit, StoreTypeStep, PTL DEF Spec
------------------------------------------------------------------------------
(* Backing files *)

IInv == Careful /\ StoreInv /\ BuildsNodes

LEMMA ChainsInit == Careful /\ Init => IInv
<1> SUFFICES ASSUME Careful, Init
             PROVE  IInv
  OBVIOUS
<1>1. TypeInv
  BY StoreTypeInit
<1>2. \A k \in Keys : ~Whole(k)
  BY DEF Init, Whole, NoEntry, Parts
<1>3. ChainsIntact /\ BasesHashed
  BY <1>2 DEF ChainsIntact, BasesHashed
<1>4. BodiesOnIntact /\ OneBuilder /\ SwapConsistent
  BY DEF Init, BodiesOnIntact, OneBuilder, SwapConsistent
<1>5. HeldIntact /\ DoomedStale /\ Phased
  BY DEF Init, HeldIntact, DoomedStale, Phased
<1>6. QED
  BY <1>1, <1>3, <1>4, <1>5 DEF IInv, StoreInv, TypeInv

(* Steps that write no entry and decide nothing about them.                *)
LEMMA EntriesStay ==
  ASSUME IInv, UNCHANGED <<edited, entries, runtime, phase, doomed, forced>>, phase = "run"
  PROVE  /\ ChainsIntact' /\ BasesHashed' /\ DoomedStale'
         /\ \A n \in Nodes : Key(n)' = Key(n) /\ (Missing(Key(n))' = Missing(Key(n)))
                             /\ (Whole(Key(n))' = Whole(Key(n)))
         /\ (swapping' \in Nodes \cup {NoNode} => Phased')
<1>1. ChainsIntact'
  BY DEF IInv, StoreInv, ChainsIntact, Intact, Whole
<1>2. BasesHashed'
  BY DEF IInv, StoreInv, BasesHashed, OnKeysOf, Whole
<1>3. DoomedStale' /\ (swapping' \in Nodes \cup {NoNode} => Phased')
  BY DEF IInv, StoreInv, DoomedStale, Phased
<1>4. \A n \in Nodes : Key(n)' = Key(n)
  BY DEF Key
<1>5. QED
  BY <1>1, <1>2, <1>3, <1>4 DEF Missing, Whole

LEMMA HitKeeps ==
  ASSUME IInv, NEW t \in Nodes, Hit(t)
  PROVE  IInv'
<1> USE DEF invocation, arguments, runs, publication
<1>1. TypeInv'
  BY RunType DEF IInv, StoreInv, TypeInv
<1>2. UNCHANGED <<edited, entries, runtime, phase, doomed, forced>> /\ phase = "run"
      /\ UNCHANGED <<held, building, work, making, swapping, previous>>
  BY DEF Hit, At
<1>3. /\ ChainsIntact' /\ BasesHashed' /\ DoomedStale'
      /\ \A n \in Nodes : Key(n)' = Key(n) /\ (Missing(Key(n))' = Missing(Key(n)))
                          /\ (Whole(Key(n))' = Whole(Key(n)))
      /\ (swapping' \in Nodes \cup {NoNode} => Phased')
  BY <1>2, EntriesStay
<1>4. BodiesOnIntact'
  BY <1>2, <1>3 DEF IInv, StoreInv, BodiesOnIntact, OnKeysOf, Intact, Whole
<1>5. OneBuilder' /\ SwapConsistent' /\ HeldIntact'
  BY <1>2, <1>3 DEF IInv, StoreInv, OneBuilder, SwapConsistent, HeldIntact, Whole
<1>6. QED
  BY <1>1, <1>3, <1>4, <1>5 DEF IInv, StoreInv, TypeInv, TypeOK, Careful
LEMMA RestoreKeeps ==
  ASSUME IInv, NEW t \in Nodes, NEW n \in Nodes, Restore(t, n)
  PROVE  IInv'
<1> USE DEF invocation, arguments, runs, publication
<1>1. TypeInv'
  BY RunType DEF IInv, StoreInv, TypeInv
<1>2. UNCHANGED <<edited, entries, runtime, phase, doomed, forced>> /\ phase = "run"
      /\ UNCHANGED <<building, work, making, swapping, previous>>
      /\ held' = [held EXCEPT ![t] = @ \cup {Input(t, n)}] /\ Whole(Key(n))
  BY DEF Restore, At
<1>3. /\ ChainsIntact' /\ BasesHashed' /\ DoomedStale'
      /\ \A m \in Nodes : Key(m)' = Key(m) /\ (Missing(Key(m))' = Missing(Key(m)))
                          /\ (Whole(Key(m))' = Whole(Key(m)))
      /\ (swapping' \in Nodes \cup {NoNode} => Phased')
  BY <1>2, EntriesStay
<1>4. BodiesOnIntact'
  BY <1>2, <1>3 DEF IInv, StoreInv, BodiesOnIntact, OnKeysOf, Intact, Whole
<1>5. OneBuilder' /\ SwapConsistent'
  BY <1>2, <1>3 DEF IInv, StoreInv, OneBuilder, SwapConsistent
<1>6. HeldIntact'
  <2>1. ASSUME NEW u \in Nodes, NEW b \in held'[u]
        PROVE  entries[b[1]].files = Parts /\ entries[b[1]].build = b[2]
    <3>1. b \in held[u] \/ b = Input(t, n)
      BY <1>2, <2>1 DEF IInv, StoreInv, TypeOK
    <3>2. QED
      BY <1>2, <3>1 DEF IInv, StoreInv, HeldIntact, Input, Whole
  <2>2. QED
    BY <1>2, <2>1 DEF HeldIntact, Whole
<1>7. QED
  BY <1>1, <1>3, <1>4, <1>5, <1>6 DEF IInv, StoreInv, TypeInv, TypeOK, Careful

LEMMA SaveKeeps ==
  ASSUME IInv, NEW t \in Nodes, Save(t)
  PROVE  IInv'
<1> USE DEF invocation, arguments, runs, publication
<1>1. TypeInv'
  BY RunType DEF IInv, StoreInv, TypeInv
<1>2. UNCHANGED <<edited, entries, runtime, phase, doomed, forced>> /\ phase = "run"
      /\ UNCHANGED <<held, building, making, swapping, previous>>
      /\ work[t] = "body" /\ work' = [work EXCEPT ![t] = "saving"]
  BY DEF Save, At
<1>3. /\ ChainsIntact' /\ BasesHashed' /\ DoomedStale'
      /\ \A n \in Nodes : Key(n)' = Key(n) /\ (Missing(Key(n))' = Missing(Key(n)))
                          /\ (Whole(Key(n))' = Whole(Key(n)))
      /\ (swapping' \in Nodes \cup {NoNode} => Phased')
  BY <1>2, EntriesStay
<1>4. BodiesOnIntact'
  BY <1>2, <1>3 DEF IInv, StoreInv, TypeOK, BodiesOnIntact, OnKeysOf, Intact, Whole
<1>5. OneBuilder' /\ SwapConsistent' /\ HeldIntact'
  BY <1>2, <1>3 DEF IInv, StoreInv, TypeOK, OneBuilder, SwapConsistent, HeldIntact, Whole
<1>6. QED
  BY <1>1, <1>3, <1>4, <1>5 DEF IInv, StoreInv, TypeInv, TypeOK, Careful

LEMMA AbandonKeeps ==
  ASSUME IInv, NEW t \in Nodes, Abandon(t)
  PROVE  IInv'
<1> USE DEF invocation, arguments, runs, publication
<1>1. TypeInv'
  BY RunType DEF IInv, StoreInv, TypeInv
<1>2. UNCHANGED <<edited, entries, runtime, phase, doomed, forced>> /\ phase = "run"
      /\ UNCHANGED <<held, building, making, swapping, previous>>
      /\ swapping = NoNode
      /\ work' = [work EXCEPT ![t] = "none"]
  BY DEF Abandon, Fails, At
<1>3. /\ ChainsIntact' /\ BasesHashed' /\ DoomedStale'
      /\ \A n \in Nodes : Key(n)' = Key(n) /\ (Missing(Key(n))' = Missing(Key(n)))
                          /\ (Whole(Key(n))' = Whole(Key(n)))
      /\ (swapping' \in Nodes \cup {NoNode} => Phased')
  BY <1>2, EntriesStay
<1>4. BodiesOnIntact'
  BY <1>2, <1>3 DEF IInv, StoreInv, TypeOK, BodiesOnIntact, OnKeysOf, Intact, Whole
<1>5. OneBuilder' /\ SwapConsistent' /\ HeldIntact'
  BY <1>2, <1>3 DEF IInv, StoreInv, TypeOK, OneBuilder, SwapConsistent, HeldIntact, Whole
<1>6. QED
  BY <1>1, <1>3, <1>4, <1>5 DEF IInv, StoreInv, TypeInv, TypeOK, Careful

LEMMA CleanupKeeps ==
  ASSUME IInv, NEW t \in Nodes, Cleanup(t)
  PROVE  IInv'
<1> USE DEF invocation, arguments, runs, publication
<1>1. TypeInv'
  BY RunType DEF IInv, StoreInv, TypeInv
<1>2. UNCHANGED <<edited, entries, runtime, phase, doomed, forced>> /\ phase = "run"
      /\ UNCHANGED <<building, making>> /\ swapping = t /\ swapping' = NoNode
      /\ work[t] = "published" /\ work' = [work EXCEPT ![t] = "none"]
      /\ (held' = held \/ held' = [held EXCEPT ![t] = @ \cup {Input(t, building[t])}])
  BY DEF Cleanup, NoSwap
<1>3. /\ ChainsIntact' /\ BasesHashed' /\ DoomedStale'
      /\ \A n \in Nodes : Key(n)' = Key(n) /\ (Missing(Key(n))' = Missing(Key(n)))
                          /\ (Whole(Key(n))' = Whole(Key(n)))
      /\ (swapping' \in Nodes \cup {NoNode} => Phased')
  BY <1>2, EntriesStay
<1>4. BodiesOnIntact'
  BY <1>2, <1>3 DEF IInv, StoreInv, TypeOK, BodiesOnIntact, OnKeysOf, Intact, Whole
<1>5. OneBuilder' /\ SwapConsistent'
  BY <1>2, <1>3 DEF IInv, StoreInv, TypeOK, OneBuilder, SwapConsistent
<1>6. HeldIntact'
  <2>1. Whole(Key(building[t]))
    BY <1>2 DEF IInv, StoreInv, SwapConsistent
  <2>2. ASSUME NEW u \in Nodes, NEW b \in held'[u]
        PROVE  entries[b[1]].files = Parts /\ entries[b[1]].build = b[2]
    <3>1. b \in held[u] \/ b = Input(t, building[t])
      BY <1>2, <2>2 DEF IInv, StoreInv, TypeOK
    <3>2. QED
      BY <1>2, <2>1, <3>1 DEF IInv, StoreInv, HeldIntact, Input, Whole
  <2>3. QED
    BY <1>2, <2>2 DEF HeldIntact, Whole
<1>7. QED
  BY <1>1, <1>3, <1>4, <1>5, <1>6 DEF IInv, StoreInv, TypeInv, TypeOK, Careful

LEMMA StartBodyKeeps ==
  ASSUME IInv, NEW t \in Nodes, NEW n \in Nodes, StartBody(t, n)
  PROVE  IInv'
<1> USE DEF invocation, arguments, runs, publication
<1>1. TypeInv'
  BY BodyType DEF IInv, StoreInv, TypeInv
<1>2. UNCHANGED <<edited, entries, runtime, phase, doomed, forced>> /\ phase = "run"
      /\ UNCHANGED <<held, swapping, previous>> /\ swapping = NoNode
      /\ work' = [work EXCEPT ![t] = "body"] /\ building' = [building EXCEPT ![t] = n]
      /\ (forced \/ Missing(Key(n)))
      /\ \A u \in Nodes : work[u] # "none" => building[u] # n
  BY DEF StartBody, At
<1>3. /\ ChainsIntact' /\ BasesHashed' /\ DoomedStale'
      /\ \A m \in Nodes : Key(m)' = Key(m) /\ (Missing(Key(m))' = Missing(Key(m)))
                          /\ (Whole(Key(m))' = Whole(Key(m)))
      /\ (swapping' \in Nodes \cup {NoNode} => Phased')
  BY <1>2, EntriesStay
<1> DEFINE e == [files |-> Parts, build |-> builds + 1,
                 bases |-> {b \in held[t] : \E d \in NodeDeps[n] : b[1] = Key(d)}]
<1>4. making' = [making EXCEPT ![t] = e]
  BY DEF StartBody
<1>5. Missing(Key(n)) /\ e.files = Parts
  BY <1>2 DEF IInv, StoreInv, Phased
<1>6. \A b \in e.bases : entries[b[1]].files = Parts /\ entries[b[1]].build = b[2]
  BY <1>2 DEF IInv, StoreInv, HeldIntact, Whole
<1>7. OnKeysOf(Key(n), e)
  <2>1. ASSUME NEW b \in e.bases
        PROVE  \E d \in NodeDeps[Key(n)[1]] : b[1] = KeyOf(d, Key(n)[2], Key(n)[3])
    <3>1. PICK d \in NodeDeps[n] : b[1] = Key(d)
      OBVIOUS
    <3>2. Key(n)[1] = n
      BY DEF Key, KeyOf
    <3>3. Key(d) = KeyOf(d, Key(n)[2], Key(n)[3])
      BY KeyOfDependency DEF Key
    <3>4. QED
      BY <3>1, <3>2, <3>3
  <2>2. QED
    BY <2>1 DEF OnKeysOf
<1> HIDE DEF e
<1>8. BodiesOnIntact'
  <2>1. ASSUME NEW u \in Nodes, work'[u] \in {"body", "saving"}
        PROVE  /\ building'[u] \in Nodes /\ Missing(Key(building'[u]))
               /\ OnKeysOf(Key(building'[u]), making'[u]) /\ making'[u].files = Parts
               /\ \A b \in making'[u].bases : entries[b[1]].files = Parts /\ entries[b[1]].build = b[2]
    <3>1. CASE u = t
      BY <1>2, <1>4, <1>5, <1>6, <1>7, <3>1 DEF IInv, StoreInv, TypeOK
    <3>2. CASE u # t
      BY <1>2, <1>4, <2>1, <3>2 DEF IInv, StoreInv, TypeOK, BodiesOnIntact, Intact, Whole
    <3>3. QED
      BY <3>1, <3>2
  <2>2. QED
    BY <1>2, <1>3, <2>1 DEF BodiesOnIntact, Intact, Whole, Missing, Key, OnKeysOf
<1>9. OneBuilder' /\ SwapConsistent' /\ HeldIntact'
  <2>1. OneBuilder'
    BY <1>2 DEF IInv, StoreInv, TypeOK, OneBuilder
  <2>2. SwapConsistent'
    BY <1>2, StoreAssumption DEF IInv, StoreInv, TypeOK, SwapConsistent
  <2>3. HeldIntact'
    BY <1>2 DEF IInv, StoreInv, HeldIntact, Whole
  <2>4. QED
    BY <2>1, <2>2, <2>3
<1>10. QED
  BY <1>1, <1>3, <1>8, <1>9 DEF IInv, StoreInv, TypeInv, TypeOK, Careful
(* A key without an entry is nobody's base, so writing it breaks no chain. *)
LEMMA NobodysBase ==
  ASSUME IInv, NEW K \in Keys, Missing(K)
  PROVE  /\ \A k \in Keys \ doomed : Whole(k) => \A b \in entries[k].bases : b[1] \in Keys \ {K}
         /\ \A t \in Nodes : work[t] \in {"body", "saving"} =>
              \A b \in making[t].bases : b[1] \in Keys \ {K}
         /\ phase = "run" => \A t \in Nodes : \A b \in held[t] : b[1] \in Keys \ {K}
<1>1. ~Whole(K)
  BY DEF Missing, Whole, Parts
<1>2. ASSUME NEW k \in Keys \ doomed, Whole(k), NEW b \in entries[k].bases
      PROVE  b[1] \in Keys \ {K}
  <2>1. entries[k] \in Entries
    BY DEF IInv, StoreInv, TypeOK
  <2>2. b \in Keys \X Nat
    BY <1>2, <2>1, EntryType
  <2>3. Whole(b[1])
    BY <1>2 DEF IInv, StoreInv, ChainsIntact, Intact
  <2>4. QED
    BY <1>1, <2>2, <2>3
<1>3. ASSUME NEW t \in Nodes, work[t] \in {"body", "saving"}, NEW b \in making[t].bases
      PROVE  b[1] \in Keys \ {K}
  <2>1. making[t] \in Entries
    BY DEF IInv, StoreInv, TypeOK
  <2>2. b \in Keys \X Nat
    BY <1>3, <2>1, EntryType
  <2>3. Whole(b[1])
    BY <1>3 DEF IInv, StoreInv, BodiesOnIntact, Intact
  <2>4. QED
    BY <1>1, <2>2, <2>3
<1>4. ASSUME phase = "run", NEW t \in Nodes, NEW b \in held[t]
      PROVE  b[1] \in Keys \ {K}
  <2>1. b \in Keys \X Nat
    BY DEF IInv, StoreInv, TypeOK
  <2>2. Whole(b[1])
    BY <1>4 DEF IInv, StoreInv, HeldIntact
  <2>3. QED
    BY <1>1, <2>1, <2>2
<1>5. QED
  BY <1>2, <1>3, <1>4

(***************************************************************************)
(* The renaming section writes the entry of one key that had none, with    *)
(* something load ignores or with a build on intact bases.                 *)
(***************************************************************************)
LEMMA EntryWritten ==
  ASSUME IInv, NEW K \in Keys, Missing(K), phase = "run",
         NEW e \in Entries, entries' = [entries EXCEPT ![K] = e],
         \/ "manifest" \notin e.files
         \/ /\ OnKeysOf(K, e) /\ e.files = Parts
            /\ \A b \in e.bases : b[1] \in Keys \ {K} /\ Whole(b[1])
                                 /\ entries[b[1]].build = b[2],
         UNCHANGED <<edited, runtime, phase, doomed, forced, held, making, building>>
  PROVE  ChainsIntact' /\ BasesHashed' /\ DoomedStale' /\ HeldIntact'
<1>1. \A k \in Keys \ {K} : entries'[k] = entries[k]
  BY DEF IInv, StoreInv, TypeOK
<1>2. entries'[K] = e
  BY DEF IInv, StoreInv, TypeOK
<1>3. ASSUME NEW k \in Keys \ doomed, entries'[k].files = Parts, NEW b \in entries'[k].bases
      PROVE  entries'[b[1]].files = Parts /\ entries'[b[1]].build = b[2]
  <2>1. CASE k = K
    <3>1. e.files = Parts /\ b \in e.bases
      BY <1>2, <1>3, <2>1
    <3>2. "manifest" \in e.files
      BY <3>1 DEF Parts
    <3>3. b[1] \in Keys \ {K} /\ Whole(b[1]) /\ entries[b[1]].build = b[2]
      BY <3>1, <3>2
    <3>4. QED
      BY <1>1, <3>3 DEF Whole
  <2>2. CASE k # K
    <3>1. Whole(k) /\ b \in entries[k].bases
      BY <1>1, <1>3, <2>2 DEF Whole
    <3>2. b[1] \in Keys \ {K}
      BY <3>1, NobodysBase
    <3>3. Whole(b[1]) /\ entries[b[1]].build = b[2]
      BY <3>1 DEF IInv, StoreInv, ChainsIntact, Intact
    <3>4. QED
      BY <1>1, <3>2, <3>3 DEF Whole
  <2>3. QED
    BY <2>1, <2>2
<1>4. ChainsIntact'
  BY <1>3 DEF ChainsIntact, Intact, Whole
<1>5. BasesHashed'
  <2>1. ASSUME NEW k \in Keys, entries'[k].files = Parts
        PROVE  OnKeysOf(k, entries'[k])
    <3>1. CASE k = K
      BY <1>2, <2>1, <3>1 DEF Parts
    <3>2. CASE k # K
      BY <1>1, <2>1, <3>2 DEF IInv, StoreInv, BasesHashed, Whole
    <3>3. QED
      BY <3>1, <3>2
  <2>2. QED
    BY <2>1 DEF BasesHashed, Whole, OnKeysOf
<1>6. DoomedStale'
  BY DEF DoomedStale
<1>7. HeldIntact'
  <2>1. ASSUME NEW t \in Nodes, NEW b \in held[t]
        PROVE  entries'[b[1]].files = Parts /\ entries'[b[1]].build = b[2]
    <3>1. b[1] \in Keys \ {K}
      BY NobodysBase
    <3>2. Whole(b[1]) /\ entries[b[1]].build = b[2]
      BY DEF IInv, StoreInv, HeldIntact
    <3>3. QED
      BY <1>1, <3>1, <3>2 DEF Whole
  <2>2. QED
    BY <2>1 DEF HeldIntact, Whole
<1>8. QED
  BY <1>4, <1>5, <1>6, <1>7

(* The bodies of the other runs stand on other keys, and build other keys. *)
LEMMA OthersStandStill ==
  ASSUME IInv, NEW t \in Nodes, work[t] = "saving", phase = "run",
         NEW e, entries' = [entries EXCEPT ![Key(building[t])] = e],
         UNCHANGED <<edited, runtime, making, building>>,
         NEW u \in Nodes, work[u] \in {"body", "saving"},
         u # t \/ "manifest" \notin e.files
  PROVE  /\ building'[u] \in Nodes /\ Missing(Key(building[u]))'
         /\ OnKeysOf(Key(building[u]), making[u]) /\ making[u].files = Parts
         /\ \A b \in making[u].bases : entries'[b[1]].files = Parts /\ entries'[b[1]].build = b[2]
<1> DEFINE K == Key(building[t])
<1>1. building[t] \in Nodes /\ building[u] \in Nodes /\ Missing(K) /\ Missing(Key(building[u]))
      /\ OnKeysOf(Key(building[u]), making[u]) /\ making[u].files = Parts /\ Intact(making[u])
  BY DEF IInv, StoreInv, BodiesOnIntact
<1>2. K \in Keys /\ Key(building[u]) \in Keys
  BY <1>1, CurrentKeyType DEF IInv, StoreInv, TypeInv
<1>3. entries' = [entries EXCEPT ![K] = e]
  OBVIOUS
<1>4. \A k \in Keys \ {K} : entries'[k] = entries[k]
  BY <1>3 DEF IInv, StoreInv, TypeOK
<1>5. Missing(Key(building[u]))'
  <2>1. Key(building[u])' = Key(building[u])
    BY DEF Key
  <2>2. CASE u = t
    BY <1>2, <1>3, <2>1, <2>2 DEF Missing, IInv, StoreInv, TypeOK
  <2>3. CASE u # t
    <3>1. building[u] # building[t]
      BY <2>3 DEF IInv, StoreInv, OneBuilder
    <3>2. Key(building[u]) # K
      BY <3>1 DEF Key, KeyOf
    <3>3. QED
      BY <1>1, <1>2, <1>4, <2>1, <3>2 DEF Missing
  <2>4. QED
    BY <2>2, <2>3
<1>6. ASSUME NEW b \in making[u].bases
      PROVE  entries'[b[1]].files = Parts /\ entries'[b[1]].build = b[2]
  <2>1. b[1] \in Keys \ {K}
    BY <1>1, <1>2, NobodysBase
  <2>2. QED
    BY <1>1, <1>4, <2>1 DEF Intact, Whole
<1>7. QED
  BY <1>1, <1>5, <1>6
LEMMA MoveAsideKeeps ==
  ASSUME IInv, NEW t \in Nodes, MoveAside(t)
  PROVE  IInv'
<1> USE DEF invocation, arguments, runs, publication
<1> DEFINE K == Key(building[t])
<1>1. TypeInv'
  BY RunType DEF IInv, StoreInv, TypeInv
<1>2. phase = "run" /\ work[t] = "saving"
      /\ UNCHANGED <<edited, runtime, phase, doomed, forced, held, building, making>>
  BY DEF MoveAside, At, Fails, NoSwap
<1>3. building[t] \in Nodes /\ Missing(K) /\ OnKeysOf(K, making[t])
      /\ making[t].files = Parts /\ Intact(making[t])
  BY <1>2 DEF IInv, StoreInv, BodiesOnIntact
<1>4. K \in Keys /\ entries[K] \in Entries
  BY <1>3, CurrentKeyType DEF IInv, StoreInv, TypeInv
<1>5. entries' = [entries EXCEPT ![K] = NoEntry] /\ "manifest" \notin NoEntry.files
      /\ work' = work /\ swapping' = t /\ previous' = entries[K] /\ swapping = NoNode
  BY DEF MoveAside, At, NoEntry
<1>6. ChainsIntact' /\ BasesHashed' /\ DoomedStale' /\ HeldIntact'
  BY <1>2, <1>3, <1>4, <1>5, NoEntryType, EntryWritten
<1>7. BodiesOnIntact'
  <2>1. ASSUME NEW u \in Nodes, work'[u] \in {"body", "saving"}
        PROVE  /\ building'[u] \in Nodes /\ Missing(Key(building[u]))'
               /\ OnKeysOf(Key(building[u]), making[u]) /\ making[u].files = Parts
               /\ \A b \in making[u].bases : entries'[b[1]].files = Parts /\ entries'[b[1]].build = b[2]
    <3>1. work[u] \in {"body", "saving"}
      BY <1>2, <1>5, <2>1 DEF IInv, StoreInv, TypeOK
    <3>2. QED
      BY <1>2, <1>5, <3>1, OthersStandStill
  <2>2. QED
    BY <1>2, <2>1 DEF BodiesOnIntact, Intact, Whole, OnKeysOf, Key
<1>8. OneBuilder' /\ Phased'
  BY <1>2, <1>5 DEF IInv, StoreInv, OneBuilder, Phased
<1>9. SwapConsistent'
  <2>1. \A u \in Nodes : work[u] # "published"
    BY <1>5, StoreAssumption DEF IInv, StoreInv, SwapConsistent
  <2>2. QED
    BY <1>2, <1>3, <1>5, <2>1 DEF SwapConsistent, Missing
<1>10. QED
  BY <1>1, <1>6, <1>7, <1>8, <1>9 DEF IInv, StoreInv, TypeInv, TypeOK, Careful

LEMMA SwapKeeps ==
  ASSUME IInv, NEW t \in Nodes, Swap(t)
  PROVE  IInv'
<1> USE DEF invocation, arguments, runs, publication
<1> DEFINE K == Key(building[t])
<1>1. TypeInv'
  BY RunType DEF IInv, StoreInv, TypeInv
<1>2. phase = "run" /\ work[t] = "saving"
      /\ UNCHANGED <<edited, runtime, phase, doomed, forced, held, building, making>>
  BY DEF Swap, At, Fails, NoSwap
<1>3. building[t] \in Nodes /\ Missing(K) /\ OnKeysOf(K, making[t])
      /\ making[t].files = Parts /\ Intact(making[t])
  BY <1>2 DEF IInv, StoreInv, BodiesOnIntact
<1>4. K \in Keys /\ entries[K] \in Entries
  BY <1>3, CurrentKeyType DEF IInv, StoreInv, TypeInv
<1>5. entries' = [entries EXCEPT ![K] = making[t]] /\ swapping = t
      /\ work' = [work EXCEPT ![t] = "published"] /\ UNCHANGED <<swapping, previous>>
  BY DEF Swap
<1>6. ChainsIntact' /\ BasesHashed' /\ DoomedStale' /\ HeldIntact'
  <2>1. making[t] \in Entries
    BY DEF IInv, StoreInv, TypeOK
  <2>2. \A b \in making[t].bases : b[1] \in Keys \ {K} /\ Whole(b[1]) /\ entries[b[1]].build = b[2]
    BY <1>2, <1>3, <1>4, NobodysBase DEF Intact
  <2>3. QED
    BY <1>2, <1>3, <1>4, <1>5, <2>1, <2>2, EntryWritten
<1>7. BodiesOnIntact'
  <2>1. ASSUME NEW u \in Nodes, work'[u] \in {"body", "saving"}
        PROVE  /\ building'[u] \in Nodes /\ Missing(Key(building[u]))'
               /\ OnKeysOf(Key(building[u]), making[u]) /\ making[u].files = Parts
               /\ \A b \in making[u].bases : entries'[b[1]].files = Parts /\ entries'[b[1]].build = b[2]
    <3>1. work[u] \in {"body", "saving"} /\ u # t
      BY <1>2, <1>5, <2>1 DEF IInv, StoreInv, TypeOK
    <3>2. QED
      BY <1>2, <1>5, <3>1, OthersStandStill
  <2>2. QED
    BY <1>2, <2>1 DEF BodiesOnIntact, Intact, Whole, OnKeysOf, Key
<1>8. OneBuilder' /\ Phased'
  BY <1>2, <1>5 DEF IInv, StoreInv, TypeOK, OneBuilder, Phased
<1>9. SwapConsistent'
  <2>1. \A u \in Nodes : work'[u] = "published" => u = t
    BY <1>5 DEF IInv, StoreInv, TypeOK, SwapConsistent
  <2>2. entries'[K] = making[t] /\ Key(building[t])' = K
    BY <1>2, <1>4, <1>5 DEF IInv, StoreInv, TypeOK, Key
  <2>3. Whole(Key(building[t]))'
    BY <1>3, <2>2 DEF Whole
  <2>4. QED
    BY <1>2, <1>3, <1>5, <2>1, <2>3 DEF IInv, StoreInv, SwapConsistent
<1>10. QED
  BY <1>1, <1>6, <1>7, <1>8, <1>9 DEF IInv, StoreInv, TypeInv, TypeOK, Careful

LEMMA SwapFailsKeeps ==
  ASSUME IInv, NEW t \in Nodes, SwapFails(t)
  PROVE  IInv'
<1> USE DEF invocation, arguments, runs, publication
<1> DEFINE K == Key(building[t])
<1>1. TypeInv'
  BY RunType DEF IInv, StoreInv, TypeInv
<1>2. phase = "run" /\ work[t] = "saving"
      /\ UNCHANGED <<edited, runtime, phase, doomed, forced, held, building, making>>
  BY DEF SwapFails, At, Fails, NoSwap
<1>3. building[t] \in Nodes /\ Missing(K) /\ OnKeysOf(K, making[t])
      /\ making[t].files = Parts /\ Intact(making[t])
  BY <1>2 DEF IInv, StoreInv, BodiesOnIntact
<1>4. K \in Keys /\ entries[K] \in Entries
  BY <1>3, CurrentKeyType DEF IInv, StoreInv, TypeInv
<1>5. entries' = [entries EXCEPT ![K] = previous] /\ swapping = t
      /\ work' = [work EXCEPT ![t] = "none"] /\ swapping' = NoNode
  BY DEF SwapFails, Fails, NoSwap
<1>6. "manifest" \notin previous.files /\ previous \in Entries
  BY <1>5, StoreAssumption DEF IInv, StoreInv, TypeOK, SwapConsistent
<1>7. ChainsIntact' /\ BasesHashed' /\ DoomedStale' /\ HeldIntact'
  BY <1>2, <1>3, <1>4, <1>5, <1>6, EntryWritten
<1>8. BodiesOnIntact'
  <2>1. ASSUME NEW u \in Nodes, work'[u] \in {"body", "saving"}
        PROVE  /\ building'[u] \in Nodes /\ Missing(Key(building[u]))'
               /\ OnKeysOf(Key(building[u]), making[u]) /\ making[u].files = Parts
               /\ \A b \in making[u].bases : entries'[b[1]].files = Parts /\ entries'[b[1]].build = b[2]
    <3>1. work[u] \in {"body", "saving"} /\ u # t
      BY <1>2, <1>5, <2>1 DEF IInv, StoreInv, TypeOK
    <3>2. QED
      BY <1>2, <1>5, <3>1, OthersStandStill
  <2>2. QED
    BY <1>2, <2>1 DEF BodiesOnIntact, Intact, Whole, OnKeysOf, Key
<1>9. OneBuilder' /\ Phased'
  BY <1>2, <1>5 DEF IInv, StoreInv, TypeOK, OneBuilder, Phased
<1>10. SwapConsistent'
  BY <1>5 DEF IInv, StoreInv, TypeOK, SwapConsistent
<1>11. QED
  BY <1>1, <1>7, <1>8, <1>9, <1>10 DEF IInv, StoreInv, TypeInv, TypeOK, Careful
(* Whenever no run is at work, four parts of the invariant say nothing.    *)
LEMMA NobodyWorks ==
  ASSUME TypeInv', phase' # "run", \A t \in Nodes : work'[t] = "none", swapping' = NoNode
  PROVE  BodiesOnIntact' /\ OneBuilder' /\ SwapConsistent' /\ HeldIntact'
BY DEF BodiesOnIntact, OneBuilder, SwapConsistent, HeldIntact

(* The stale entries, when every file is selected, are those that are not  *)
(* current or have no manifest.                                            *)
LEMMA StaleOfAll ==
  ASSUME TypeInv, NEW S \in Selections, Careful, NEW options \in Runtimes, NEW k \in Keys
  PROVE  /\ S = Files
         /\ k \in Stale(S, options) => Missing(k) \/ k \notin CurrentKeys(Files, options)
         /\ k \notin Stale(S, options) /\ Whole(k) => k \in CurrentKeys(Files, options)
<1>1. S = Files
  BY DEF Careful
<1>2. k[1] \in Nodes
  BY DEF Keys
<1>3. k[1] \in Collected(Files)
  BY <1>2, UpstreamClosed, StoreAssumption DEF Collected
<1>4. FileOf[k[1]] \in {FileOf[n] : n \in Collected(Files)}
  BY <1>3
<1>5. Whole(k) => entries[k].files # {}
  BY DEF Whole, Parts
<1>6. QED
  BY <1>1, <1>4, <1>5 DEF Stale

LEMMA InvokeKeeps ==
  ASSUME IInv, NEW S \in Selections, NEW f \in BOOLEAN, NEW options \in Runtimes,
         ((f => MayForce) /\ InvokeRun(S, f, options)) \/ InvokePrune(S)
  PROVE  IInv'
<1> USE DEF invocation, arguments, runs, publication
<1>1. TypeInv /\ TypeInv' /\ Careful
  BY InvokeType DEF IInv, StoreInv, TypeInv
<1>2. phase = "idle" /\ phase' = "prune" /\ forced' = FALSE
      /\ UNCHANGED <<edited, entries, hidden, building, work, making, swapping, previous>>
      /\ (command' = "run" => \A t \in Nodes : held'[t] = {})
  BY DEF InvokeRun, InvokePrune, IInv, Careful
<1>3. PICK o \in Runtimes : runtime' = o /\ doomed' = Stale(S, o)
  BY StoreAssumption DEF InvokeRun, InvokePrune
<1>4. doomed = {} /\ swapping = NoNode /\ \A t \in Nodes : work[t] = "none"
  BY <1>2 DEF IInv, StoreInv, Phased
<1>5. BodiesOnIntact' /\ OneBuilder' /\ SwapConsistent' /\ HeldIntact'
  BY <1>1, <1>2, <1>4, NobodyWorks
<1>6. ChainsIntact' /\ BasesHashed'
  BY <1>2, <1>4 DEF IInv, StoreInv, ChainsIntact, BasesHashed, OnKeysOf, Intact, Whole
<1>7. DoomedStale'
  <2>1. ASSUME NEW k \in Keys
        PROVE  IF k \in doomed' THEN Missing(k) \/ k \notin CurrentKeys(Files, o)
                                ELSE Whole(k) => k \in CurrentKeys(Files, o)
    BY <1>1, <1>3, StaleOfAll
  <2>2. CurrentKeys(Files, o) = CurrentKeys(Files, runtime)'
    BY <1>2, <1>3 DEF CurrentKeys
  <2>3. QED
    BY <1>2, <2>1, <2>2 DEF DoomedStale, Missing, Whole
<1>8. Phased'
  BY <1>2, <1>4 DEF Phased
<1>9. QED
  BY <1>1, <1>5, <1>6, <1>7, <1>8 DEF IInv, StoreInv, TypeInv, TypeOK, Careful

(***************************************************************************)
(* The heart of the matter: what prune removes is not current, an entry it *)
(* keeps is, and the bases of a current entry are current.                 *)
(***************************************************************************)
LEMMA RemoveKeeps ==
  ASSUME IInv, NEW K \in Keys, Remove(K)
  PROVE  IInv'
<1> USE DEF invocation, arguments, runs, publication
<1>1. TypeInv'
  BY RemovalType DEF IInv, StoreInv, TypeInv
<1>2. phase = "prune" /\ phase' = "prune" /\ K \in doomed /\ doomed' = doomed \ {K}
      /\ entries' = [entries EXCEPT ![K] = NoEntry]
      /\ UNCHANGED <<edited, hidden, command, selection, forced, runtime, held, building, work, making, swapping, previous>>
  BY DEF Remove
<1>3. swapping = NoNode /\ \A t \in Nodes : work[t] = "none"
  BY <1>2 DEF IInv, StoreInv, Phased
<1>4. BodiesOnIntact' /\ OneBuilder' /\ SwapConsistent' /\ HeldIntact'
  BY <1>1, <1>2, <1>3, NobodyWorks
<1>5. entries'[K].files = {} /\ \A k \in Keys \ {K} : entries'[k] = entries[k]
  BY <1>2 DEF IInv, StoreInv, TypeOK, NoEntry
<1>6. BasesHashed' /\ Phased'
  BY <1>2, <1>3, <1>5 DEF IInv, StoreInv, BasesHashed, Phased, Whole, OnKeysOf, Parts
<1>7. DoomedStale'
  BY <1>2, <1>5 DEF IInv, StoreInv, DoomedStale, Missing, Whole, Parts, CurrentKeys
<1>8. ChainsIntact'
  <2>1. ASSUME NEW k \in Keys \ doomed', entries'[k].files = Parts, NEW b \in entries'[k].bases
        PROVE  entries'[b[1]].files = Parts /\ entries'[b[1]].build = b[2]
    <3>1. k # K
      BY <1>5, <2>1 DEF Parts
    <3>2. k \in Keys \ doomed /\ Whole(k) /\ b \in entries[k].bases
      BY <1>2, <1>5, <2>1, <3>1 DEF Whole
    <3>3. Whole(b[1]) /\ entries[b[1]].build = b[2]
      BY <3>2 DEF IInv, StoreInv, ChainsIntact, Intact
    <3>4. PICK n \in Collected(Files) : k = KeyOf(n, edited, runtime)
      BY <1>2, <3>2 DEF IInv, StoreInv, DoomedStale, CurrentKeys
    <3>5. n \in Nodes /\ k[1] = n
      BY <3>4, UpstreamClosed DEF Collected, KeyOf
    <3>6. PICK d \in NodeDeps[n] : b[1] = KeyOf(d, k[2], k[3])
      BY <3>2, <3>5 DEF IInv, StoreInv, BasesHashed, OnKeysOf
    <3>7. d \in Nodes /\ b[1] = KeyOf(d, edited, runtime)
      BY <3>4, <3>5, <3>6, KeyOfDependency
    <3>8. d \in Collected(Files)
      BY <3>7, UpstreamClosed, StoreAssumption DEF Collected
    <3>9. b[1] \in CurrentKeys(Files, runtime) /\ ~Missing(b[1])
      BY <3>3, <3>7, <3>8 DEF CurrentKeys, Missing, Whole, Parts
    <3>10. b[1] # K
      BY <1>2, <3>9 DEF IInv, StoreInv, DoomedStale
    <3>11. b[1] \in Keys
      BY <3>7, KeyType DEF IInv, StoreInv, TypeOK
    <3>12. QED
      BY <1>5, <3>3, <3>10, <3>11 DEF Whole
  <2>2. QED
    BY <2>1 DEF ChainsIntact, Intact, Whole
<1>9. QED
  BY <1>1, <1>4, <1>6, <1>7, <1>8 DEF IInv, StoreInv, TypeInv, TypeOK, Careful

LEMMA RemoveHiddenKeeps ==
  ASSUME IInv, NEW h \in hidden, RemoveHidden(h)
  PROVE  IInv'
<1> USE DEF invocation, arguments, runs, publication
<1>1. TypeInv'
  BY RemovalType DEF IInv, StoreInv, TypeInv
<1>2. phase = "prune"
      /\ UNCHANGED <<edited, entries, phase, command, forced, runtime, doomed, held, building, work, making, swapping, previous>>
  BY DEF RemoveHidden
<1>3. swapping = NoNode /\ \A t \in Nodes : work[t] = "none"
  BY <1>2 DEF IInv, StoreInv, Phased
<1>4. BodiesOnIntact' /\ OneBuilder' /\ SwapConsistent' /\ HeldIntact'
  BY <1>1, <1>2, <1>3, NobodyWorks
<1>5. ChainsIntact' /\ BasesHashed' /\ Phased'
  BY <1>2 DEF IInv, StoreInv, ChainsIntact, BasesHashed, Phased, OnKeysOf, Intact, Whole
<1>6. DoomedStale'
  BY <1>2 DEF IInv, StoreInv, DoomedStale, Missing, Whole, CurrentKeys
<1>7. QED
  BY <1>1, <1>4, <1>5, <1>6 DEF IInv, StoreInv, TypeInv, TypeOK, Careful

(* Pruned and Exit move the phase on; Crash, with nothing doomed, and Edit  *)
(* leave every entry alone.                                                *)
LEMMA PhaseKeeps ==
  ASSUME IInv, Pruned \/ Exit \/ Crash \/ \E n \in Nodes : Edit(n)
  PROVE  IInv'
<1> USE DEF invocation, arguments, runs, publication
<1>1. TypeInv'
  BY RemovalType, CrashType, EditType DEF IInv, StoreInv, TypeInv
<1>2. phase # "prune" \/ Pruned
  BY DEF Exit, Crash, Edit, IInv, Careful
<1>3. doomed = {} /\ doomed' = {}
  BY <1>2 DEF Pruned, Exit, Crash, Gone, Edit, IInv, StoreInv, Phased
<1>4. UNCHANGED <<entries, forced, runtime, making, building, held>> /\ phase' # "prune"
  BY <1>2, <1>3 DEF Pruned, Exit, Crash, Gone, Edit
<1>5. ChainsIntact' /\ BasesHashed'
  BY <1>3, <1>4 DEF IInv, StoreInv, ChainsIntact, BasesHashed, OnKeysOf, Intact, Whole
<1>6. swapping' = NoNode /\ \A t \in Nodes : work'[t] = "none"
  <2>1. CASE Pruned
    BY <2>1 DEF Pruned, IInv, StoreInv, Phased
  <2>2. CASE Exit
    <3>1. swapping = NoNode
      BY <2>2 DEF Exit, IInv, StoreInv, TypeOK, SwapConsistent
    <3>2. QED
      BY <2>2, <3>1 DEF Exit
  <2>3. CASE Crash
    BY <2>3 DEF Crash, Gone
  <2>4. CASE \E n \in Nodes : Edit(n)
    BY <2>4 DEF Edit, IInv, StoreInv, Phased
  <2>5. QED
    BY <2>1, <2>2, <2>3, <2>4
<1>7. BodiesOnIntact' /\ OneBuilder' /\ SwapConsistent'
  BY <1>6 DEF BodiesOnIntact, OneBuilder, SwapConsistent
<1>8. HeldIntact'
  <2>1. CASE phase' # "run"
    BY <2>1 DEF HeldIntact
  <2>2. CASE phase' = "run"
    <3>1. Pruned /\ command = "run"
      BY <2>2 DEF Pruned, Exit, Crash, Gone, Edit
    <3>2. \A t \in Nodes : held'[t] = {}
      BY <1>4, <3>1 DEF Pruned, IInv, StoreInv, DoomedStale
    <3>3. QED
      BY <3>2 DEF HeldIntact
  <2>3. QED
    BY <2>1, <2>2
<1>9. DoomedStale' /\ Phased'
  BY <1>3, <1>4, <1>6 DEF IInv, StoreInv, DoomedStale, Phased
<1>10. QED
  BY <1>1, <1>5, <1>7, <1>8, <1>9 DEF IInv, StoreInv, TypeInv, TypeOK, Careful
LEMMA ChainsStep == IInv /\ [Next]_vars => IInv'
<1> SUFFICES ASSUME IInv, [Next]_vars
             PROVE  IInv'
  OBVIOUS
<1>1. CASE UNCHANGED vars
  <2> USE DEF vars, invocation, arguments, runs, publication
  <2>1. TypeOK' /\ BuildsNodes' /\ Careful'
    BY <1>1 DEF IInv, StoreInv, TypeOK, BuildsNodes, Careful
  <2>2. ChainsIntact' /\ BasesHashed' /\ HeldIntact'
    BY <1>1 DEF IInv, StoreInv, ChainsIntact, BasesHashed, HeldIntact, OnKeysOf, Intact, Whole
  <2>3. BodiesOnIntact'
    BY <1>1 DEF IInv, StoreInv, BodiesOnIntact, OnKeysOf, Intact, Whole, Missing, Key
  <2>4. OneBuilder' /\ SwapConsistent' /\ Phased'
    BY <1>1 DEF IInv, StoreInv, OneBuilder, SwapConsistent, Phased, Whole, Key
  <2>5. DoomedStale'
    BY <1>1 DEF IInv, StoreInv, DoomedStale, Missing, Whole, CurrentKeys
  <2>6. QED
    BY <2>1, <2>2, <2>3, <2>4, <2>5 DEF IInv, StoreInv
<1>2. CASE Next
  <2>1. ASSUME NEW S \in Selections, NEW f \in BOOLEAN, NEW options \in Runtimes,
               (f => MayForce) /\ InvokeRun(S, f, options)
        PROVE  IInv'
    BY <2>1, InvokeKeeps
  <2>2. ASSUME NEW S \in Selections, InvokePrune(S)
        PROVE  IInv'
    <3>1. TRUE \in BOOLEAN /\ Default \in Runtimes
      BY StoreAssumption
    <3>2. QED
      BY <2>2, <3>1, InvokeKeeps
  <2>3. ASSUME NEW h \in hidden, RemoveHidden(h)
        PROVE  IInv'
    BY <2>3, RemoveHiddenKeeps
  <2>4. ASSUME NEW k \in Keys, Remove(k)
        PROVE  IInv'
    BY <2>4, RemoveKeeps
  <2>5. CASE Pruned \/ Exit \/ Crash \/ \E n \in Nodes : Edit(n)
    BY <2>5, PhaseKeeps
  <2>6. ASSUME NEW t \in Nodes, NEW n \in Nodes, Restore(t, n) \/ StartBody(t, n)
        PROVE  IInv'
    BY <2>6, RestoreKeeps, StartBodyKeeps
  <2>7. ASSUME NEW t \in Nodes, Hit(t) \/ Save(t) \/ Abandon(t)
        PROVE  IInv'
    BY <2>7, HitKeeps, SaveKeeps, AbandonKeeps
  <2>8. ASSUME NEW t \in Nodes, MoveAside(t) \/ Swap(t) \/ SwapFails(t) \/ Cleanup(t)
        PROVE  IInv'
    BY <2>8, MoveAsideKeeps, SwapKeeps, SwapFailsKeeps, CleanupKeeps
  <2>9. QED
    BY <1>2, <2>1, <2>2, <2>3, <2>4, <2>5, <2>6, <2>7, <2>8 DEF Next
<1>3. QED
  BY <1>1, <1>2

(***************************************************************************)
(* The invariant that carries the argument, for every test graph: without  *)
(* --force, with all files selected and no kill within a prune.            *)
(***************************************************************************)
THEOREM StoreInvariance == Careful /\ Spec => []StoreInv
<1>1. IInv => StoreInv
  BY DEF IInv
<1>2. QED
  BY <1>1, ChainsInit, ChainsStep, PTL DEF Spec

(***************************************************************************)
(* Under the same conditions every entry load accepts stands on the builds *)
(* it was saved with, whatever is edited, reverted, rebuilt, cancelled or  *)
(* killed, and whichever QEMU options the invocations use.                 *)
(***************************************************************************)
THEOREM ChainsStayIntact == Careful /\ Spec => []ChainsIntact
<1>1. StoreInv => ChainsIntact
  BY DEF StoreInv
<1>2. QED
  BY <1>1, StoreInvariance, PTL

------------------------------------------------------------------------------
(* What holds with --force, for any selection and any kill.                *)

\* A key names its node: two nodes never have one key.
LEMMA KeysDiffer ==
  ASSUME TypeInv, NEW m \in Nodes, NEW n \in Nodes, Key(m) = Key(n)
  PROVE  m = n
BY KeyType DEF Key, TypeInv, TypeOK

(***************************************************************************)
(* When every file that contributes a node to a selection contributes all  *)
(* of its nodes, prune spares what is current.                             *)
(***************************************************************************)
OwnersSelected ==
  \A S \in Selections : \A n \in Nodes :
    FileOf[n] \in {FileOf[m] : m \in Collected(S)} => n \in Collected(S)

\* Between the listing and the end of prune nothing else happens; otherwise the
\* list is empty.
ListedByPrune == phase # "prune" => doomed = {}

SpareInv == OwnersSelected /\ TypeInv /\ ListedByPrune /\ PruneSparesCurrent

LEMMA SpareStep == SpareInv /\ [Next]_vars => SpareInv'
<1> SUFFICES ASSUME SpareInv, [Next]_vars
             PROVE  TypeInv' /\ ListedByPrune' /\ PruneSparesCurrent'
  BY DEF SpareInv, OwnersSelected, Collected
<1> USE DEF invocation, arguments, runs, publication
<1>1. TypeInv /\ TypeInv' /\ OwnersSelected
  BY StoreTypeStep DEF SpareInv
<1>2. ASSUME NEW S \in Selections, NEW f \in BOOLEAN, NEW options \in Runtimes,
             InvokeRun(S, f, options)
      PROVE  ListedByPrune' /\ PruneSparesCurrent'
  <2>1. phase' = "prune" /\ runtime' = options /\ doomed' = Stale(S, options)
        /\ UNCHANGED <<edited, entries>>
    BY <1>2 DEF InvokeRun
  <2>2. ASSUME NEW n \in Nodes, KeyOf(n, edited, options) \in Stale(S, options)
        PROVE  Missing(KeyOf(n, edited, options))
    <3> DEFINE k == KeyOf(n, edited, options)
    <3>1. k[1] = n
      BY <1>1, KeyType DEF TypeInv, TypeOK
    <3>2. n \in Collected(S) => k \in CurrentKeys(S, options)
      BY DEF CurrentKeys
    <3>3. QED
      BY <1>1, <2>2, <3>1, <3>2 DEF Stale, OwnersSelected
  <2>3. QED
    BY <2>1, <2>2 DEF ListedByPrune, PruneSparesCurrent, Key, Missing
<1>3. ASSUME NEW S \in Selections, InvokePrune(S)
      PROVE  ListedByPrune' /\ PruneSparesCurrent'
  BY <1>3 DEF InvokePrune, ListedByPrune, PruneSparesCurrent
<1>4. ASSUME NEW k \in Keys, Remove(k)
      PROVE  ListedByPrune' /\ PruneSparesCurrent'
  <2>1. UNCHANGED <<phase, command, edited, runtime>> /\ doomed' \subseteq doomed
        /\ entries' = [entries EXCEPT ![k] = NoEntry]
    BY <1>4 DEF Remove
  <2>2. \A n \in Nodes : Key(n)' = Key(n) /\ Key(n) \in Keys
    BY <1>1, <2>1, CurrentKeyType DEF Key
  <2>3. \A n \in Nodes : Missing(Key(n)) => Missing(Key(n))'
    BY <1>1, <2>1, <2>2 DEF Missing, NoEntry, TypeInv, TypeOK
  <2>4. QED
    BY <1>4, <2>1, <2>2, <2>3 DEF SpareInv, ListedByPrune, PruneSparesCurrent, Remove
<1>5. ASSUME NEW h \in hidden, RemoveHidden(h)
      PROVE  ListedByPrune' /\ PruneSparesCurrent'
  BY <1>5 DEF RemoveHidden, SpareInv, ListedByPrune, PruneSparesCurrent, Key, Missing
<1>6. CASE Pruned \/ Exit \/ Crash
  <2>1. doomed' = {}
    BY <1>6 DEF Pruned, Exit, Crash, Gone, SpareInv, ListedByPrune
  <2>2. QED
    BY <1>1, <2>1 DEF ListedByPrune, PruneSparesCurrent
<1>7. ASSUME NEW t \in Nodes,
             \/ Hit(t) \/ Save(t) \/ Abandon(t) \/ MoveAside(t) \/ Swap(t)
             \/ SwapFails(t) \/ Cleanup(t) \/ Edit(t)
             \/ \E n \in Nodes : Restore(t, n) \/ StartBody(t, n)
      PROVE  ListedByPrune' /\ PruneSparesCurrent'
  <2>1. phase # "prune" /\ UNCHANGED <<phase, doomed>>
    BY <1>7 DEF At, Hit, Save, Abandon, MoveAside, Swap, SwapFails, Cleanup, Edit, Restore, StartBody
  <2>2. QED
    BY <2>1 DEF SpareInv, ListedByPrune, PruneSparesCurrent
<1>8. CASE UNCHANGED vars
  BY <1>1, <1>8 DEF vars, SpareInv, ListedByPrune, PruneSparesCurrent, Key, Missing
<1>9. QED
  BY <1>1, <1>2, <1>3, <1>4, <1>5, <1>6, <1>7, <1>8 DEF Next

(***************************************************************************)
(* The prune of a run removes no checkpoint of the present code, with or   *)
(* without --force, wherever it or an earlier invocation was killed, when  *)
(* the selections take whole files (checkpoint.py, stale_directories).     *)
(***************************************************************************)
THEOREM RunsSpareCurrent == OwnersSelected /\ Spec => []PruneSparesCurrent
<1>1. OwnersSelected /\ Init => SpareInv
  BY StoreTypeInit DEF Init, SpareInv, ListedByPrune, PruneSparesCurrent
<1>2. SpareInv => PruneSparesCurrent
  BY DEF SpareInv
<1>3. QED
  BY <1>1, <1>2, SpareStep, PTL DEF Spec
------------------------------------------------------------------------------
(***************************************************************************)
(* Publications one at a time: what a run saves is complete, the entry of  *)
(* the renaming section is gone while it lasts, and is there at its end.   *)
(***************************************************************************)
PublicationsInStep ==
  /\ \A t \in Nodes :
       /\ work[t] \in {"body", "saving"} => making[t].files = Parts
       /\ work[t] = "saving" /\ swapping = t => Missing(Key(building[t]))
       /\ work[t] = "published" => swapping = t /\ Whole(Key(building[t]))
  /\ swapping # NoNode => work[swapping] \in {"saving", "published"}
  /\ phase # "run" => swapping = NoNode /\ \A t \in Nodes : work[t] = "none"

PublishInv == TypeInv /\ PublicationsInStep /\ NothingPilesUp

\* What a step of a run owes the others.
Kept ==
  /\ PublicationsInStep' /\ NothingPilesUp'
  /\ \A n \in Nodes : HadEntry(n) => HadEntry(n)'

LEMMA HitsPublish ==
  ASSUME PublishInv, TypeInv', NEW t \in Nodes,
         Hit(t) \/ \E n \in Nodes : Restore(t, n)
  PROVE  Kept
<1>1. phase = "run"
      /\ UNCHANGED <<edited, entries, hidden, phase, runtime, building, work, making, swapping, previous>>
  BY DEF Hit, Restore, At, invocation, arguments, publication
<1>2. PublicationsInStep' /\ NothingPilesUp'
  BY <1>1 DEF PublishInv, PublicationsInStep, NothingPilesUp, Key, Missing, Whole
<1>3. \A n \in Nodes : HadEntry(n)' = HadEntry(n)
  BY <1>1 DEF HadEntry, Key, Whole
<1>4. QED
  BY <1>2, <1>3 DEF Kept

LEMMA BodyPublishes ==
  ASSUME PublishInv, TypeInv', NEW t \in Nodes, NEW n \in Nodes, StartBody(t, n)
  PROVE  Kept
<1>1. phase = "run" /\ swapping = NoNode /\ work[t] = "none"
      /\ UNCHANGED <<edited, entries, hidden, phase, runtime, swapping, previous>>
      /\ work' = [work EXCEPT ![t] = "body"] /\ building' = [building EXCEPT ![t] = n]
  BY DEF StartBody, At, invocation, arguments
<1>2. making'[t].files = Parts /\ \A u \in Nodes \ {t} : making'[u] = making[u]
  BY DEF StartBody, PublishInv, TypeInv, TypeOK
<1>3. /\ work'[t] = "body"
      /\ \A u \in Nodes \ {t} : work'[u] = work[u] /\ building'[u] = building[u]
  BY <1>1 DEF PublishInv, TypeInv, TypeOK
<1>4. t # NoNode
  BY StoreAssumption
<1>5. PublicationsInStep'
  BY <1>1, <1>2, <1>3, <1>4 DEF PublishInv, PublicationsInStep, Key, Missing, Whole
<1>6. NothingPilesUp'
  <2>1. {swapping} \cap Nodes = {} /\ {swapping'} \cap Nodes = {}
    BY <1>1, StoreAssumption
  <2>2. hidden \subseteq {<<"tmp", Key(building[u])>> : u \in {v \in Nodes : work[v] = "saving"}}
    BY <1>1, <2>1 DEF PublishInv, NothingPilesUp
  <2>3. \A u \in Nodes : work[u] = "saving" =>
          work'[u] = "saving" /\ Key(building[u]) = Key(building[u])'
    BY <1>1, <1>3 DEF Key
  <2>4. QED
    BY <1>1, <2>2, <2>3 DEF NothingPilesUp
<1>7. \A m \in Nodes : HadEntry(m) => HadEntry(m)'
  BY <1>1, <1>4 DEF HadEntry, Key, Whole
<1>8. QED
  BY <1>5, <1>6, <1>7 DEF Kept

LEMMA SavePublishes ==
  ASSUME PublishInv, TypeInv', NEW t \in Nodes, Save(t)
  PROVE  Kept
<1>1. phase = "run" /\ swapping = NoNode /\ work[t] = "body"
      /\ UNCHANGED <<edited, entries, phase, runtime, building, making, swapping, previous>>
      /\ work' = [work EXCEPT ![t] = "saving"]
      /\ hidden' = hidden \cup {<<"tmp", Key(building[t])>>}
  BY DEF Save, At, invocation, arguments, publication
<1>2. work'[t] = "saving" /\ \A u \in Nodes \ {t} : work'[u] = work[u]
  BY <1>1 DEF PublishInv, TypeInv, TypeOK
<1>3. t # NoNode /\ Key(building[t])' = Key(building[t])
  BY <1>1, StoreAssumption DEF Key
<1>4. PublicationsInStep'
  BY <1>1, <1>2, <1>3 DEF PublishInv, PublicationsInStep, Key, Missing, Whole
<1>5. NothingPilesUp'
  <2>1. \A u \in Nodes : work[u] = "saving" =>
          work'[u] = "saving" /\ Key(building[u]) = Key(building[u])'
    BY <1>1, <1>2 DEF Key
  <2>2. {swapping} \cap Nodes = {}
    BY <1>1, StoreAssumption
  <2>3. hidden \subseteq {<<"tmp", Key(building[u])>> : u \in {v \in Nodes : work[v] = "saving"}}
    BY <1>1, <2>2 DEF PublishInv, NothingPilesUp
  <2>4. QED
    BY <1>1, <1>2, <1>3, <2>1, <2>3 DEF NothingPilesUp
<1>6. \A m \in Nodes : HadEntry(m) => HadEntry(m)'
  BY <1>1 DEF HadEntry, Key, Whole
<1>7. QED
  BY <1>4, <1>5, <1>6 DEF Kept

LEMMA AbandonPublishes ==
  ASSUME PublishInv, TypeInv', NEW t \in Nodes, Abandon(t)
  PROVE  Kept
<1>1. phase = "run" /\ swapping = NoNode
      /\ UNCHANGED <<edited, entries, phase, runtime, building, making, swapping, previous>>
      /\ work' = [work EXCEPT ![t] = "none"]
      /\ hidden' = IF work[t] = "saving" THEN hidden \ {<<"tmp", Key(building[t])>>} ELSE hidden
  BY DEF Abandon, Fails, At, invocation, arguments, publication
<1>2. work'[t] = "none" /\ \A u \in Nodes \ {t} : work'[u] = work[u]
  BY <1>1 DEF PublishInv, TypeInv, TypeOK
<1>3. PublicationsInStep'
  BY <1>1, <1>2, StoreAssumption DEF PublishInv, PublicationsInStep, Key, Missing, Whole
<1>4. NothingPilesUp'
  <2>1. {swapping} \cap Nodes = {}
    BY <1>1, StoreAssumption
  <2>2. hidden \subseteq {<<"tmp", Key(building[u])>> : u \in {v \in Nodes : work[v] = "saving"}}
    BY <1>1, <2>1 DEF PublishInv, NothingPilesUp
  <2>3. ASSUME NEW h \in hidden'
        PROVE  \E u \in {v \in Nodes : work'[v] = "saving"} : h = <<"tmp", Key(building[u])'>>
    <3>1. PICK u \in Nodes : work[u] = "saving" /\ h = <<"tmp", Key(building[u])>>
      BY <1>1, <2>2, <2>3
    <3>2. u # t
      BY <1>1, <2>3, <3>1
    <3>3. QED
      BY <1>1, <1>2, <3>1, <3>2 DEF Key
  <2>4. QED
    BY <2>3 DEF NothingPilesUp
<1>5. \A m \in Nodes : HadEntry(m) => HadEntry(m)'
  BY <1>1 DEF HadEntry, Key, Whole
<1>6. QED
  BY <1>3, <1>4, <1>5 DEF Kept

LEMMA MoveAsidePublishes ==
  ASSUME PublishInv, TypeInv', NEW t \in Nodes, MoveAside(t)
  PROVE  Kept
<1> DEFINE K == Key(building[t])
<1>1. phase = "run" /\ swapping = NoNode /\ work[t] = "saving"
      /\ UNCHANGED <<edited, phase, runtime, building, work, making>>
      /\ swapping' = t /\ previous' = entries[K]
      /\ entries' = [entries EXCEPT ![K] = NoEntry]
      /\ hidden' \subseteq hidden \cup {<<"previous", K>>}
  BY DEF MoveAside, At, invocation, arguments, runs
<1>2. building[t] \in Nodes /\ K \in Keys /\ Key(building[t])' = K /\ t # NoNode
  BY <1>1, CurrentKeyType, StoreAssumption DEF PublishInv, TypeInv, BuildsNodes, Key
<1>3. PublicationsInStep'
  <2>1. Missing(K)'
    BY <1>1, <1>2 DEF Missing, NoEntry, PublishInv, TypeInv, TypeOK
  <2>2. \A u \in Nodes : work[u] # "published"
    BY <1>1, StoreAssumption DEF PublishInv, PublicationsInStep
  <2>3. QED
    BY <1>1, <1>2, <2>1, <2>2 DEF PublishInv, PublicationsInStep
<1>4. NothingPilesUp'
  <2>1. {swapping} \cap Nodes = {} /\ t \in {swapping'} \cap Nodes
    BY <1>1, StoreAssumption
  <2>2. hidden \subseteq {<<"tmp", Key(building[u])>> : u \in {v \in Nodes : work[v] = "saving"}}
    BY <1>1, <2>1 DEF PublishInv, NothingPilesUp
  <2>3. \A u \in Nodes : work[u] = "saving" =>
          work'[u] = "saving" /\ Key(building[u]) = Key(building[u])'
    BY <1>1 DEF Key
  <2>4. QED
    BY <1>1, <1>2, <2>1, <2>2, <2>3 DEF NothingPilesUp
<1>5. ASSUME NEW m \in Nodes, HadEntry(m)
      PROVE  HadEntry(m)'
  <2>1. Whole(Key(m)) /\ Key(m)' = Key(m) /\ Key(m) \in Keys
    BY <1>1, <1>5, CurrentKeyType, StoreAssumption DEF HadEntry, Key, PublishInv
  <2>2. CASE m = building[t]
    BY <1>1, <2>1, <2>2 DEF HadEntry, Whole
  <2>3. CASE m # building[t]
    <3>1. Key(m) # K
      BY <1>2, <2>3, KeysDiffer DEF PublishInv
    <3>2. Whole(Key(m))'
      BY <1>1, <2>1, <3>1 DEF Whole, PublishInv, TypeInv, TypeOK
    <3>3. QED
      BY <3>2 DEF HadEntry
  <2>4. QED
    BY <2>2, <2>3
<1>6. QED
  BY <1>3, <1>4, <1>5 DEF Kept

LEMMA SwapPublishes ==
  ASSUME PublishInv, TypeInv', NEW t \in Nodes, Swap(t)
  PROVE  Kept
<1> DEFINE K == Key(building[t])
<1>1. phase = "run" /\ swapping = t /\ work[t] = "saving"
      /\ UNCHANGED <<edited, phase, runtime, building, making, swapping, previous>>
      /\ entries' = [entries EXCEPT ![K] = making[t]]
      /\ hidden' = hidden \ {<<"tmp", K>>}
      /\ work' = [work EXCEPT ![t] = "published"]
  BY DEF Swap, invocation, arguments, publication
<1>2. building[t] \in Nodes /\ K \in Keys /\ Key(building[t])' = K
  BY <1>1, CurrentKeyType DEF PublishInv, TypeInv, BuildsNodes, Key
<1>3. work'[t] = "published" /\ \A u \in Nodes \ {t} : work'[u] = work[u]
  BY <1>1 DEF PublishInv, TypeInv, TypeOK
<1>4. Whole(K)'
  BY <1>1, <1>2 DEF Whole, PublishInv, PublicationsInStep, TypeInv, TypeOK
<1>5. PublicationsInStep'
  BY <1>1, <1>2, <1>3, <1>4 DEF PublishInv, PublicationsInStep
<1>6. NothingPilesUp'
  <2>1. ASSUME NEW h \in hidden'
        PROVE  \/ \E u \in {v \in Nodes : work'[v] = "saving"} : h = <<"tmp", Key(building[u])'>>
               \/ \E u \in {swapping'} \cap Nodes : h = <<"previous", Key(building[u])'>>
    <3>1. \/ \E u \in {v \in Nodes : work[v] = "saving"} : h = <<"tmp", Key(building[u])>>
          \/ \E u \in {swapping} \cap Nodes : h = <<"previous", Key(building[u])>>
      BY <1>1, <2>1 DEF PublishInv, NothingPilesUp
    <3>2. CASE \E u \in {v \in Nodes : work[v] = "saving"} : h = <<"tmp", Key(building[u])>>
      <4>1. PICK u \in Nodes : work[u] = "saving" /\ h = <<"tmp", Key(building[u])>>
        BY <3>2
      <4>2. u # t
        BY <1>1, <2>1, <4>1
      <4>3. QED
        BY <1>1, <1>3, <4>1, <4>2 DEF Key
    <3>3. CASE \E u \in {swapping} \cap Nodes : h = <<"previous", Key(building[u])>>
      BY <1>1, <3>3 DEF Key
    <3>4. QED
      BY <3>1, <3>2, <3>3
  <2>2. QED
    BY <2>1 DEF NothingPilesUp
<1>7. ASSUME NEW m \in Nodes, HadEntry(m)
      PROVE  HadEntry(m)'
  <2>1. Key(m)' = Key(m) /\ Key(m) \in Keys
    BY <1>1, CurrentKeyType DEF Key, PublishInv
  <2>2. CASE m = building[t]
    BY <1>2, <1>4, <2>1, <2>2 DEF HadEntry, Whole
  <2>3. CASE m # building[t]
    <3>1. Key(m) # K
      BY <1>2, <2>3, KeysDiffer DEF PublishInv
    <3>2. Whole(Key(m))
      BY <1>1, <1>7, <2>3 DEF HadEntry
    <3>3. Whole(Key(m))'
      BY <1>1, <2>1, <3>1, <3>2 DEF Whole, PublishInv, TypeInv, TypeOK
    <3>4. QED
      BY <3>3 DEF HadEntry
  <2>4. QED
    BY <2>2, <2>3
<1>8. QED
  BY <1>5, <1>6, <1>7 DEF Kept

LEMMA SwapFailsPublishes ==
  ASSUME PublishInv, TypeInv', NEW t \in Nodes, SwapFails(t)
  PROVE  Kept
<1> DEFINE K == Key(building[t])
<1>1. phase = "run" /\ swapping = t /\ work[t] = "saving"
      /\ UNCHANGED <<edited, phase, runtime, building, making>>
      /\ swapping' = NoNode
      /\ entries' = [entries EXCEPT ![K] = previous]
      /\ hidden' = hidden \ {<<"tmp", K>>, <<"previous", K>>}
      /\ work' = [work EXCEPT ![t] = "none"]
  BY DEF SwapFails, Fails, NoSwap, invocation, arguments
<1>2. building[t] \in Nodes /\ K \in Keys /\ Key(building[t])' = K
  BY <1>1, CurrentKeyType DEF PublishInv, TypeInv, BuildsNodes, Key
<1>3. work'[t] = "none" /\ \A u \in Nodes \ {t} : work'[u] = work[u]
  BY <1>1 DEF PublishInv, TypeInv, TypeOK
<1>4. PublicationsInStep'
  <2>1. \A u \in Nodes : work'[u] # "published"
    BY <1>1, <1>3 DEF PublishInv, PublicationsInStep
  <2>2. QED
    BY <1>1, <1>3, <2>1, StoreAssumption DEF PublishInv, PublicationsInStep
<1>5. NothingPilesUp'
  <2>1. ASSUME NEW h \in hidden'
        PROVE  \E u \in {v \in Nodes : work'[v] = "saving"} : h = <<"tmp", Key(building[u])'>>
    <3>1. \/ \E u \in {v \in Nodes : work[v] = "saving"} : h = <<"tmp", Key(building[u])>>
          \/ \E u \in {swapping} \cap Nodes : h = <<"previous", Key(building[u])>>
      BY <1>1, <2>1 DEF PublishInv, NothingPilesUp
    <3>2. PICK u \in Nodes : work[u] = "saving" /\ h = <<"tmp", Key(building[u])>>
      BY <1>1, <2>1, <3>1
    <3>3. u # t
      BY <1>1, <2>1, <3>2
    <3>4. QED
      BY <1>1, <1>3, <3>2, <3>3 DEF Key
  <2>2. QED
    BY <2>1 DEF NothingPilesUp
<1>6. ASSUME NEW m \in Nodes, HadEntry(m)
      PROVE  HadEntry(m)'
  <2>1. Key(m)' = Key(m) /\ Key(m) \in Keys
    BY <1>1, CurrentKeyType DEF Key, PublishInv
  <2>2. CASE m = building[t]
    <3>1. ~Whole(K)
      BY <1>1 DEF PublishInv, PublicationsInStep, Missing, Whole, Parts
    <3>2. previous.files = Parts
      BY <1>6, <2>2, <3>1 DEF HadEntry
    <3>3. QED
      BY <1>1, <1>2, <2>1, <2>2, <3>2 DEF HadEntry, Whole, PublishInv, TypeInv, TypeOK
  <2>3. CASE m # building[t]
    <3>1. Key(m) # K
      BY <1>2, <2>3, KeysDiffer DEF PublishInv
    <3>2. Whole(Key(m))
      BY <1>1, <1>6, <2>3 DEF HadEntry
    <3>3. Whole(Key(m))'
      BY <1>1, <2>1, <3>1, <3>2 DEF Whole, PublishInv, TypeInv, TypeOK
    <3>4. QED
      BY <3>3 DEF HadEntry
  <2>4. QED
    BY <2>2, <2>3
<1>7. QED
  BY <1>4, <1>5, <1>6 DEF Kept

LEMMA CleanupPublishes ==
  ASSUME PublishInv, TypeInv', NEW t \in Nodes, Cleanup(t)
  PROVE  Kept
<1> DEFINE K == Key(building[t])
<1>1. phase = "run" /\ swapping = t /\ work[t] = "published"
      /\ UNCHANGED <<edited, entries, phase, runtime, building, making>>
      /\ swapping' = NoNode
      /\ hidden' = hidden \ {<<"previous", K>>}
      /\ work' = [work EXCEPT ![t] = "none"]
  BY DEF Cleanup, NoSwap, invocation, arguments
<1>2. work'[t] = "none" /\ \A u \in Nodes \ {t} : work'[u] = work[u]
  BY <1>1 DEF PublishInv, TypeInv, TypeOK
<1>3. PublicationsInStep'
  <2>1. \A u \in Nodes : work'[u] # "published"
    BY <1>1, <1>2 DEF PublishInv, PublicationsInStep
  <2>2. QED
    BY <1>1, <1>2, <2>1, StoreAssumption DEF PublishInv, PublicationsInStep
<1>4. NothingPilesUp'
  <2>1. ASSUME NEW h \in hidden'
        PROVE  \E u \in {v \in Nodes : work'[v] = "saving"} : h = <<"tmp", Key(building[u])'>>
    <3>1. \/ \E u \in {v \in Nodes : work[v] = "saving"} : h = <<"tmp", Key(building[u])>>
          \/ \E u \in {swapping} \cap Nodes : h = <<"previous", Key(building[u])>>
      BY <1>1, <2>1 DEF PublishInv, NothingPilesUp
    <3>2. PICK u \in Nodes : work[u] = "saving" /\ h = <<"tmp", Key(building[u])>>
      BY <1>1, <2>1, <3>1
    <3>3. QED
      BY <1>1, <1>2, <3>2 DEF Key
  <2>2. QED
    BY <2>1 DEF NothingPilesUp
<1>5. \A m \in Nodes : HadEntry(m) => HadEntry(m)'
  <2>1. Whole(K)
    BY <1>1 DEF PublishInv, PublicationsInStep
  <2>2. QED
    BY <1>1, <2>1 DEF HadEntry, Key, Whole
<1>6. QED
  BY <1>3, <1>4, <1>5 DEF Kept

LEMMA PublishStep ==
  PublishInv /\ [Next]_vars =>
    /\ PublishInv'
    /\ phase = "run" /\ phase' = "run" => \A n \in Nodes : HadEntry(n) => HadEntry(n)'
<1> SUFFICES ASSUME PublishInv, [Next]_vars
             PROVE  /\ PublicationsInStep' /\ NothingPilesUp'
                    /\ phase = "run" /\ phase' = "run" =>
                         \A n \in Nodes : HadEntry(n) => HadEntry(n)'
  BY StoreTypeStep DEF PublishInv
<1> DEFINE Goal == /\ PublicationsInStep' /\ NothingPilesUp'
                   /\ phase = "run" /\ phase' = "run" =>
                        \A n \in Nodes : HadEntry(n) => HadEntry(n)'
<1>1. TypeInv'
  BY StoreTypeStep DEF PublishInv
<1>2. ASSUME NEW t \in Nodes,
             \/ Hit(t) \/ Save(t) \/ Abandon(t) \/ MoveAside(t)
             \/ Swap(t) \/ SwapFails(t) \/ Cleanup(t)
             \/ \E n \in Nodes : Restore(t, n) \/ StartBody(t, n)
      PROVE  Goal
  <2>1. Kept
    BY <1>1, <1>2, HitsPublish, BodyPublishes, SavePublishes, AbandonPublishes, MoveAsidePublishes,
       SwapPublishes, SwapFailsPublishes, CleanupPublishes
  <2>2. QED
    BY <2>1 DEF Kept
<1>3. CASE \/ \E S \in Selections : \E f \in BOOLEAN, options \in Runtimes : InvokeRun(S, f, options)
           \/ \E S \in Selections : InvokePrune(S)
           \/ \E h \in hidden : RemoveHidden(h)
           \/ \E k \in Keys : Remove(k)
           \/ \E n \in Nodes : Edit(n)
  <2>1. phase # "run" /\ phase' # "run" /\ UNCHANGED <<work, making, swapping>>
    BY <1>3 DEF InvokeRun, InvokePrune, RemoveHidden, Remove, Edit, invocation, runs, publication
  <2>2. PublicationsInStep' /\ NothingPilesUp'
    BY <2>1 DEF PublishInv, PublicationsInStep, NothingPilesUp
  <2>3. QED
    BY <2>1, <2>2
<1>4. CASE Pruned \/ Exit \/ Crash
  <2>1. swapping' = NoNode /\ (\A t \in Nodes : work'[t] = "none")
    <3>1. CASE Pruned
      BY <3>1 DEF Pruned, runs, publication, PublishInv, PublicationsInStep
    <3>2. CASE Exit
      BY <3>2 DEF Exit, runs, publication, PublishInv, PublicationsInStep, TypeInv, TypeOK
    <3>3. CASE Crash
      BY <3>3 DEF Crash, Gone
    <3>4. QED
      BY <1>4, <3>1, <3>2, <3>3
  <2>2. phase' = "run" => hidden' = {} /\ phase = "prune"
    BY <1>4 DEF Pruned, Exit, Crash, Gone
  <2>3. PublicationsInStep'
    BY <2>1 DEF PublicationsInStep
  <2>4. NothingPilesUp'
    BY <2>2 DEF NothingPilesUp
  <2>5. QED
    BY <2>2, <2>3, <2>4
<1>5. CASE UNCHANGED vars
  <2>1. UNCHANGED <<edited, entries, hidden, phase, runtime, building, work, making, swapping, previous>>
    BY <1>5 DEF vars, invocation, arguments, runs, publication
  <2>2. PublicationsInStep' /\ NothingPilesUp'
    BY <2>1 DEF PublishInv, PublicationsInStep, NothingPilesUp, Key, Missing, Whole
  <2>3. \A n \in Nodes : HadEntry(n)' = HadEntry(n)
    BY <2>1 DEF HadEntry, Key, Whole
  <2>4. QED
    BY <2>2, <2>3
<1>6. QED
  BY <1>2, <1>3, <1>4, <1>5 DEF Next

LEMMA PublishInit == Init => PublishInv
BY StoreTypeInit DEF Init, PublishInv, PublicationsInStep, NothingPilesUp

(***************************************************************************)
(* Whatever was killed or failed before, and with --force too, the dotted  *)
(* directories a run finds are those of the publications in progress: the  *)
(* removal of hidden ones at the next prune misses none (checkpoint.py).   *)
(***************************************************************************)
THEOREM NothingLeftBehind == Spec => []NothingPilesUp
<1>1. PublishInv => NothingPilesUp
  BY DEF PublishInv
<1>2. QED
  BY <1>1, PublishInit, PublishStep, PTL DEF Spec

(***************************************************************************)
(* While a run goes on, none of its publications costs a checkpoint of the *)
(* present code: what a failed one moved aside is moved back, what a       *)
(* successful one replaced has been replaced (checkpoint.py, publish).  A  *)
(* kill ends the run, and can leave the old entry under a dotted name.     *)
(***************************************************************************)
THEOREM EntriesSurvive == Spec => ReplacedOnlyOnSuccess
<1>1. PublishInv /\ [Next]_vars =>
        [phase = "run" /\ phase' = "run" => \A n \in Nodes : HadEntry(n) => HadEntry(n)']_vars
  BY PublishStep
<1>2. PublishInv /\ [Next]_vars => PublishInv'
  BY PublishStep
<1>3. QED
  BY <1>1, <1>2, PublishInit, PTL DEF Spec, ReplacedOnlyOnSuccess
==============================================================================
