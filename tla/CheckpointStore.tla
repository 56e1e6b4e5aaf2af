--------------------------- MODULE CheckpointStore ---------------------------
(***************************************************************************)
(* CheckpointStore of graph/checkpoint.py: the checkpoint directories on   *)
(* disk over a sequence of invocations of the command line, with the       *)
(* source edited between them and the process killed within them.          *)
(*                                                                         *)
(* An entry is the directory `<name>-<key>`: its files, and which build of *)
(* which other entries its disk has as backing files.  The overlay of a    *)
(* guest names its backing file by path, and the path of an entry depends  *)
(* on its key only, so a base is a key and the build that was there when   *)
(* the guest was restored.  Dotted names are the staging directories and   *)
(* the replaced entries on their way out; nothing ever reads them.         *)
(*                                                                         *)
(* A run of the graph (GraphExecutor.run, one per scheduled node) appears  *)
(* here only as what it asks of the store.                                 *)
(* Entries of the retired kind "result" are left out, and an empty         *)
(* directory counts as none.                                               *)
(***************************************************************************)
EXTENDS TestGraph

CONSTANTS
  Files,        \* the test files
  FileOf,       \* the file a node is defined in: its checkpoint's origin
  Editable,     \* the nodes that have a second version of their code
  Selections,   \* the sets of files a user passes to catsnail
  MayForce,     \* whether --force is used
  Runtimes,     \* the identities of the QEMU options that --qemu, --accel.. give
  Default,      \* the identity of the options' defaults
  CrashPhases,  \* the phases in which the process may be killed
  MaxBuilds,    \* bound: how many bodies are started in all
  NoNode

ASSUME StoreAssumption ==
  /\ FileOf \in [Nodes -> Files]
  /\ Editable \subseteq Nodes
  /\ Selections \subseteq SUBSET Files
  /\ MayForce \in BOOLEAN
  /\ Default \in Runtimes
  /\ CrashPhases \subseteq {"prune", "run"}
  /\ MaxBuilds \in Nat
  /\ NoNode \notin Nodes

\* checkpoint_key hashes the code of a node and of all it depends on, and the
\* identity of the options: a key is the node, those of them that are in their
\* second version, and the identity.
Keys == {k \in Nodes \X (SUBSET Editable) \X Runtimes : k[2] \subseteq Upstream[k[1]]}

\* Mutant of KeyOf: only the node's own code is hashed.
KeyOfOwnCode(n, code, options) == <<n, code \cap {n}, options>>

KeyOf(n, code, options) == <<n, code \cap Upstream[n], options>>

\* The nodes the modules of these files export or import, and what they use.
Collected(S) == UNION {Upstream[n] : n \in {m \in Nodes : FileOf[m] \in S}}

Parts == {"manifest", "disk", "state"}
Entries == [files : SUBSET Parts, build : Nat, bases : SUBSET (Keys \X Nat)]
NoEntry == [files |-> {}, build |-> 0, bases |-> {}]

VARIABLES
  edited,     \* the nodes whose source is in its second version
  entries,    \* the directory of every key
  hidden,     \* the dotted directories, as <<kind, key>>
  phase,      \* "idle" between invocations, "prune", "run"
  command,    \* the subcommand invoked
  selection,  \* the files of the invocation
  forced,     \* its --force
  runtime,    \* the identity of its QEMU options
  doomed,     \* the stale entries prune has not removed yet
  verdict,    \* of the run of a node: "open", "passed" or "failed"
  held,       \* the inputs a run has restored, and their builds
  building,   \* the node whose body a run executes
  work,       \* how far that is: "none", "body", "saving", "published"
  making,     \* the entry it will publish
  swapping,   \* the run in the renaming section of publish, or NoNode
  previous,   \* the entry that section has moved aside
  builds      \* the bodies started so far

arguments == <<command, selection, forced, runtime>>
invocation == <<phase, arguments, doomed>>
runs == <<verdict, held, building, work>>
publication == <<making, swapping, previous, builds>>
vars == <<edited, entries, hidden, invocation, runs, publication>>

Key(n) == KeyOf(n, edited, runtime)

TypeOK ==
  /\ edited \subseteq Editable
  /\ entries \in [Keys -> Entries]
  /\ hidden \subseteq {"tmp", "previous"} \X Keys
  /\ phase \in {"idle", "prune", "run"}
  /\ selection \in SUBSET Files
  /\ command \in {"run", "prune"}
  /\ forced \in BOOLEAN
  /\ runtime \in Runtimes
  /\ doomed \subseteq Keys
  /\ verdict \in [Nodes -> {"open", "passed", "failed"}]
  /\ held \in [Nodes -> SUBSET (Keys \X Nat)]
  /\ building \in [Nodes -> Nodes \cup {NoNode}]
  /\ work \in [Nodes -> {"none", "body", "saving", "published"}]
  /\ making \in [Nodes -> Entries]
  /\ swapping \in Nodes \cup {NoNode}
  /\ previous \in Entries
  /\ builds \in Nat

Init ==
  /\ edited = {}
  /\ entries = [k \in Keys |-> NoEntry]
  /\ hidden = {}
  /\ phase = "idle"
  /\ command = "run"
  /\ selection = {}
  /\ forced = FALSE
  /\ runtime = Default
  /\ doomed = {}
  /\ verdict = [t \in Nodes |-> "open"]
  /\ held = [t \in Nodes |-> {}]
  /\ building = [t \in Nodes |-> NoNode]
  /\ work = [t \in Nodes |-> "none"]
  /\ making = [n \in Nodes |-> NoEntry]
  /\ swapping = NoNode
  /\ previous = NoEntry
  /\ builds = 0

------------------------------------------------------------------------------
(* load: a directory without a manifest is none; one that lacks another     *)
(* file raises "checkpoint ... is incomplete"                               *)

Whole(k) == entries[k].files = Parts
Missing(k) == "manifest" \notin entries[k].files

------------------------------------------------------------------------------
(* prune *)

\* The keys of the collected nodes; stale_directories works for any such map.
CurrentKeys(S, options) == {KeyOf(n, edited, options) : n \in Collected(S)}

\* Mutant of Stale: the origin of an entry does not matter.
StaleAnyOrigin(S, options) ==
  {k \in Keys : entries[k].files # {} /\ k \notin CurrentKeys(S, options)}

\* stale_directories; the origin of an entry is the file its node is defined in.
Stale(S, options) ==
  {k \in Keys : /\ entries[k].files # {}
                /\ \/ Missing(k)
                   \/ /\ FileOf[k[1]] \in {FileOf[n] : n \in Collected(S)}
                      /\ k \notin CurrentKeys(S, options)}

\* `catsnail run`: its prune comes before the first task.
InvokeRun(S, f, options) ==
  /\ phase = "idle"
  /\ phase' = "prune"
  /\ command' = "run"
  /\ selection' = S
  /\ forced' = f
  /\ runtime' = options
  /\ doomed' = Stale(S, options)
  /\ verdict' = [t \in Nodes |-> "open"]
  /\ held' = [t \in Nodes |-> {}]
  /\ UNCHANGED <<edited, entries, hidden, building, work, publication>>

\* `catsnail prune`, answered with y; the command takes no QEMU options.
InvokePrune(S) ==
  /\ phase = "idle"
  /\ phase' = "prune"
  /\ command' = "prune"
  /\ selection' = S
  /\ forced' = FALSE
  /\ runtime' = Default
  /\ doomed' = Stale(S, Default)
  /\ UNCHANGED <<edited, entries, hidden, runs, publication>>

\* The listing is sorted: dotted names come first.
RemoveHidden(h) ==
  /\ phase = "prune" /\ h \in hidden
  /\ hidden' = hidden \ {h}
  /\ UNCHANGED <<edited, entries, invocation, runs, publication>>

Remove(k) ==
  /\ phase = "prune" /\ hidden = {} /\ k \in doomed
  /\ entries' = [entries EXCEPT ![k] = NoEntry]
  /\ doomed' = doomed \ {k}
  /\ UNCHANGED <<edited, hidden, phase, arguments, runs, publication>>

Pruned ==
  /\ phase = "prune" /\ hidden = {} /\ doomed = {}
  /\ phase' = IF command = "run" THEN "run" ELSE "idle"
  /\ UNCHANGED <<edited, entries, hidden, arguments, doomed, runs, publication>>

------------------------------------------------------------------------------
(* What a run asks of the store.  The renaming section of publish has no     *)
(* await: while a run is in it no other run moves.                          *)

At(t) ==
  /\ phase = "run" /\ swapping = NoNode
  /\ t \in Collected(selection) /\ verdict[t] = "open"
  /\ \A d \in NodeDeps[t] : verdict[d] = "passed"

Holds(t, n) == \E b \in held[t] : b[1] = Key(n)
Input(t, n) == <<Key(n), entries[Key(n)].build>>

\* load finds the target's own checkpoint.
Hit(t) ==
  /\ At(t) /\ work[t] = "none" /\ ~forced /\ Whole(Key(t))
  /\ verdict' = [verdict EXCEPT ![t] = "passed"]
  /\ UNCHANGED <<edited, entries, hidden, invocation, held, building, work, publication>>

\* load finds the checkpoint of a prerequisite and its guests are restored.
Restore(t, n) ==
  /\ At(t) /\ work[t] = "none" /\ ~forced
  /\ n \in Upstream[t] \ {t} /\ ~Holds(t, n)
  /\ Missing(Key(t)) /\ Whole(Key(n))
  /\ held' = [held EXCEPT ![t] = @ \cup {Input(t, n)}]
  /\ UNCHANGED <<edited, entries, hidden, invocation, verdict, building, work, publication>>

\* load finds nothing, or is not asked, and the inputs of n are there.  The
\* lock of the key keeps two runs from building it at the same time.
StartBody(t, n) ==
  /\ At(t) /\ work[t] = "none" /\ builds < MaxBuilds
  /\ n \in Upstream[t] /\ ~Holds(t, n)
  /\ forced \/ Missing(Key(n))
  /\ \A d \in NodeDeps[n] : Holds(t, d)
  /\ \A u \in Nodes : work[u] # "none" => building[u] # n
  /\ builds' = builds + 1
  /\ building' = [building EXCEPT ![t] = n]
  /\ work' = [work EXCEPT ![t] = "body"]
  /\ making' = [making EXCEPT ![t] =
       [files |-> Parts, build |-> builds + 1,
        bases |-> {b \in held[t] : \E d \in NodeDeps[n] : b[1] = Key(d)}]]
  /\ UNCHANGED <<edited, entries, hidden, invocation, verdict, held, swapping, previous>>

\* The guests are saved into a new staging directory.
Save(t) ==
  /\ At(t) /\ work[t] = "body"
  /\ work' = [work EXCEPT ![t] = "saving"]
  /\ hidden' = hidden \cup {<<"tmp", Key(building[t])>>}
  /\ UNCHANGED <<edited, entries, invocation, verdict, held, building, publication>>

Fails(t) ==
  /\ verdict' = [verdict EXCEPT ![t] = "failed"]
  /\ work' = [work EXCEPT ![t] = "none"]
  /\ UNCHANGED <<held, building>>

\* Mutant of Abandon: the staging directory is not discarded.
AbandonStaging(t) ==
  /\ At(t) /\ Fails(t)
  /\ UNCHANGED <<edited, entries, hidden, invocation, publication>>

\* load raises, a restore, the body or the saving fails, or it is cancelled.
Abandon(t) ==
  /\ At(t) /\ Fails(t)
  /\ hidden' = IF work[t] = "saving" THEN hidden \ {<<"tmp", Key(building[t])>>} ELSE hidden
  /\ UNCHANGED <<edited, entries, invocation, publication>>

\* publish moves the old entry out of the way.
MoveAside(t) ==
  /\ At(t) /\ work[t] = "saving"
  /\ LET k == Key(building[t]) IN
       /\ previous' = entries[k]
       /\ entries' = [entries EXCEPT ![k] = NoEntry]
       /\ hidden' = IF entries[k].files = {} THEN hidden
                                             ELSE hidden \cup {<<"previous", k>>}
  /\ swapping' = t
  /\ UNCHANGED <<edited, invocation, runs, making, builds>>

Swap(t) ==
  /\ phase = "run" /\ swapping = t /\ work[t] = "saving"
  /\ entries' = [entries EXCEPT ![Key(building[t])] = making[t]]
  /\ hidden' = hidden \ {<<"tmp", Key(building[t])>>}
  /\ work' = [work EXCEPT ![t] = "published"]
  /\ UNCHANGED <<edited, invocation, verdict, held, building, publication>>

NoSwap == swapping' = NoNode /\ previous' = NoEntry /\ UNCHANGED <<making, builds>>

\* Mutant of SwapFails: the entry moved aside stays there.
SwapFailsForGood(t) ==
  /\ phase = "run" /\ swapping = t /\ work[t] = "saving"
  /\ hidden' = hidden \ {<<"tmp", Key(building[t])>>}
  /\ Fails(t) /\ NoSwap
  /\ UNCHANGED <<edited, entries, invocation>>

\* os.replace raises: the old entry is moved back.
SwapFails(t) ==
  /\ phase = "run" /\ swapping = t /\ work[t] = "saving"
  /\ LET k == Key(building[t]) IN
       /\ entries' = [entries EXCEPT ![k] = previous]
       /\ hidden' = hidden \ {<<"tmp", k>>, <<"previous", k>>}
  /\ Fails(t) /\ NoSwap
  /\ UNCHANGED <<edited, invocation>>

\* The old entry is removed; the target passes, or a prerequisite is restored.
Cleanup(t) ==
  /\ phase = "run" /\ swapping = t /\ work[t] = "published"
  /\ hidden' = hidden \ {<<"previous", Key(building[t])>>}
  /\ work' = [work EXCEPT ![t] = "none"]
  /\ IF building[t] = t
       THEN verdict' = [verdict EXCEPT ![t] = "passed"] /\ UNCHANGED held
       ELSE held' = [held EXCEPT ![t] = @ \cup {Input(t, building[t])}] /\ UNCHANGED verdict
  /\ NoSwap
  /\ UNCHANGED <<edited, entries, invocation, building>>

------------------------------------------------------------------------------
(* Between and against invocations *)

\* The invocation is over: every run of it has ended.
Exit ==
  /\ phase = "run" /\ \A n \in Nodes : work[n] = "none"
  /\ phase' = "idle"
  /\ UNCHANGED <<edited, entries, hidden, arguments, doomed, runs, publication>>

Gone ==
  /\ phase' = "idle"
  /\ doomed' = {}
  /\ work' = [n \in Nodes |-> "none"]
  /\ swapping' = NoNode
  /\ previous' = NoEntry
  /\ UNCHANGED <<edited, hidden, arguments, verdict, held, building, making, builds>>

\* Killed: what was being removed has lost any of its files.
Crash ==
  /\ phase \in CrashPhases
  /\ Gone
  /\ \/ UNCHANGED entries
     \/ /\ hidden = {}
        /\ \E k \in doomed, left \in SUBSET Parts :
             /\ left \subseteq entries[k].files
             /\ entries' = [entries EXCEPT ![k].files = left]

\* The user edits a test, or takes the edit back.
Edit(n) ==
  /\ phase = "idle" /\ n \in Editable
  /\ edited' = IF n \in edited THEN edited \ {n} ELSE edited \cup {n}
  /\ UNCHANGED <<entries, hidden, invocation, runs, publication>>

Next ==
  \/ \E S \in Selections, f \in BOOLEAN, options \in Runtimes :
       (f => MayForce) /\ InvokeRun(S, f, options)
  \/ \E S \in Selections : InvokePrune(S)
  \/ \E h \in hidden : RemoveHidden(h)
  \/ \E k \in Keys : Remove(k)
  \/ Pruned
  \/ \E t \in Nodes :
       \/ Hit(t)
       \/ \E n \in Nodes : Restore(t, n) \/ StartBody(t, n)
       \/ Save(t)
       \/ Abandon(t)
       \/ MoveAside(t)
       \/ Swap(t)
       \/ SwapFails(t)
       \/ Cleanup(t)
       \/ Edit(t)
  \/ Exit
  \/ Crash

Spec == Init /\ [][Next]_vars

------------------------------------------------------------------------------
(* Properties *)

\* The builds an entry was saved on top of are still the ones in their place.
Intact(e) == \A b \in e.bases : Whole(b[1]) /\ entries[b[1]].build = b[2]

(***************************************************************************)
(* docs/SNAPSHOT_RESEARCH.md: "Catsnail checkpoints must restore an exact  *)
(* running guest".  An entry load accepts has the backing files that its   *)
(* disk layer and its memory state were saved with.                        *)
(***************************************************************************)
ChainsIntact == \A k \in Keys \ doomed : Whole(k) => Intact(entries[k])

(***************************************************************************)
(* The inductive invariant behind ChainsIntact, and what it needs: no      *)
(* --force, every file selected, and no kill in a prune.                   *)
(***************************************************************************)
Careful == ~MayForce /\ Selections \subseteq {Files} /\ CrashPhases \subseteq {"run"}

\* The bases of an entry are those its key hashes.
OnKeysOf(k, e) ==
  \A b \in e.bases : \E d \in NodeDeps[k[1]] : b[1] = KeyOf(d, k[2], k[3])

BasesHashed == \A k \in Keys : Whole(k) => OnKeysOf(k, entries[k])

\* A body runs for a key that has no entry, on builds that stay where they are.
BodiesOnIntact ==
  \A t \in Nodes : work[t] \in {"body", "saving"} =>
    /\ building[t] \in Nodes
    /\ Missing(Key(building[t]))
    /\ OnKeysOf(Key(building[t]), making[t])
    /\ making[t].files = Parts /\ Intact(making[t])

OneBuilder ==
  \A t, u \in Nodes : work[t] # "none" /\ work[u] # "none" /\ t # u => building[t] # building[u]

SwapConsistent ==
  /\ \A t \in Nodes : work[t] = "published" =>
       swapping = t /\ building[t] \in Nodes /\ Whole(Key(building[t]))
  /\ swapping # NoNode =>
       work[swapping] \in {"saving", "published"} /\ "manifest" \notin previous.files

HeldIntact ==
  phase = "run" =>
    \A t \in Nodes : \A b \in held[t] : Whole(b[1]) /\ entries[b[1]].build = b[2]

\* What prune leaves alone is current, what it removes is not worth restoring.
DoomedStale ==
  phase = "prune" =>
    /\ command = "run" => \A t \in Nodes : held[t] = {}
    /\ \A k \in Keys :
         IF k \in doomed THEN Missing(k) \/ k \notin CurrentKeys(Files, runtime)
                         ELSE Whole(k) => k \in CurrentKeys(Files, runtime)

Phased ==
  /\ forced = FALSE
  /\ phase # "prune" => doomed = {}
  /\ phase # "run" => swapping = NoNode /\ \A t \in Nodes : work[t] = "none"

StoreInv ==
  /\ TypeOK /\ ChainsIntact
  /\ BasesHashed /\ BodiesOnIntact /\ OneBuilder /\ SwapConsistent
  /\ HeldIntact /\ DoomedStale /\ Phased

(***************************************************************************)
(* The same, after an invocation all of whose runs have passed.            *)
(***************************************************************************)
PassedRunLeavesChainsIntact ==
  phase = "idle" /\ command = "run" /\ (\A t \in Nodes : verdict[t] = "passed")
    => ChainsIntact

(***************************************************************************)
(* checkpoint.py:135: "Checkpoints from other test files remain reusable   *)
(* when a user selects one file or subdirectory."  Prune removes no        *)
(* checkpoint that matches the present code of a test.                     *)
(***************************************************************************)
PruneSparesCurrent ==
  command = "run" => \A n \in Nodes : Key(n) \in doomed => Missing(Key(n))

(***************************************************************************)
(* cli.py:744: the prune command is to "discard checkpoints invalidated by *)
(* the selected tests": it removes no checkpoint whose test is unchanged,  *)
(* whichever QEMU options it was built with.                               *)
(***************************************************************************)
PruneCommandSparesCurrent ==
  command = "prune" =>
    \A n \in Nodes, options \in Runtimes :
      KeyOf(n, edited, options) \in doomed => Missing(KeyOf(n, edited, options))

(***************************************************************************)
(* checkpoint.py:136: "malformed entries are always stale because they     *)
(* cannot be restored safely."  What load would raise for, every prune of  *)
(* the owning file removes.                                                *)
(***************************************************************************)
MalformedAreStale ==
  phase = "idle" =>
    \A k \in Keys : entries[k].files # {} /\ ~Whole(k) => k \in Stale(Files, Default)

(***************************************************************************)
(* README: --force replaces the cache "only after they succeed".  While a  *)
(* run goes on no entry of the present code is lost: a failed publication  *)
(* leaves the old one, a successful one the new.  A kill between the two   *)
(* renames of publish ends the run and leaves the old one under a dotted   *)
(* name, which nothing reads.                                              *)
(***************************************************************************)
HadEntry(n) ==
  \/ Whole(Key(n))
  \/ \E t \in Nodes : swapping = t /\ building[t] = n /\ previous.files = Parts

ReplacedOnlyOnSuccess ==
  [][phase = "run" /\ phase' = "run" =>
       \A n \in Nodes : HadEntry(n) => HadEntry(n)']_vars

(***************************************************************************)
(* Whatever was killed or failed before, during a run the dotted           *)
(* directories are those of the publications in progress: nothing piles up *)
(* on the disk (checkpoint.py:119, 127 and 143).                           *)
(***************************************************************************)
NothingPilesUp ==
  phase = "run" =>
    hidden \subseteq {<<"tmp", Key(building[t])>> : t \in {u \in Nodes : work[u] = "saving"}}
               \cup {<<"previous", Key(building[t])>> : t \in {swapping} \cap Nodes}
==============================================================================
