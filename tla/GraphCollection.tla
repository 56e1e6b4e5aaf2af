-------------------------- MODULE GraphCollection --------------------------
(***************************************************************************)
(* How `catsnail run <directory>` gets its tests: the discovered files are *)
(* executed one after another (cli.py), each file's tests are validated    *)
(* depth first (graph/api.py), and what is selected is put in the order,   *)
(* and the tree, that the run shows (progress.py).                         *)
(*                                                                         *)
(* The files are modules of one package, each declares one test, and a     *)
(* test uses tests that its file imports.  Executing a file again makes    *)
(* new nodes under the old names: a node is its file and which execution   *)
(* of the file made it.  A cycle cannot be written, for a test exists      *)
(* before it is used, and machines are left out.                           *)
(***************************************************************************)
EXTENDS Naturals, Sequences, FiniteSets, SequencesExt

CONSTANTS
  Order,        \* the test files, as sorted by _discover_test_paths
  MaxInputs,    \* bound: inputs of a test
  MaxOddities,  \* bound: internal tests, wrong annotations and left-out tests
  Rows          \* numbers of terminal rows

Files == ToSet(Order)

ASSUME CollectionAssumption ==
  /\ Cardinality(Files) = Len(Order)
  /\ MaxInputs \in Nat /\ MaxOddities \in Nat /\ Rows \subseteq Nat \ {0}

VARIABLES
  uses,       \* uses[f]: the tests that the test of f takes, in order
  internal,   \* the tests that are only setups
  wrong,      \* the tests whose last parameter is annotated with another type
  chosen,     \* the tests that --test matches
  at,         \* what the command is doing
  next,       \* the file it is doing it to
  modules,    \* sys.modules: which execution of a file, 0 is none
  running,    \* the files in execution, an import within an import last
  inputs,     \* inputs[node]: the nodes it uses
  roots,      \* the tests of the module that are not visited yet
  stack,      \* the active visits, with how many inputs each has visited
  ordered,    \* the nodes of the file that are validated
  targets     \* the tests that will be run

program == <<uses, internal, wrong, chosen>>
loading == <<modules, running, inputs>>
visiting == <<roots, stack, ordered>>
vars == <<program, at, next, loading, visiting, targets>>

Nodes == DOMAIN inputs
Known == ToSet(ordered) \cup {stack[i].of : i \in DOMAIN stack}

TypeOK ==
  /\ at \in {"load", "import", "validate", "ready", "rejected"}
  /\ next \in 1..Len(Order) + 1 /\ (at = "ready" => next > Len(Order))
  /\ modules \in [Files -> 0..Len(Order)]
  /\ ToSet(running) \subseteq Files /\ (running # <<>> <=> at = "import")
  /\ \A n \in Nodes : n[2] \in 1..modules[n[1]] /\ ToSet(inputs[n]) \subseteq Nodes
  /\ ToSet(targets) \cup ToSet(roots) \cup Known \subseteq Nodes

Imports == UNION {SetToSeqs(S) : S \in {T \in SUBSET Files : Cardinality(T) <= MaxInputs}}
Writable(u) ==
  \A S \in SUBSET Files \ {{}} : \E f \in S : ToSet(u[f]) \cap S = {}

Init ==
  /\ uses \in {u \in [Files -> Imports] : Writable(u)}
  /\ internal \in SUBSET Files /\ wrong \in SUBSET {f \in Files : uses[f] # <<>>}
  /\ chosen \in {Files} \cup {Files \ {f} : f \in Files}
  /\ Cardinality(internal) + Cardinality(wrong) + Cardinality(Files \ chosen) <= MaxOddities
  /\ at = "load" /\ next = 1 /\ modules = [f \in Files |-> 0] /\ running = <<>>
  /\ inputs = <<>> /\ roots = <<>> /\ stack = <<>> /\ ordered = <<>> /\ targets = <<>>
------------------------------------------------------------------------------
(***************************************************************************)
(* Executing a file.  What it imports is executed only if sys.modules does *)
(* not have it; the file itself is executed whether it has or not.         *)
(***************************************************************************)
Execute(f) == modules' = [modules EXCEPT ![f] = @ + 1]

Load ==
  /\ at = "load" /\ next <= Len(Order) /\ at' = "import"
  /\ Execute(Order[next]) /\ running' = <<Order[next]>>
  /\ UNCHANGED <<program, next, inputs, visiting, targets>>

Missing == SelectSeq(uses[Last(running)], LAMBDA g : modules[g] = 0)

Import ==
  /\ at = "import" /\ Missing # <<>>
  /\ Execute(Head(Missing)) /\ running' = Append(running, Head(Missing))
  /\ UNCHANGED <<program, at, next, inputs, visiting, targets>>

\* add_test; the module exports what it has imported, and then its own test.
Define ==
  /\ at = "import" /\ Missing = <<>>
  /\ LET f == Last(running)
         node == <<f, modules[f]>>
         used == [i \in DOMAIN uses[f] |-> <<uses[f][i], modules[uses[f][i]]>>]
     IN /\ inputs' = (node :> used) @@ inputs
        /\ IF Len(running) = 1
           THEN at' = "validate" /\ roots' = Append(used, node)
           ELSE UNCHANGED <<at, roots>>
  /\ running' = Front(running)
  /\ UNCHANGED <<program, next, modules, stack, ordered, targets>>
------------------------------------------------------------------------------
(***************************************************************************)
(* TestGraph.validate.                                                     *)
(***************************************************************************)
Reject == at' = "rejected" /\ UNCHANGED <<stack, ordered>>

\* Mutant of Twin: a node that is met again is one, too.
TwinOrSelf(n) == \E k \in Known : k[1] = n[1]
\* Another node has the identity.
Twin(n) == \E k \in Known : k[1] = n[1] /\ k # n

\* visit, called for a node when the visits `below` are active.
Visit(n, below) ==
  IF Twin(n) THEN Reject
  ELSE /\ stack' = IF n \in ToSet(ordered) THEN below ELSE Append(below, [of |-> n, done |-> 0])
       /\ UNCHANGED <<at, ordered>>

VisitRoot ==
  /\ at = "validate" /\ stack = <<>> /\ roots # <<>>
  /\ Visit(Head(roots), stack) /\ roots' = Tail(roots)
  /\ UNCHANGED <<program, next, loading, targets>>

Top == Last(stack)
Expected(n, i) == n[1] \notin wrong \/ i < Len(inputs[n])

VisitInput ==
  /\ at = "validate" /\ stack # <<>> /\ Top.done < Len(inputs[Top.of])
  /\ LET i == Top.done + 1
     IN IF Expected(Top.of, i)
        THEN Visit(inputs[Top.of][i], Append(Front(stack), [Top EXCEPT !.done = i]))
        ELSE Reject
  /\ UNCHANGED <<program, next, loading, roots, targets>>

\* Mutant of Leave: a node is put in the order before what it uses.
LeaveFirst ==
  /\ at = "validate" /\ stack # <<>> /\ Top.done = Len(inputs[Top.of])
  /\ ordered' = <<Top.of>> \o ordered /\ stack' = Front(stack)
  /\ UNCHANGED <<program, at, next, loading, roots, targets>>
Leave ==
  /\ at = "validate" /\ stack # <<>> /\ Top.done = Len(inputs[Top.of])
  /\ ordered' = Append(ordered, Top.of) /\ stack' = Front(stack)
  /\ UNCHANGED <<program, at, next, loading, roots, targets>>

Validated == at = "validate" /\ stack = <<>> /\ roots = <<>>

\* select_test_targets; a file none of whose tests matches is passed over.
Select ==
  /\ Validated
  /\ targets' = targets \o SelectSeq(ordered, LAMBDA n : n[1] \in chosen \ internal)
  /\ ordered' = <<>> /\ next' = next + 1 /\ at' = "load"
  /\ UNCHANGED <<program, loading, roots, stack>>

Collected ==
  /\ at = "load" /\ next > Len(Order)
  /\ at' = IF targets = <<>> THEN "rejected" ELSE "ready"
  /\ UNCHANGED <<program, next, loading, visiting, targets>>

Over == at \in {"ready", "rejected"} /\ UNCHANGED vars

Next ==
  \/ Load \/ Import \/ Define \/ VisitRoot \/ VisitInput \/ Leave \/ Select
  \/ Collected \/ Over

Spec == Init /\ [][Next]_vars
------------------------------------------------------------------------------
(***************************************************************************)
(* What the run shows.  collect_test_nodes: the targets and what they use, *)
(* once per name; _tree_entries: every node under its first input, and     *)
(* once more, as a reference, under each of the others.                    *)
(***************************************************************************)
RECURSIVE Collect(_, _)
Collect(found, n) ==
  IF \E m \in ToSet(found) : m[1] = n[1] THEN found
  ELSE Append(FoldLeft(Collect, found, inputs[n]), n)

CollectTestNodes == FoldLeft(Collect, <<>>, targets)

Names(nodes) == {n[1] : n \in ToSet(nodes)}
Direct(n, nodes) == SelectSeq([i \in DOMAIN inputs[n] |-> inputs[n][i][1]], LAMBDA f : f \in Names(nodes))

\* Mutant of Children: a node is under its first input only.
ChildrenFirst(f, nodes) == SelectSeq(nodes, LAMBDA n : Direct(n, nodes) # <<>> /\ Direct(n, nodes)[1] = f)
Children(f, nodes) == SelectSeq(nodes, LAMBDA n : f \in ToSet(Direct(n, nodes)))

\* An entry is the path to it, and whether it is a reference.
RECURSIVE Entries(_, _, _)
Entries(path, reference, nodes) ==
  <<[path |-> path, reference |-> reference]>> \o
    IF reference THEN <<>>
    ELSE LET below == Children(Last(path), nodes)
         IN FlattenSeq([i \in DOMAIN below |->
              Entries(Append(path, below[i][1]), Direct(below[i], nodes)[1] # Last(path), nodes)])

Tree(nodes) ==
  LET tops == SelectSeq(nodes, LAMBDA n : Direct(n, nodes) = <<>>)
  IN FlattenSeq([i \in DOMAIN tops |-> Entries(<<tops[i][1]>>, FALSE, nodes)])

\* _live_tree_lines, with one title and one summary line: on a terminal that is
\* too small, the nodes that are busy with all they use, as far as they fit.
RECURSIVE WithInputs(_)
WithInputs(names) ==
  LET more == names \cup {g \in Files : \E f \in names : g \in ToSet(uses[f])}
  IN IF more = names THEN names ELSE WithInputs(more)

Active(busy, nodes) ==
  LET tree == Tree(nodes)
      last == Last(SelectSeq(tree, LAMBDA e : Len(e.path) = 1)).path[1]
      idle == {Last(e.path) : e \in {x \in ToSet(tree) : Len(x.path) = 1 \/ x.path[1] # last}}
  IN WithInputs(IF busy = {} THEN idle ELSE busy)

Budget(rows, header) == IF rows > header + 4 THEN rows - header - 4 ELSE 1

Shown(busy, rows, header, nodes) ==
  IF header + 2 + Len(Tree(nodes)) < rows THEN Tree(nodes)
  ELSE LET names == Active(busy, nodes)
           compact == Tree(SelectSeq(nodes, LAMBDA n : n[1] \in names))
       IN SubSeq(compact, 1, IF Len(compact) < Budget(rows, header) THEN Len(compact) ELSE Budget(rows, header))

Lines(busy, rows, header, nodes) ==
  LET entries == Shown(busy, rows, header, nodes)
  IN header + 2 + Len(entries)
       + IF Len(Tree(nodes)) # Len(entries) /\ Len(nodes) # Len(entries) THEN 1 ELSE 0
------------------------------------------------------------------------------
Reachable(n) ==
  LET RECURSIVE Below(_)
      Below(S) == LET more == S \cup UNION {ToSet(inputs[m]) : m \in S}
                  IN IF more = S THEN S ELSE Below(more)
  IN Below({n})

\* The execution of the file that is being validated.
Loaded == <<Order[next], modules[Order[next]]>>

\* What a file has got through validate is its test and all it depends on, each
\* once and after everything it uses, no two of one name, none with a wrong type.
OrderExact == Validated =>
  /\ ToSet(ordered) = Reachable(Loaded)
  /\ \A i \in DOMAIN ordered :
       /\ ToSet(inputs[ordered[i]]) \subseteq {ordered[j] : j \in 1..i - 1}
       /\ ordered[i][1] \notin wrong
       /\ \A j \in DOMAIN ordered : ordered[j][1] = ordered[i][1] => j = i

\* A command is refused for a reason: a wrong annotation, nothing to run, or
\* two nodes of one name, which takes a file that an earlier one imports and
\* that is then executed on its own turn.
Reloaded == {f \in Files : modules[f] > 1}
Refused == at = "rejected" =>
  \/ next > Len(Order)
  \/ \E n \in Reachable(Loaded) : n[1] \in wrong
  \/ \E n, m \in Reachable(Loaded) : n[1] = m[1] /\ n # m /\ n[1] \in Reloaded

\* A package in which every file imports files before it is never refused for
\* its names: its files are executed once.
Position(f) == CHOOSE i \in DOMAIN Order : Order[i] = f
Sorted == \A f \in Files : \A g \in ToSet(uses[f]) : Position(g) < Position(f)
SortedAccepted == Sorted /\ wrong = {} /\ at = "rejected" => targets = <<>> /\ next > Len(Order)

\* Refusals have a cause in the files, and only files read out of order cause
\* one between files that are fine alone (_load_module, validate).
RefusedForCause == Refused /\ SortedAccepted

\* The tree has every test that is run, and everything it uses, with its status
\* exactly once, and every use of one by another exactly once.
TreeWhole == at = "ready" =>
  LET nodes == CollectTestNodes
      tree == Tree(nodes)
      Full(f) == {i \in DOMAIN tree : Last(tree[i].path) = f /\ ~tree[i].reference}
      Edge(g, f) == {i \in DOMAIN tree : Len(tree[i].path) > 1 /\ tree[i].path[Len(tree[i].path) - 1] = g /\ Last(tree[i].path) = f}
  IN /\ \A t \in ToSet(targets) : \A n \in Reachable(t) : Cardinality(Full(n[1])) = 1
     /\ \A n \in ToSet(nodes) : \A g \in ToSet(uses[n[1]]) : Cardinality(Edge(g, n[1])) = 1

\* The live view has room on the terminal, if there is any for its own lines,
\* and shows what is busy where it is in the tree.
ViewFits == at = "ready" =>
  \A rows \in Rows, header \in {0, 1}, busy \in SUBSET Names(CollectTestNodes) :
    LET nodes == CollectTestNodes
        view == Shown(busy, rows, header, nodes)
    IN /\ rows > header + 4 => Lines(busy, rows, header, nodes) < rows
       /\ ToSet(view) \subseteq ToSet(Tree(nodes))

\* What a run shows of its nodes, as a whole and while it goes on.
TreeShown == TypeOK /\ TreeWhole /\ ViewFits
==============================================================================
