----------------------------- MODULE MCExecutor -----------------------------
(***************************************************************************)
(* Small graphs for Executor.                                              *)
(***************************************************************************)
EXTENDS Executor, TLC

CONSTANTS desktop, server, install, join, both

All(n) == [node |-> n, item |-> 0]

\* A test on a booted desktop; one that takes it with a second machine; and one
\* that takes the first again beside the second, so the desktop by two inputs.
TwoInputs ==
  install :> <<All(desktop)>> @@
  join :> <<All(install), All(server)>> @@
  both :> <<All(install), All(join)>>

\* The graph of tests/test_api.py:142: a pod of two machines, and a consumer that
\* takes one guest of it by each of its parameters.
Projected ==
  install :> <<All(desktop), All(server)>> @@
  join :> <<[node |-> install, item |-> 1], [node |-> install, item |-> 2]>>

Names ==
  [t \in Tests |->
     (install :> "install" @@ join :> "join" @@ both :> "both")[t]]

PodAndConsumer == 1 :> install @@ 2 :> join

\* `join` is imported by a second file.
TwoFiles == 1 :> join @@ 2 :> join @@ 3 :> both
=============================================================================
