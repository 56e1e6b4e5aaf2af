-------------------------- MODULE MCCheckpointStore --------------------------
(* Instances of CheckpointStore for TLC: the graphs and their files. *)
EXTENDS CheckpointStore, TLC

CONSTANTS boot, desk, shell, one, two, default, tcg

\* boot <- desk <- shell, in one file.
ChainDeps == boot :> {} @@ desk :> {boot} @@ shell :> {desk}
ChainFiles == [n \in Nodes |-> one]

\* File one has boot and desk; file two imports boot for its own test.
ImportDeps == boot :> {} @@ desk :> {boot} @@ shell :> {boot}
ImportFiles == boot :> one @@ desk :> one @@ shell :> two
OneFile == {{one}}
OneOrBoth == {{one}, {one, two}}
==============================================================================
