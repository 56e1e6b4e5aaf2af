----------------------------- MODULE MCScheduler -----------------------------
(* Instances of Scheduler for TLC: the graphs, their targets and the order *)
(* in which add_closure inserts their keys.                                *)
EXTENDS Scheduler, TLC

CONSTANTS boot, left, right, join, side, f1, f2

\* A shared setup, two consumers, and a test that uses both.
DiamondDeps ==
  boot :> {} @@ left :> {boot} @@ right :> {boot} @@ join :> {left, right}
DiamondPosition ==
  <<f1, boot>> :> 1 @@ <<f1, left>> :> 2 @@ <<f1, right>> :> 3 @@ <<f1, join>> :> 4

\* The diamond in one file; a second file imports its setup for a test.
MixedDeps == DiamondDeps @@ side :> {boot}
MixedTargets == {<<f1, n>> : n \in {left, right, join}} \cup {<<f2, side>>}
MixedPosition == DiamondPosition @@ <<f2, boot>> :> 5 @@ <<f2, side>> :> 6
==============================================================================
