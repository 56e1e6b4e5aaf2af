------------------------------- MODULE Progress -------------------------------
(***************************************************************************)
(* The state machine of one node's label in the progress tree.  It is a    *)
(* pure function of the label and the event; ProgressReporter.emit and     *)
(* Dashboard.emit both apply it, to their own copies of the labels, in the *)
(* order emit_progress delivers the events.  Durations, details and the    *)
(* rendering are left out.                                                 *)
(***************************************************************************)

Labels ==
  {"WAIT", "RUN", "CACHE", "PASS", "FAIL", "XFAIL", "XPASS", "CANCEL"}

EventKinds ==
  {"started", "checkpoint_saved", "checkpoint_restored", "passed", "failed",
   "xfail", "xpass", "cancelled"}

\* Mutant of NextLabel: a cancellation hides a verdict already shown.
NextLabelCancelWins(label, kind) ==
  CASE kind = "started" -> "RUN"
    [] kind \in {"checkpoint_saved", "passed"} -> "PASS"
    [] kind = "failed" -> "FAIL"
    [] kind = "xfail" -> "XFAIL"
    [] kind = "xpass" -> "XPASS"
    [] kind = "checkpoint_restored" -> IF label = "WAIT" THEN "CACHE" ELSE label
    [] kind = "cancelled" -> "CANCEL"

\* The label after an event of this kind.
NextLabel(label, kind) ==
  CASE kind = "started" -> "RUN"
    [] kind \in {"checkpoint_saved", "passed"} -> "PASS"
    [] kind = "failed" -> "FAIL"
    [] kind = "xfail" -> "XFAIL"
    [] kind = "xpass" -> "XPASS"
    [] kind = "checkpoint_restored" -> IF label = "WAIT" THEN "CACHE" ELSE label
    [] kind = "cancelled" ->
         IF label \in {"PASS", "FAIL", "XFAIL", "XPASS"} THEN label ELSE "CANCEL"

\* All labels after one event of this kind for each of the given nodes.
Emit(labels, kind, nodes) ==
  [n \in DOMAIN labels |->
     IF n \in nodes THEN NextLabel(labels[n], kind) ELSE labels[n]]
==============================================================================
