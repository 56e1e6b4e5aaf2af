------------------------------- MODULE GraphRun -------------------------------
(***************************************************************************)
(* What one run of a test graph promises its user, with no tasks, job      *)
(* limit or loop: a test runs only after everything it uses has passed; a  *)
(* test that does not pass takes all its consumers with it, at once and    *)
(* for good; independent tests go on; the exit status is decided by the    *)
(* verdicts.  Module Scheduler implements this specification.              *)
(***************************************************************************)
CONSTANTS
  Keys,  \* the scheduled tests
  Uses   \* Uses[k] is the set of tests k uses directly

VARIABLES
  verdict,  \* the state of every test
  mode      \* the state of the run

gvars == <<verdict, mode>>

Init ==
  /\ verdict = [k \in Keys |-> "WAIT"]
  /\ mode = "going"

Start(k) ==
  /\ mode = "going" /\ verdict[k] = "WAIT"
  /\ \A u \in Uses[k] : verdict[u] = "PASS"
  /\ verdict' = [verdict EXCEPT ![k] = "RUN"]
  /\ UNCHANGED mode

Pass(k) ==
  /\ mode = "going" /\ verdict[k] = "RUN"
  /\ verdict' = [verdict EXCEPT ![k] = "PASS"]
  /\ UNCHANGED mode

\* C is the set of all consumers of k: in a graph without cycles this is the
\* only set that solves the equivalence.
AreConsumers(C, k) == \A c \in Keys : c \in C <=> Uses[c] \cap ({k} \cup C) # {}

NotPass(k) ==
  /\ mode = "going" /\ verdict[k] = "RUN"
  /\ \E v \in {"FAIL", "XFAIL", "XPASS"}, C \in SUBSET Keys :
       /\ AreConsumers(C, k)
       /\ \A c \in C : verdict[c] \in {"WAIT", "CANCEL"}
       /\ verdict' = [c \in Keys |-> IF c = k THEN v
                                     ELSE IF c \in C THEN "CANCEL"
                                     ELSE verdict[c]]
  /\ UNCHANGED mode

\* The first failure of a --fail-fast run: nothing starts after it.
FailFast(k) ==
  /\ mode = "going" /\ verdict[k] = "RUN"
  /\ \E v \in {"FAIL", "XPASS"} : verdict' = [verdict EXCEPT ![k] = v]
  /\ mode' = "stopping"

Stop ==
  /\ mode \in {"going", "stopping"}
  /\ mode' = "aborting"
  /\ UNCHANGED verdict

HasFailure == \E k \in Keys : verdict[k] \in {"FAIL", "XPASS"}

Finish ==
  /\ \/ /\ mode = "going"
        /\ \A k \in Keys : verdict[k] \notin {"WAIT", "RUN"}
        /\ mode' = IF HasFailure THEN "failed" ELSE "succeeded"
     \/ mode = "stopping" /\ mode' = "failed"
     \/ mode = "aborting" /\ mode' = "aborted"
  /\ UNCHANGED verdict

Next ==
  \/ \E k \in Keys : Start(k) \/ Pass(k) \/ NotPass(k) \/ FailFast(k)
  \/ Stop
  \/ Finish

Spec == Init /\ [][Next]_gvars
==============================================================================
