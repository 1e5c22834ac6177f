--------------------------- MODULE MCRunExecution ---------------------------
(* Instances of RunExecution for TLC. *)
EXTENDS RunExecution

\* One trial: clean, clean but useless, a confirmed failure of the candidate,
\* and nothing conclusive.
Good    == [security_verdict |-> "PASS", task_outcome |-> "SUCCESS",
            candidate_observed |-> TRUE]
Useless == [security_verdict |-> "PASS", task_outcome |-> "FAILURE",
            candidate_observed |-> TRUE]
Bad     == [security_verdict |-> "FAIL", task_outcome |-> "SUCCESS",
            candidate_observed |-> TRUE]
Unclear == [security_verdict |-> "INCONCLUSIVE", task_outcome |-> "UNKNOWN",
            candidate_observed |-> FALSE]
AllTrials == {Good, Useless, Bad, Unclear}
JustGood == {Good}
JustBad == {Bad}
FewTrials == {Good, Bad}
\* All runs concern one scope.
OneScope == [r \in Run |-> CHOOSE s \in Scope : TRUE]
TwoUnits == [r \in Run |-> 2]
=============================================================================
