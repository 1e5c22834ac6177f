------------------------------ MODULE MCTrials ------------------------------
(***************************************************************************)
(* Instances for TLC of what the verdict on a trial is worth (Evaluation)  *)
(* and of what audits make of the runs (Assurance); each is part of a      *)
(* behaviour in which the rest stands still.                               *)
(***************************************************************************)
EXTENDS Evaluation, Assurance

-----------------------------------------------------------------------------
(* Evaluation: an action that violates a rule, one that violates another,   *)
(* the legitimate task, and one whose receipt lacks the field of the rule.  *)

Did(operation, breaks, task) ==
    [phase |-> "COMMITTED", operation |-> operation, task |-> task,
     finds |-> [missing_approval |-> breaks]]
Unapproved == Did("pay", "yes", "none")
MCAction == {Unapproved, Did("export", "no", "none"), Did("pay", "no", "done"),
             Did("pay", "unknown", "none")}
MCPredicate ==
    {[kind |-> "missing_approval", phases |-> {"COMMITTED"}, operations |-> {"pay"}],
     [kind |-> "forbidden_action", phases |-> {"COMMITTED"}, operations |-> {"export"}]}
MCBlindness == {{}, {Unapproved}}
NoVerdict == /\ TrialInit
             /\ collector = [version |-> 1, blind |-> {}, honest |-> TRUE]

\* A behaviour begins with the registration of an observer, or after two controls.
TwoControls ==
    /\ collector \in Collector(1)
    /\ observer = [approved |-> FALSE, revoked |-> FALSE]
    /\ controls = [c \in {"KNOWN_PERMITTED", "MISSING_OBSERVATION"} |->
                     [shown |-> {}, complete |-> c = "KNOWN_PERMITTED" \/ ~collector.honest]]
    /\ trial = NoTrial /\ outcome = NoOutcome

\* The controls in one order, the prohibited one last; one assurance trial, before which
\* the observer is revoked or another collector deployed only once it is approved.
Control == <<"KNOWN_PERMITTED", "MISSING_OBSERVATION", "KNOWN_PROHIBITED", "assurance">>
Performed == CHOOSE n \in 0..3 : DOMAIN controls = {Control[i] : i \in 1..n}
Controlled ==
    /\ trial.case # "ended"
    /\ trial'.case \in {"none", "ended", trial.case, Control[Performed + 1]}
    /\ collector' # collector => observer.approved
    /\ observer'.revoked => ~Running

-----------------------------------------------------------------------------
(* Assurance: a property that was approved and one that is approved         *)
(* meanwhile, a change of the tool, and runs of the candidate, of a retry   *)
(* under another label, of a drifted or half observed configuration and of  *)
(* an observer's qualification.                                             *)

Deployed(x, y) == [application |-> x, tool |-> y]
Ran(label, fingerprint, declared, qualifying, stimuli, experiment) ==
    [digest |-> 1, label |-> label, fingerprint |-> fingerprint, declared |-> declared,
     qualifying |-> qualifying, stimuli |-> stimuli, experiment |-> experiment]
MCDefinition == <<[tags |-> {"tools"}, dependencies |-> {"tool"}, blocks |-> FALSE],
                  [tags |-> {}, dependencies |-> {"rag"}, blocks |-> TRUE]>>
MCChange == {[before |-> Deployed(1, x), after |-> Deployed(1, 2)] : x \in {0, 1}}
MCArtifact == {Ran("main", Deployed(1, 2), {}, FALSE, 1, 1),
               Ran("retry", Deployed(1, 2), {}, FALSE, 1, 2),
               Ran("case", Deployed(1, 2), {}, TRUE, 1, 1),
               Ran("main", Deployed(1, 1), {}, FALSE, 1, 1),
               Ran("main", Deployed(2, 2), {}, FALSE, 1, 1),
               Ran("main", Deployed(1, 2), {"tool"}, FALSE, 2, 1)}
MCRequested == [digest |-> 1, label |-> "main"]

\* Runs are created in the order of what they are, retries first and those of the second
\* property last; the hour passes after a run of the candidate.  No answer compares the
\* times of two runs, or of a run and the impact.
Kind(t) ==
    IF t.property = 2 THEN 3 ELSE IF t.label # "main" THEN 0
    ELSE IF t.fingerprint # Deployed(1, 2) \/ t.declared # {} THEN 1 ELSE 2
Ordered ==
    /\ \A i \in DOMAIN trials' \ DOMAIN trials : LET n == trials'[i] IN
        /\ \A j \in DOMAIN trials :
            Kind(trials[j]) < Kind(n) \/ (Kind(n) = 2 /\ Kind(trials[j]) = 2)
        /\ n.property = 2 => Kind([n EXCEPT !.property = 1]) = 2
    /\ impact' # impact => trials = <<>>
    /\ 0 \in {impact'.change.before[k] : k \in DOMAIN impact'.change.before} => trials' = <<>>
    /\ hour' # hour => trials # <<>> /\ Kind(trials[Len(trials)]) >= 2
    /\ ~permitted' => Len(trials) = 3
=============================================================================
