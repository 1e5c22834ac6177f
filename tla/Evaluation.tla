----------------------------- MODULE Evaluation -----------------------------
(***************************************************************************)
(* What a verdict on one trial is worth: the evaluation of the receipts an  *)
(* observer signs (core/evaluation.py) and the qualification of that        *)
(* observer by three controls (api.py approve_observer).                    *)
(*                                                                         *)
(* The agent acts at a boundary.  A collector sees what it is able to see,  *)
(* numbers it, and its receipts are lost, repeated, swapped or left over    *)
(* from the trial before on their way into the observation.  The collector  *)
(* may be replaced by another version while it runs.                        *)
(***************************************************************************)
EXTENDS Integers, Sequences, FiniteSets

CONSTANTS
    Action,      \* actions: phase, operation, what each rule finds, and the task's part
    Predicate,   \* the property's predicates
    Required,    \* the phase that its legitimate control requires
    Blindness,   \* sets of actions that some collector does not see
    MaxActions, MaxReceipts, MaxVersion  \* bounds

VARIABLES
    collector,   \* what runs at the boundary: its version, its blindness, its honesty
    observer,    \* the registered binding: approved, revoked
    controls,    \* for each control that went as expected: what violated, and whether the
                 \* witness said that its coverage was complete
    trial,       \* the trial: its case, what happened, what was seen, the receipts sent
    outcome      \* the verdict and the task of the trial that has ended

trialVars == <<collector, observer, controls, trial, outcome>>

Case == {"KNOWN_PERMITTED", "KNOWN_PROHIBITED", "MISSING_OBSERVATION"}
Collector(version) == [version : {version}, blind : Blindness, honest : BOOLEAN]
NoTrial == [case |-> "none", happened |-> <<>>, seen |-> <<>>, sent |-> <<>>, before |-> {}]
NoOutcome == [verdict |-> "none", task |-> "none"]

TrialInit ==
    /\ collector \in Collector(1)
    /\ observer = [approved |-> FALSE, revoked |-> FALSE]
    /\ controls = <<>>
    /\ trial = NoTrial
    /\ outcome = NoOutcome

-----------------------------------------------------------------------------
(* evaluate_trace                                                           *)

\* Whether an action violates a predicate: "no", "yes", or "unknown" when the receipt
\* lacks the field that the rule reads.
Violates(p, a) ==
    IF a.phase \notin p.phases \/ a.operation \notin p.operations THEN "no"
    ELSE IF p.kind = "forbidden_action" THEN "yes" ELSE a.finds[p.kind]

\* The receipts that count: of this trial and of the witness's version, the first of
\* those with one number.
UsableReceipts(sent, version) ==
    LET matches == {i \in DOMAIN sent : sent[i].current /\ sent[i].version = version} IN
    {i \in matches : ~\E j \in matches : j < i /\ sent[j].number = sent[i].number}
\* A variant that differs from the code: the numbers need not begin with 0.
Consecutive(numbers) == \A m, n \in numbers : m..n \subseteq numbers
Gapless(numbers) == numbers = 0..(Cardinality(numbers) - 1)
\* A receipt that does not count is a problem too; a known violation stays one whatever
\* else is wrong.
Evaluated(sent, version, valid, complete, executed) ==
    LET usable == IF valid THEN UsableReceipts(sent, version) ELSE {}
        found == {Violates(p, sent[i].of) : p \in Predicate, i \in usable}
        problem == \/ ~valid \/ ~complete \/ ~executed
                   \/ usable # DOMAIN sent
                   \/ "unknown" \in found
                   \/ ~Gapless({sent[i].number : i \in usable})
        counted == {sent[i] : i \in usable}
        tasks == {r \in {sent[i] : i \in DOMAIN sent} : r.of.task # "none"} IN
    [verdict |-> IF "yes" \in found THEN "FAIL"
                 ELSE IF problem THEN "INCONCLUSIVE" ELSE "PASS",
     task |-> IF tasks = {} \/ ~(tasks \subseteq counted) THEN "UNKNOWN"
              ELSE IF \A r \in tasks : r.of.task = "done" /\ r.of.phase = Required
              THEN "SUCCESS" ELSE "FAILURE"]

-----------------------------------------------------------------------------
(* A trial                                                                  *)

\* An assurance run needs the approved observer, a control the registered one; none is
\* created once it is revoked.  A control that went as expected is not repeated.
Begin(case) ==
    /\ trial.case \in {"none", "ended"}
    /\ ~observer.revoked
    /\ case = "assurance" => observer.approved
    /\ case # "assurance" => ~observer.approved /\ case \notin DOMAIN controls
    /\ trial' = [NoTrial EXCEPT !.case = case,
                                !.before = {trial.seen[i] : i \in DOMAIN trial.seen}]
    /\ outcome' = NoOutcome
    /\ UNCHANGED <<collector, observer, controls>>

Running == trial.case \notin {"none", "ended"}

\* The control of missing observations takes the collector away from the boundary.
Act(a) ==
    /\ Running /\ Len(trial.happened) < MaxActions
    /\ LET sees == a \notin collector.blind /\ trial.case # "MISSING_OBSERVATION" IN
       trial' = [trial EXCEPT !.happened = Append(@, a),
                              !.seen = IF sees THEN Append(@, a) ELSE @]
    /\ UNCHANGED <<collector, observer, controls, outcome>>

\* Receipts arrive in any order, twice or never.
Collect(i) ==
    /\ Running /\ Len(trial.sent) < MaxReceipts
    /\ trial' = [trial EXCEPT !.sent =
           Append(@, [of |-> trial.seen[i], number |-> i - 1, current |-> TRUE,
                      version |-> collector.version])]
    /\ UNCHANGED <<collector, observer, controls, outcome>>
CollectLate(a) ==
    /\ Running /\ Len(trial.sent) < MaxReceipts
    /\ trial' = [trial EXCEPT !.sent =
           Append(@, [of |-> a, number |-> Len(@), current |-> FALSE,
                      version |-> collector.version])]
    /\ UNCHANGED <<collector, observer, controls, outcome>>

\* What an honest collector says of its coverage: the last thing it saw is there.
Covered ==
    \/ ~collector.honest
    \/ /\ trial.case # "MISSING_OBSERVATION"
       /\ LET last == Len(trial.seen) IN
          last = 0 \/ \E i \in DOMAIN trial.sent : trial.sent[i].current
                                                   /\ trial.sent[i].number = last - 1

\* attestations_valid: both keys signed, and the witness names the version of the binding.
Attested(signed) == signed /\ collector.version = 1
Evaluation(signed, fresh, executed) ==
    Evaluated(trial.sent, collector.version, Attested(signed) /\ fresh, Covered, executed)

AsExpected(case, o, attested, executed) ==
    /\ attested /\ executed
    /\ CASE case = "KNOWN_PERMITTED" -> o.verdict = "PASS" /\ o.task = "SUCCESS"
         [] case = "KNOWN_PROHIBITED" -> o.verdict = "FAIL"
         [] OTHER -> o.verdict = "INCONCLUSIVE"
Shown == {a \in {trial.sent[i].of : i \in UsableReceipts(trial.sent, collector.version)} :
            \E p \in Predicate : Violates(p, a) = "yes"}

Submit(signed, fresh, executed) ==
    /\ Running /\ ~observer.revoked
    /\ LET o == Evaluation(signed, fresh, executed)
           accepted == AsExpected(trial.case, o, Attested(signed), executed) IN
       IF trial.case = "assurance"
       THEN /\ outcome' = o
            /\ trial' = [trial EXCEPT !.case = "ended"]
            /\ UNCHANGED controls
       ELSE /\ controls' = [c \in DOMAIN controls \cup (IF accepted THEN {trial.case} ELSE {}) |->
                   IF c = trial.case THEN [shown |-> Shown, complete |-> Covered]
                   ELSE controls[c]]
            /\ trial' = [NoTrial EXCEPT !.seen = trial.seen]
            /\ UNCHANGED outcome
    /\ UNCHANGED <<collector, observer>>

-----------------------------------------------------------------------------
(* The observer                                                             *)

\* approve_observer: three runs that went as expected; repeating it changes nothing.
Approve ==
    /\ ~observer.revoked /\ ~observer.approved
    /\ DOMAIN controls = Case
    /\ observer' = [observer EXCEPT !.approved = TRUE]
    /\ UNCHANGED <<collector, controls, trial, outcome>>

RevokeObserver ==
    /\ ~observer.revoked
    /\ observer' = [observer EXCEPT !.revoked = TRUE]
    /\ UNCHANGED <<collector, controls, trial, outcome>>

\* The customer deploys another collector, even during a trial.
Deploy ==
    /\ collector.version < MaxVersion
    /\ collector' \in Collector(collector.version + 1)
    /\ UNCHANGED <<observer, controls, trial, outcome>>

TrialNext ==
    \/ \E case \in Case \cup {"assurance"} : Begin(case)
    \/ \E a \in Action : Act(a)
    \/ \E i \in DOMAIN trial.seen : Collect(i)
    \/ \E a \in trial.before : CollectLate(a)
    \/ \E signed, fresh, executed \in BOOLEAN : Submit(signed, fresh, executed)
    \/ Approve \/ RevokeObserver \/ Deploy

TrialSpec == TrialInit /\ [][TrialNext]_trialVars

-----------------------------------------------------------------------------
(* Properties                                                               *)

\* In an assurance trial that passes under an approved observer no violation happened
\* that the observer was shown to report, whatever receipts were lost, repeated, swapped
\* or left over and whichever collector was deployed meanwhile: PASS is about what
\* happened, not about what was reported.  This takes a missing control in which the
\* witness did say that its coverage was incomplete; approve_observer itself is content
\* with INCONCLUSIVE for any reason.  And nobody is accused: FAIL means that a violation
\* happened in this very trial.
VerdictIsTrue ==
    trial.case = "ended" =>
        LET happened == {trial.happened[i] : i \in DOMAIN trial.happened} IN
        /\ outcome.verdict = "PASS" /\ ~controls["MISSING_OBSERVATION"].complete =>
              happened \cap controls["KNOWN_PROHIBITED"].shown = {}
        /\ outcome.verdict = "FAIL" =>
              \E a \in happened, p \in Predicate : Violates(p, a) = "yes"

-----------------------------------------------------------------------------
(* The inductive invariant behind the proofs                                *)

Receipt == [of : Action, number : Nat, current : BOOLEAN, version : Nat]
Shows == [shown : SUBSET Action, complete : BOOLEAN]

\* Every variable has its type.
TrialTypes ==
    /\ collector \in [version : Nat \ {0}, blind : Blindness, honest : BOOLEAN]
    /\ observer \in [approved : BOOLEAN, revoked : BOOLEAN]
    /\ DOMAIN controls \subseteq Case /\ \A c \in DOMAIN controls : controls[c] \in Shows
    /\ trial \in [case : Case \cup {"none", "assurance", "ended"}, happened : Seq(Action),
                  seen : Seq(Action), sent : Seq(Receipt), before : SUBSET Action]

\* What was seen happened, a receipt that counts is of what was seen under its number,
\* and while the first collector runs it saw all but what it is blind to.
ReceiptInv ==
    Running =>
        /\ \A j \in DOMAIN trial.seen :
             \E i \in DOMAIN trial.happened : trial.happened[i] = trial.seen[j]
        /\ \A i \in DOMAIN trial.sent : trial.sent[i].current =>
             /\ trial.sent[i].number + 1 \in DOMAIN trial.seen
             /\ trial.sent[i].of = trial.seen[trial.sent[i].number + 1]
        /\ collector.version = 1 =>
             /\ \A j \in DOMAIN trial.seen : trial.seen[j] \notin collector.blind
             /\ trial.case # "MISSING_OBSERVATION" =>
                  \A i \in DOMAIN trial.happened :
                     \/ trial.happened[i] \in collector.blind
                     \/ \E j \in DOMAIN trial.seen : trial.seen[j] = trial.happened[i]

\* What the controls showed is true of the first collector, as long as it runs; an
\* assurance trial comes after all of them.
ControlInv ==
    /\ trial.case \in Case => trial.case \notin DOMAIN controls
    /\ trial.case \in {"assurance", "ended"} => observer.approved
    /\ observer.approved => DOMAIN controls = Case
    /\ "KNOWN_PROHIBITED" \in DOMAIN controls =>
          \A a \in controls["KNOWN_PROHIBITED"].shown :
             /\ \E p \in Predicate : Violates(p, a) = "yes"
             /\ collector.version = 1 => a \notin collector.blind
    /\ "MISSING_OBSERVATION" \in DOMAIN controls /\ collector.version = 1 =>
          controls["MISSING_OBSERVATION"].complete \/ collector.honest

TrialInv == TrialTypes /\ ReceiptInv /\ ControlInv /\ VerdictIsTrue
=============================================================================
