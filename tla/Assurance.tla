------------------------------ MODULE Assurance ------------------------------
(***************************************************************************)
(* What existing evidence is worth to a candidate: the impact of a declared *)
(* change on the approved properties (core/impact.py), baselines out of     *)
(* verified fixes and the comparison with them (core/regression.py), and    *)
(* the selection audits and canaries that read all of it (assurance.py).    *)
(*                                                                         *)
(* Nothing an audit reads is locked: properties are approved, runs fail,    *)
(* settle and grow old, and the target is revoked around it.  Creating an   *)
(* audit or a canary stores what it answered, which nothing reads; showing  *)
(* one assesses it anew.  Both are therefore functions of the state, here   *)
(* Audit and Canary, whoever asks and whatever runs are offered.            *)
(***************************************************************************)
EXTENDS Integers, Sequences

CONSTANTS
    Claim,      \* property records of one system
    Given,         \* those approved in the beginning
    Definition,    \* of each: its tags, dependencies and whether its policy is BLOCK
    Change,        \* pairs of fingerprints an impact is asked about; 0: not identified
    Artifact,      \* what a run may turn out to execute, and as what it was declared
    Requested,     \* the exact candidate of the audits: its digest and its label
    MaxAge,        \* MAX_EVIDENCE_AGE_HOURS
    MaxRuns, MaxBaselines, MaxHour  \* bounds

ASSUME AgeAssumption == MaxAge \in Int

VARIABLES
    approvals,   \* of each property: when its approval was stamped and whether it committed
    impact,      \* the impact record
    trials,      \* runs in the order of their creation
    baselines,   \* for each baseline, its verification run
    permitted,  \* the target is authorized and the observer active
    hour

assuranceVars == <<approvals, impact, trials, baselines, permitted, hour>>

NoImpact == [at |-> -1, change |-> [before |-> <<>>, after |-> <<>>],
             selected |-> {}, excluded |-> {}]

AssuranceInit ==
    /\ approvals = [p \in Claim |-> [at |-> IF p \in Given THEN 0 ELSE -1,
                                       committed |-> p \in Given]]
    /\ impact = NoImpact
    /\ trials = <<>> /\ baselines = <<>>
    /\ permitted = TRUE /\ hour = 0

-----------------------------------------------------------------------------
(* Approval and impact                                                      *)

Approved == {p \in Claim : approvals[p].committed}
Pending == {p \in Claim : approvals[p].at >= 0 /\ ~approvals[p].committed}
\* The system's advisory lock; impacts, new runs, audits and canaries do not take it.
SystemFree == Pending = {}

\* The record's created_at is set when it is written, before others can read it.
WriteApproval(p) ==
    /\ SystemFree /\ approvals[p].at < 0
    /\ approvals' = [approvals EXCEPT ![p].at = hour]
    /\ UNCHANGED <<impact, trials, baselines, permitted, hour>>
EndApproval(p, committed) ==
    /\ p \in Pending
    /\ approvals' = [approvals EXCEPT ![p] = [at |-> IF committed THEN @.at ELSE -1,
                                              committed |-> committed]]
    /\ UNCHANGED <<impact, trials, baselines, permitted, hour>>

\* RULES
Everything == {"model", "application"}
Tags ==
    [prompt |-> {"instructions", "untrusted_content", "tools", "data_boundary"},
     tool |-> {"tools", "authorization"},
     mcp |-> {"mcp", "tools", "authorization"},
     permissions |-> {"authorization", "tenant", "approval", "payments"},
     rag |-> {"retrieval", "untrusted_content", "data_boundary"},
     memory |-> {"memory", "persistence", "delegation", "untrusted_content"}]

ChangedComponents(c) ==
    {k \in DOMAIN c.before \cup DOMAIN c.after :
        ~(k \in DOMAIN c.before \cap DOMAIN c.after /\ c.before[k] = c.after[k])}
Unidentified(c) ==
    \/ \E f \in {c.before, c.after} : DOMAIN f = {} \/ \E k \in DOMAIN f : f[k] = 0
    \/ ~(ChangedComponents(c) \subseteq Everything \cup DOMAIN Tags)
Affects(k, definition) ==
    \/ k \in Everything \cup definition.dependencies
    \/ k \in DOMAIN Tags /\ definition.tags \cap Tags[k] # {}
\* An unknown broadens the selection to everything.
AffectedBy(c, p) ==
    \/ Unidentified(c)
    \/ ChangedComponents(c) # {} /\ Definition[p].dependencies = {}
    \/ \E k \in ChangedComponents(c) : Affects(k, Definition[p])

RecordImpact(c) ==
    /\ impact = NoImpact
    /\ LET selected == {p \in Approved : AffectedBy(c, p)} IN
       impact' = [at |-> hour, change |-> c, selected |-> selected,
                  excluded |-> Approved \ selected]
    /\ UNCHANGED <<approvals, trials, baselines, permitted, hour>>

-----------------------------------------------------------------------------
(* Evidence                                                                 *)

\* exact_observed_candidate, of a run that does not qualify an observer.
Qualified(r) ==
    /\ "application" \in DOMAIN trials[r].fingerprint
    /\ trials[r].fingerprint["application"] = trials[r].digest
    /\ "application" \notin trials[r].declared
    /\ ~trials[r].qualifying

\* adverse_memory: by digest and configuration, never by label or provenance, and from
\* captures, whether or not their run has settled.
SameArtifact(r, q) ==
    /\ trials[q].property = trials[r].property /\ trials[q].digest = trials[r].digest
    /\ trials[q].fingerprint = trials[r].fingerprint
    /\ Qualified(r) /\ Qualified(q)
\* A variant that differs from the code: only runs that have settled are searched.
AdverseSettled(r) ==
    {q \in DOMAIN trials \ {r} :
        trials[q].failed /\ trials[q].status # "RUNNING" /\ SameArtifact(r, q)}
Adverse(r) == {q \in DOMAIN trials \ {r} : trials[q].failed /\ SameArtifact(r, q)}

\* run_view: what a settled run is worth now.
Eligible(r) == trials[r].eligible /\ permitted /\ Adverse(r) = {}
Allowed(r) == trials[r].allowed /\ permitted /\ Adverse(r) = {}
Verdict(r) ==
    IF trials[r].status = "RUNNING" THEN IF trials[r].failed THEN "FAIL" ELSE "NONE"
    ELSE IF trials[r].failed THEN "FAIL"
    ELSE IF trials[r].status = "COMPLETED" THEN "PASS" ELSE "INCONCLUSIVE"

\* comparison_signature: the experiment is compared with a baseline, not in a fix.
SameStimuli(r, q) ==
    trials[r].property = trials[q].property /\ trials[r].stimuli = trials[q].stimuli
\* compare_runs: an eligible baseline passed a qualified and useful run.  A candidate
\* that passed has no failures, so only FAIL can be a regression.
ComparableTo(b, r) ==
    /\ Eligible(baselines[b])
    /\ SameStimuli(baselines[b], r)
    /\ trials[baselines[b]].experiment = trials[r].experiment

CreateRun(p, x, b) ==
    /\ Len(trials) < MaxRuns
    /\ p \in Approved /\ permitted
    /\ b > 0 => trials[baselines[b]].property = p
    /\ trials' = Append(trials,
           [property |-> p, at |-> hour, base |-> b, status |-> "RUNNING",
            failed |-> FALSE, eligible |-> FALSE, allowed |-> FALSE,
            digest |-> x.digest, label |-> x.label, fingerprint |-> x.fingerprint,
            declared |-> x.declared, qualifying |-> x.qualifying,
            stimuli |-> x.stimuli, experiment |-> x.experiment])
    /\ UNCHANGED <<approvals, impact, baselines, permitted, hour>>

TrialFails(r) ==
    /\ SystemFree /\ permitted
    /\ trials[r].status = "RUNNING" /\ ~trials[r].failed
    /\ trials' = [trials EXCEPT ![r].failed = TRUE]
    /\ UNCHANGED <<approvals, impact, baselines, permitted, hour>>

\* finish_run: a captured failure stays the verdict; history is read before it is stored.
Settle(r, status, useful) ==
    /\ SystemFree
    /\ trials[r].status = "RUNNING"
    /\ LET eligible == /\ status = "COMPLETED" /\ ~trials[r].failed /\ useful
                       /\ permitted /\ Qualified(r) /\ Adverse(r) = {}
           b == trials[r].base IN
       trials' = [trials EXCEPT
           ![r].status = status, ![r].eligible = eligible,
           ![r].allowed = IF b = 0 THEN eligible ELSE eligible /\ ComparableTo(b, r)]
    /\ UNCHANGED <<approvals, impact, baselines, permitted, hour>>

\* verify_fix: the refused fix is recorded too, and read by nothing here.
VerifyFix(failed, verified) ==
    /\ SystemFree /\ Len(baselines) < MaxBaselines
    /\ Verdict(failed) = "FAIL" /\ trials[failed].status # "RUNNING"
    /\ SameStimuli(failed, verified)
    /\ Eligible(verified)
    /\ baselines' = Append(baselines, verified)
    /\ UNCHANGED <<approvals, impact, trials, permitted, hour>>

Revoke == /\ SystemFree /\ permitted
          /\ permitted' = FALSE
          /\ UNCHANGED <<approvals, impact, trials, baselines, hour>>
Pass == /\ hour < MaxHour
        /\ hour' = hour + 1
        /\ UNCHANGED <<approvals, impact, trials, baselines, permitted>>

AssuranceNext ==
    \/ \E p \in Claim : WriteApproval(p) \/ \E c \in BOOLEAN : EndApproval(p, c)
    \/ \E c \in Change : RecordImpact(c)
    \/ \E p \in Claim, x \in Artifact, b \in 0..Len(baselines) : CreateRun(p, x, b)
    \/ \E r \in DOMAIN trials :
        \/ TrialFails(r)
        \/ \E s \in {"COMPLETED", "ERROR"}, useful \in BOOLEAN : Settle(r, s, useful)
        \/ \E q \in DOMAIN trials : VerifyFix(r, q)
    \/ Revoke \/ Pass

AssuranceSpec == AssuranceInit /\ [][AssuranceNext]_assuranceVars

-----------------------------------------------------------------------------
(* Audits and canaries                                                      *)

Recent(r) == permitted /\ hour - trials[r].at <= MaxAge
Exact(r) == trials[r].digest = Requested.digest /\ trials[r].label = Requested.label
Complete(r) ==
    trials[r].status = "COMPLETED" /\ Qualified(r)
\* Only a settled run has a result whose history is read.
Remembered(r) == IF trials[r].status = "RUNNING" THEN {} ELSE Adverse(r)
KnownFailure(r) == Verdict(r) = "FAIL" \/ Remembered(r) # {}
OfExpected(r) ==
    /\ trials[r].fingerprint = impact.change.after
    /\ DOMAIN trials[r].fingerprint # {} /\ trials[r].declared = {}

AuditClass(r) ==
    IF ~Recent(r) THEN "STALE"
    ELSE IF ~Exact(r) \/ ~OfExpected(r) THEN "INCOMPATIBLE"
    ELSE IF ~Complete(r) THEN "UNKNOWN"
    ELSE IF KnownFailure(r) THEN "FAILED"
    ELSE IF Eligible(r) /\ Allowed(r) THEN "PRESERVED" ELSE "UNKNOWN"

CanaryClass(b, r) ==
    IF ~Recent(r) THEN "STALE"
    ELSE IF ~Exact(r) \/ trials[r].status = "RUNNING" \/ ~ComparableTo(b, r) THEN "INCOMPATIBLE"
    ELSE IF ~Complete(r) \/ Remembered(r) # {} THEN "UNKNOWN"
    ELSE IF Verdict(r) = "FAIL" THEN "REGRESSED"
    ELSE IF Eligible(r) /\ Allowed(r) THEN "PRESERVED" ELSE "UNKNOWN"

\* _action; a property without a run is UNKNOWN.
Answer(p, class, known) ==
    IF known \/ class = "REGRESSED" THEN "BLOCK"
    ELSE IF class = "PRESERVED" THEN "ALLOW"
    ELSE IF Definition[p].blocks THEN "BLOCK" ELSE "WARN"
\* _summary
Summary(answers) ==
    IF "BLOCK" \in answers THEN "BLOCK" ELSE IF answers = {"ALLOW"} THEN "ALLOW" ELSE "WARN"

\* historical is what the scope had to be when the impact was recorded.
Considered == impact.selected \cup impact.excluded
ScopeHolds ==
    LET historical == {p \in Approved : approvals[p].at <= impact.at} IN
    historical = Considered /\ Approved \ historical = {}

\* assess_selection, of one run at most for each property in scope.
Audit(run) ==
    IF ~ScopeHolds THEN "BLOCK"
    ELSE Summary({IF p \in DOMAIN run
                  THEN Answer(p, AuditClass(run[p]), KnownFailure(run[p]))
                  ELSE Answer(p, "UNKNOWN", FALSE) : p \in Considered})
\* assess_canary, of pairs of a baseline with a run of its property, or 0.
Canary(pair) ==
    Summary({LET p == trials[baselines[b]].property IN
             IF pair[b] > 0 THEN Answer(p, CanaryClass(b, pair[b]), KnownFailure(pair[b]))
             ELSE Answer(p, "UNKNOWN", FALSE) : b \in DOMAIN pair})

Offers(p) == {r \in DOMAIN trials : trials[r].property = p}
Audits ==
    UNION {{run \in [P -> DOMAIN trials] : \A p \in P : run[p] \in Offers(p)} :
              P \in SUBSET Considered}
Canaries ==
    UNION {{pair \in [B -> {0} \cup DOMAIN trials] :
               /\ \A b \in B : pair[b] \in {0} \cup Offers(trials[baselines[b]].property)
               /\ \A a, b \in B : trials[baselines[a]].property = trials[baselines[b]].property
                                  => a = b} :
              B \in SUBSET DOMAIN baselines \ {{}}}

-----------------------------------------------------------------------------
(* Properties                                                               *)

\* No run of what r executed, under whatever label, ever captured a failure.
Clean(r) ==
    \A q \in DOMAIN trials :
        (q = r \/ SameArtifact(r, q)) => ~trials[q].failed
Sound(r) ==
    /\ trials[r].status = "COMPLETED" /\ Clean(r)
    /\ trials[r].fingerprint["application"] = Requested.digest
    /\ permitted /\ hour <= trials[r].at + MaxAge

\* An audit of a candidate allows only what is still true of all approved properties:
\* each has a recent, complete run of exactly this configuration, and no run of it, even
\* one that goes on, captured a failure; a retry that passed, a property approved around
\* the impact and an old record cannot make it ALLOW.  A canary promises the same of its
\* properties, against a baseline that is itself not known to fail.
AuditAllowIsSound ==
    /\ impact # NoImpact =>
        \A run \in Audits : Considered # {} /\ Audit(run) = "ALLOW" =>
            /\ Approved = DOMAIN run
            /\ \A p \in DOMAIN run : /\ Sound(run[p])
                                     /\ trials[run[p]].fingerprint = impact.change.after
    /\ \A pair \in Canaries : Canary(pair) = "ALLOW" =>
        \A b \in DOMAIN pair : /\ pair[b] > 0
                               /\ Sound(pair[b])
                               /\ Clean(baselines[b])

-----------------------------------------------------------------------------
(* The inductive invariant behind the proof                                 *)

Enumerated(s) == Len(s) \in Nat /\ s = [i \in 1..Len(s) |-> s[i]]

\* A baseline is a run, and an eligible run has settled without a captured failure: it
\* can not fail any more, and what is held against it afterwards comes from other runs.
AuditInv ==
    /\ hour \in Nat
    /\ Enumerated(trials) /\ Enumerated(baselines)
    /\ \A b \in DOMAIN baselines : baselines[b] \in DOMAIN trials
    /\ \A r \in DOMAIN trials :
         /\ {"at", "status", "failed", "eligible", "allowed"} \subseteq DOMAIN trials[r]
         /\ trials[r].at \in Nat
         /\ trials[r].eligible => trials[r].status # "RUNNING" /\ ~trials[r].failed
=============================================================================
