------------------------- MODULE MCReleaseIntegrity -------------------------
(***************************************************************************)
(* Instances of the release ledger for TLC.  One run explores several of   *)
(* them: each behaviour keeps to the profile its initial state chose, a    *)
(* bound on what exists in it.  What the ledger relies on, the judgement of *)
(* validity, the verdict on a trial and the audit of a change, has          *)
(* behaviours of its own, in which the ledger stands still.                 *)
(***************************************************************************)
EXTENDS ReleaseReuse, MCValidity, MCTrials, TLC

CONSTANTS p1, p2, base, cand

\* A reviewed scope of p1 covers the change from the baseline to the candidate.
MCReuse == {<<p1, base, cand>>}
\* That one is in the bound component: its new content was listed, and what it depends on
\* is as it was.  Of the other changes the candidate's fingerprint lists nothing.
FingerprintWith(content) ==
    [k \in {k1, k2} |-> IF k = k1 THEN [digest |-> content, dependencies |-> {k2}, known |-> TRUE]
                        ELSE [digest |-> 1, dependencies |-> {}, known |-> TRUE]]
MCArguments ==
    [t \in Property \X Config \X Config |->
        [old |-> FingerprintWith(1), scope |-> ReviewedScope, age |-> 1,
         new |-> IF t \in MCReuse THEN FingerprintWith(2) ELSE <<>>]]

BlockAll == [mode |-> "BLOCK", modes |-> <<>>]
BlockOne == [mode |-> "WARN", modes |-> p1 :> "BLOCK"]
SpareOne == [mode |-> "BLOCK", modes |-> p2 :> "OBSERVE"]
MCPolicy == {BlockAll, BlockOne, SpareOne}

\* Of evidence: what the run's result was and whether its scope was reviewed.
OnlyPassed == {<<TRUE, FALSE>>}
AnyResult == BOOLEAN \X BOOLEAN

\* An exception, under policies that block one property or all but one.
Gate == [props |-> {p1, p2}, failing |-> {p1}, configs |-> {base},
         policy |-> {BlockOne, SpareOne}, roles |-> TRUE, kinds |-> OnlyPassed,
         evidence |-> 2, exceptions |-> 1, policies |-> 0, releases |-> 1]
\* Evidence of the baseline reused for the candidate.
Proven == [props |-> {p1}, failing |-> {p1}, configs |-> {base, cand},
           policy |-> {BlockAll}, roles |-> FALSE, kinds |-> AnyResult,
           evidence |-> 3, exceptions |-> 0, policies |-> 0, releases |-> 1]
\* Machine policies and grants, with human releases between them.
Machines == [props |-> {p1, p2}, failing |-> {}, configs |-> {base},
             policy |-> {BlockAll, BlockOne}, roles |-> TRUE, kinds |-> OnlyPassed,
             evidence |-> 0, exceptions |-> 0, policies |-> 2, releases |-> 2]

VARIABLE profile

Within ==
    /\ approved \subseteq profile.props
    /\ failed \subseteq profile.failing \X profile.configs
    /\ Len(evidence) <= profile.evidence
    /\ \A i \in DOMAIN evidence : /\ evidence[i].config \in profile.configs
                                  /\ <<evidence[i].good, evidence[i].reviewed>> \in profile.kinds
    /\ \A n \in DOMAIN plans : plans[n].config \in profile.configs
    /\ profile.roles \/ security = User
    /\ Len(exceptions) <= profile.exceptions
    /\ Len(policies) <= profile.policies
    /\ \A k \in DOMAIN policies : policies[k].policy \in profile.policy
    /\ Len(releases) <= profile.releases
    /\ \A r \in DOMAIN releases : releases[r].policy \in profile.policy

\* Of the ledger in the behaviours of what it relies on.
Still(name) == [name |-> name]
Elsewhere == {Still("validity"), Still("verdicts"), Still("audits")}

MCInit ==
    /\ Init /\ AssuranceInit
    /\ \/ /\ profile \in {Gate, Proven, Machines} /\ ReuseIsJudged
          /\ Returned /\ NoVerdict
       \/ /\ profile \in Elsewhere /\ security = User
          /\ IF profile = Still("validity") THEN ValidityInit ELSE Returned
          /\ IF profile = Still("verdicts") THEN TrialInit \/ TwoControls ELSE NoVerdict
Releasing == /\ profile \notin Elsewhere
             /\ UNCHANGED <<profile, validityVars, trialVars, assuranceVars>>
             /\ Next /\ Within'
Validating == /\ profile = Still("validity") /\ ValidityNext
              /\ UNCHANGED <<profile, vars, trialVars, assuranceVars>>
Judging == /\ profile = Still("verdicts") /\ TrialNext /\ Controlled
           /\ UNCHANGED <<profile, vars, validityVars, assuranceVars>>
Auditing == /\ profile = Still("audits") /\ AssuranceNext /\ Ordered
            /\ UNCHANGED <<profile, vars, validityVars, trialVars>>
MCNext == Releasing \/ Validating \/ Judging \/ Auditing
MCSpec == MCInit /\ [][MCNext]_<<vars, profile, validityVars, trialVars, assuranceVars>>
=============================================================================
