-------------------------- MODULE ReleaseIntegrity --------------------------
(***************************************************************************)
(* The release ledger of one system: evidence, reviewed proof scopes,      *)
(* proof plans, exceptions, signed releases and their current reading      *)
(* (release_integrity.py), and the machine issuer with its policies and    *)
(* one-use grants (release_machine.py).                                    *)
(*                                                                         *)
(* Every transaction that writes here holds the advisory lock of the       *)
(* system (lock_system; finish_run, approve_property, revoke_target and    *)
(* member_role take it too), so a handler is one action.  Two do not take  *)
(* it: request_exception, which only appends, and approvals check again    *)
(* under the lock what they need.                                          *)
(*                                                                         *)
(* One target and observer.  A configuration stands for a candidate with   *)
(* its complete fingerprint.  Records are numbered in the order in which   *)
(* they are created; 0 stands for no record.                               *)
(***************************************************************************)
EXTENDS Integers, Sequences, FiniteSetsExt

CONSTANTS
    Property,
    Config,        \* candidates, each with its complete fingerprint
    Unbound,       \* those whose candidate is not a component of the fingerprint
    Reuse,         \* <<p, old, new>>: a reviewed scope of p covers the change
    User,
    Owner,         \* the organization's owner, who cannot be demoted
    Policy,        \* release policies in use: [mode, modes]
    Window,        \* max_age_seconds of a proof scope: one day
    ExceptionTTL,  \* longest life of an exception: one day
    GrantTTL,      \* life of a machine authorization
    MaxEvidence, MaxPlans, MaxExceptions, MaxPolicies, MaxGrants, MaxReleases

Modes == {"OBSERVE", "WARN", "BLOCK"}
Actions == {"ALLOW", "WARN", "BLOCK"}

ASSUME ReleaseAssumption ==
    /\ Unbound \subseteq Config
    /\ Reuse \subseteq Property \X Config \X Config
    /\ Owner \in User
    /\ \A y \in Policy : /\ y.mode \in Modes
                         /\ y.modes \in UNION {[P -> Modes] : P \in SUBSET Property}
    /\ {Window, ExceptionTTL, GrantTTL} \subseteq Nat \ {0}
    /\ {MaxEvidence, MaxPlans, MaxExceptions, MaxPolicies, MaxGrants, MaxReleases}
         \subseteq Nat

VARIABLES
    approved,    \* the approved properties of the system
    evidence,    \* evidence records, with the proof scope each one points to
    failed,      \* <<p, c>>: a confirmed failure of p is kept for configuration c
    authorized,  \* the target and the observer are authorized
    security,    \* the users with a security role
    plans,       \* proof plans
    exceptions,  \* exception requests with their approvals and revocation
    policies,    \* machine release policies; the epoch is the position
    grants,      \* machine authorizations
    releases     \* signed releases, never rewritten

ledger == <<plans, exceptions, policies, grants, releases>>
vars == <<approved, evidence, failed, authorized, security, ledger>>

Init ==
    /\ approved = {} /\ evidence = <<>> /\ failed = {}
    /\ authorized = TRUE
    /\ security = User
    /\ plans = <<>> /\ exceptions = <<>> /\ policies = <<>>
    /\ grants = <<>> /\ releases = <<>>

-----------------------------------------------------------------------------
(* Applicability of evidence *)

\* invalidate() is STILL_VALID: the evidence is in its window, and nothing in the
\* scope has changed or a reviewed scope covers the change.
StillValid(e, c) ==
    /\ e.age <= Window
    /\ \/ e.config = c
       \/ e.reviewed /\ <<e.property, e.config, c>> \in Reuse

\* _observed_candidate_anchor: this very configuration was observed in a qualified
\* run not longer ago than the window, whatever its verdict and property.
Anchored(c) ==
    /\ authorized
    /\ \E i \in DOMAIN evidence : evidence[i].config = c /\ evidence[i].age <= Window

\* _assess_evidence: a complete qualified PASS with SUCCESS, applicable, anchored,
\* authorized, and without a failure retained for the run's own scope.
Usable(i, c) ==
    LET e == evidence[i]
    IN  /\ e.good
        /\ StillValid(e, c)
        /\ Anchored(c)
        /\ authorized
        /\ <<e.property, e.config>> \notin failed

\* The newest review of a run's scope stands for the run.
Newest(i) ==
    \A j \in DOMAIN evidence : evidence[j].run = evidence[i].run => j <= i

\* Fault: evidence is reused because nothing in its scope has changed.
SelectedByScope(p, c) ==
    LET usable == {i \in DOMAIN evidence :
                     /\ evidence[i].property = p /\ Newest(i)
                     /\ evidence[i].good /\ StillValid(evidence[i], c)}
    IN  IF usable = {} THEN 0 ELSE Max(usable)

\* assess_plan: the evidence a plan reuses for property p.
Selected(p, c) ==
    LET usable == {i \in DOMAIN evidence :
                     /\ evidence[i].property = p /\ Newest(i)
                     /\ Usable(i, c) /\ c \notin Unbound}
    IN  IF usable = {} THEN 0 ELSE Max(usable)

-----------------------------------------------------------------------------
(* The decision *)

ModeOf(policy, p) ==
    IF p \in DOMAIN policy.modes THEN policy.modes[p] ELSE policy.mode

GateEnforced(policy) ==
    policy.mode = "BLOCK" \/ \E p \in DOMAIN policy.modes : policy.modes[p] = "BLOCK"

RowAction(underlying, mode, exempt) ==
    IF underlying = "ALLOW" THEN "ALLOW"
    ELSE IF mode = "BLOCK" /\ ~exempt THEN "BLOCK"
    ELSE "WARN"

Worst(actions) ==
    IF "BLOCK" \in actions THEN "BLOCK"
    ELSE IF "WARN" \in actions THEN "WARN"
    ELSE "ALLOW"

\* active_exceptions for one of them: unexpired, unrevoked, and one of its approvers
\* still has a security role.
ActiveException(x) ==
    /\ exceptions[x].left > 0
    /\ ~exceptions[x].revoked
    /\ exceptions[x].approvers \cap security # {}
Exempt(xs) == UNION {exceptions[x].props : x \in xs}

\* issue_release: what is signed for a plan under a policy and exceptions.
Decision(n, policy, xs, g) ==
    LET c == plans[n].config
        rows == [p \in approved |-> Selected(p, c)]
        Row(p) == IF rows[p] # 0 /\ <<p, c>> \notin failed THEN "ALLOW" ELSE "BLOCK"
        actions == {RowAction(Row(p), ModeOf(policy, p), p \in Exempt(xs)) :
                      p \in approved}
        open == plans[n].scope # approved \/ c \in Unbound \/ approved = {}
    IN  [plan |-> n, policy |-> policy, rows |-> rows, exceptions |-> xs,
         grant |-> g,
         underlying |-> IF ~open /\ \A p \in approved : Row(p) = "ALLOW"
                        THEN "ALLOW" ELSE "BLOCK",
         action |-> IF ~open THEN Worst(actions)
                    ELSE IF policy.mode = "BLOCK" THEN "BLOCK" ELSE "WARN"]

\* current_machine_authority reports a reason.
Lapsed(g) ==
    \/ grants[g].by \notin security
    \/ grants[g].epoch # Len(policies)
    \/ policies[grants[g].epoch].by \notin security
    \/ grants[g].left = 0 \/ grants[g].revoked

\* current_release_assessment: the release read again.  One exception that no longer
\* holds takes away all of them; the signed action is never bettered.
Current(r) ==
    LET c == plans[r.plan].config
        exempt == IF \A x \in r.exceptions : ActiveException(x)
                  THEN Exempt(r.exceptions) ELSE {}
        Row(p) == IF r.rows[p] # 0 /\ <<p, c>> \notin failed /\ Usable(r.rows[p], c)
                  THEN "ALLOW" ELSE "BLOCK"
        actions == {RowAction(Row(p), ModeOf(r.policy, p), p \in exempt) :
                      p \in DOMAIN r.rows}
        open == \/ approved # DOMAIN r.rows \/ approved = {}
                \/ r.grant # 0 /\ Lapsed(r.grant)
        action == IF ~open THEN Worst(actions)
                  ELSE IF GateEnforced(r.policy) THEN "BLOCK" ELSE "WARN"
    IN  [action |-> Worst({action, r.action}),
         underlying |-> IF ~open /\ \A p \in DOMAIN r.rows : Row(p) = "ALLOW"
                        THEN "ALLOW" ELSE "BLOCK"]

-----------------------------------------------------------------------------
(* Evidence and authority *)

\* approve_property.
ApproveProperty(p) ==
    /\ p \notin approved
    /\ approved' = approved \cup {p}
    /\ UNCHANGED <<evidence, failed, authorized, security, ledger>>

\* finish_run records the evidence of a qualified complete run; good tells whether it
\* is a security PASS and a useful SUCCESS.
RecordEvidence(p, c, good) ==
    /\ authorized /\ p \in approved /\ c \notin Unbound
    /\ Len(evidence) < MaxEvidence
    /\ evidence' = Append(evidence, [run |-> Len(evidence) + 1, property |-> p,
                     config |-> c, good |-> good, reviewed |-> FALSE, age |-> 0])
    /\ UNCHANGED <<approved, failed, authorized, security, ledger>>

\* A capture of some run, finished or not, is evaluated as FAIL.
CaptureFailure(p, c) ==
    /\ authorized /\ p \in approved /\ c \notin Unbound
    /\ failed' = failed \cup {<<p, c>>}
    /\ failed' # failed
    /\ UNCHANGED <<approved, evidence, authorized, security, ledger>>

\* Fault: the review makes the evidence as good as new.
ReviewScopeAfresh(i) ==
    /\ Len(evidence) < MaxEvidence
    /\ evidence' = Append(evidence, [evidence[i] EXCEPT !.reviewed = TRUE, !.age = 0])
    /\ UNCHANGED <<approved, failed, authorized, security, ledger>>

\* review_scope appends a record of the same run, established when the result was.
ReviewScope(i) ==
    /\ Len(evidence) < MaxEvidence
    /\ evidence' = Append(evidence, [evidence[i] EXCEPT !.reviewed = TRUE])
    /\ UNCHANGED <<approved, failed, authorized, security, ledger>>

\* revoke_target, the end of its authorization, or the observer's revocation.
LoseAuthorization ==
    /\ authorized
    /\ authorized' = FALSE
    /\ UNCHANGED <<approved, evidence, failed, security, ledger>>

\* member_role.
ChangeRole(u) ==
    /\ u # Owner
    /\ security' = IF u \in security THEN security \ {u} ELSE security \cup {u}
    /\ UNCHANGED <<approved, evidence, failed, authorized, ledger>>

-----------------------------------------------------------------------------
(* Plans and exceptions *)

CreatePlan(c) ==
    /\ Len(plans) < MaxPlans
    /\ plans' = Append(plans, [config |-> c, scope |-> approved])
    /\ UNCHANGED <<approved, evidence, failed, authorized, security, exceptions,
                   policies, grants, releases>>

RequestException(u, n, P, ttl) ==
    /\ Len(exceptions) < MaxExceptions
    /\ P # {} /\ P \subseteq plans[n].scope
    /\ exceptions' = Append(exceptions, [plan |-> n, props |-> P, by |-> u,
                       left |-> ttl, approvers |-> {}, revoked |-> FALSE])
    /\ UNCHANGED <<approved, evidence, failed, authorized, security, plans, policies,
                   grants, releases>>

\* Fault: the requester may approve.
ApproveOwnException(u, x) ==
    /\ u \in security /\ exceptions[x].left > 0
    /\ exceptions' = [exceptions EXCEPT ![x].approvers = @ \cup {u}]
    /\ UNCHANGED <<approved, evidence, failed, authorized, security, plans, policies,
                   grants, releases>>

ApproveException(u, x) ==
    /\ u \in security /\ u # exceptions[x].by
    /\ exceptions[x].left > 0
    /\ exceptions' = [exceptions EXCEPT ![x].approvers = @ \cup {u}]
    /\ UNCHANGED <<approved, evidence, failed, authorized, security, plans, policies,
                   grants, releases>>

RevokeException(x) ==
    /\ exceptions' = [exceptions EXCEPT ![x].revoked = TRUE]
    /\ UNCHANGED <<approved, evidence, failed, authorized, security, plans, policies,
                   grants, releases>>

-----------------------------------------------------------------------------
(* Releases *)

\* POST /v1/releases: a security user issues with the exceptions of their choice.
IssueRelease(u, n, policy, xs) ==
    /\ u \in security /\ Len(releases) < MaxReleases
    /\ DOMAIN policy.modes \subseteq approved
    /\ \A x \in xs : exceptions[x].plan = n /\ ActiveException(x)
    /\ releases' = Append(releases, Decision(n, policy, xs, 0))
    /\ UNCHANGED <<approved, evidence, failed, authorized, security, plans, exceptions,
                   policies, grants>>

ApprovePolicy(u, policy) ==
    /\ u \in security /\ Len(policies) < MaxPolicies
    /\ approved # {} /\ DOMAIN policy.modes \subseteq approved
    /\ policies' = Append(policies, [policy |-> policy, scope |-> approved, by |-> u])
    /\ UNCHANGED <<approved, evidence, failed, authorized, security, plans, exceptions,
                   grants, releases>>

\* authorize_release: only for the newest policy, and for one plan.
AuthorizeRelease(u, n) ==
    LET policy == policies[Len(policies)]
    IN  /\ u \in security /\ Len(grants) < MaxGrants
        /\ policies # <<>> /\ policy.by \in security
        /\ policy.scope = approved /\ plans[n].scope = approved
        /\ grants' = Append(grants, [plan |-> n, epoch |-> Len(policies), by |-> u,
                       scope |-> approved, left |-> GrantTTL, revoked |-> FALSE])
        /\ UNCHANGED <<approved, evidence, failed, authorized, security, plans,
                       exceptions, policies, releases>>

RevokeAuthorization(g) ==
    /\ grants' = [grants EXCEPT ![g].revoked = TRUE]
    /\ UNCHANGED <<approved, evidence, failed, authorized, security, plans, exceptions,
                   policies, releases>>

\* release_authorization_use is written with the release.
Used(g) == \E r \in DOMAIN releases : releases[r].grant = g

\* Fault: whatever policy is the newest one.
DecideByNewestPolicy(g) ==
    LET grant == grants[g]
        policy == policies[Len(policies)]
    IN  /\ Len(releases) < MaxReleases
        /\ grant.by \in security /\ grant.left > 0 /\ ~grant.revoked
        /\ policy.scope = approved
        /\ ~Used(g)
        /\ releases' = Append(releases, Decision(grant.plan, policy.policy, {}, g))
        /\ UNCHANGED <<approved, evidence, failed, authorized, security, plans,
                       exceptions, policies, grants>>

\* POST /v1/release-machine/decide.
MachineDecision(g) ==
    LET grant == grants[g]
        policy == policies[grant.epoch]
    IN  /\ Len(releases) < MaxReleases
        /\ grant.by \in security /\ grant.left > 0 /\ ~grant.revoked
        /\ grant.scope = approved
        /\ grant.epoch = Len(policies) /\ policy.scope = approved
        /\ policy.by \in security
        /\ ~Used(g)
        /\ releases' = Append(releases, Decision(grant.plan, policy.policy, {}, g))
        /\ UNCHANGED <<approved, evidence, failed, authorized, security, plans,
                       exceptions, policies, grants>>

\* Time passes: evidence ages, exceptions and grants run out.
Tick ==
    /\ evidence' = [i \in DOMAIN evidence |->
         [evidence[i] EXCEPT !.age = IF @ > Window THEN @ ELSE @ + 1]]
    /\ exceptions' = [x \in DOMAIN exceptions |->
         [exceptions[x] EXCEPT !.left = IF @ = 0 THEN 0 ELSE @ - 1]]
    /\ grants' = [g \in DOMAIN grants |->
         [grants[g] EXCEPT !.left = IF @ = 0 THEN 0 ELSE @ - 1]]
    /\ <<evidence, exceptions, grants>>' # <<evidence, exceptions, grants>>
    /\ UNCHANGED <<approved, failed, authorized, security, plans, policies, releases>>

Evidence ==
    \/ \E p \in Property : ApproveProperty(p)
    \/ \E p \in Property, c \in Config : \/ CaptureFailure(p, c)
                                         \/ \E good \in BOOLEAN : RecordEvidence(p, c, good)
    \/ \E i \in DOMAIN evidence : ReviewScope(i)
    \/ LoseAuthorization
    \/ \E u \in User : ChangeRole(u)
Exceptions ==
    \/ \E u \in User, n \in DOMAIN plans, P \in SUBSET Property, ttl \in 1..ExceptionTTL :
         RequestException(u, n, P, ttl)
    \/ \E x \in DOMAIN exceptions : \/ RevokeException(x)
                                    \/ \E u \in User : ApproveException(u, x)
Machine ==
    \/ \E u \in User : \/ \E policy \in Policy : ApprovePolicy(u, policy)
                       \/ \E n \in DOMAIN plans : AuthorizeRelease(u, n)
    \/ \E g \in DOMAIN grants : RevokeAuthorization(g) \/ MachineDecision(g)
Human ==
    \/ \E c \in Config : CreatePlan(c)
    \/ \E u \in User, n \in DOMAIN plans, policy \in Policy, xs \in SUBSET DOMAIN exceptions :
         IssueRelease(u, n, policy, xs)

Next == Evidence \/ Exceptions \/ Machine \/ Human \/ Tick
Spec == Init /\ [][Next]_vars

-----------------------------------------------------------------------------
(* Properties *)

EvidenceRecord ==
    [run : 1..MaxEvidence, property : Property, config : Config, good : BOOLEAN,
     reviewed : BOOLEAN, age : 0..(Window + 1)]
Plan == [config : Config, scope : SUBSET Property]
ExceptionRecord ==
    [plan : DOMAIN plans, props : SUBSET Property, by : User, left : 0..ExceptionTTL,
     approvers : SUBSET User, revoked : BOOLEAN]
MachinePolicy == [policy : Policy, scope : SUBSET Property, by : User]
Grant ==
    [plan : DOMAIN plans, epoch : DOMAIN policies, by : User, scope : SUBSET Property,
     left : 0..GrantTTL, revoked : BOOLEAN]
Release ==
    [plan : DOMAIN plans, policy : Policy,
     rows : UNION {[P -> DOMAIN evidence \cup {0}] : P \in SUBSET Property},
     exceptions : SUBSET DOMAIN exceptions, grant : DOMAIN grants \cup {0},
     underlying : {"ALLOW", "BLOCK"}, action : Actions]

\* Every variable has its type, and a record refers to records that exist.
TypeOK ==
    /\ approved \subseteq Property
    /\ failed \subseteq Property \X Config
    /\ authorized \in BOOLEAN
    /\ Owner \in security /\ security \subseteq User
    /\ evidence \in Seq(EvidenceRecord)
    /\ plans \in Seq(Plan)
    /\ exceptions \in Seq(ExceptionRecord)
    /\ policies \in Seq(MachinePolicy)
    /\ grants \in Seq(Grant)
    /\ releases \in Seq(Release)

\* What a reader of a release may rely on for property p and configuration c: a run
\* passed within the window, on c or on a configuration a reviewer covered; c itself
\* was observed within the window; and neither has a failure in its history.
Established(p, c) ==
    /\ authorized /\ <<p, c>> \notin failed
    /\ \E i \in DOMAIN evidence :
         LET e == evidence[i]
         IN  /\ e.property = p /\ e.good /\ evidence[e.run].age <= Window
             /\ e.config = c \/ <<p, e.config, c>> \in Reuse
             /\ <<p, e.config>> \notin failed
    /\ \E i \in DOMAIN evidence :
         evidence[i].config = c /\ evidence[evidence[i].run].age <= Window

\* However long ago it was signed, whatever was approved, reviewed, revoked or captured
\* since: a release reads ALLOW only while every property approved by now is
\* established for its configuration.
AllowIsProven ==
    \A r \in DOMAIN releases :
        Current(releases[r]).underlying = "ALLOW" =>
            \A p \in approved : Established(p, plans[releases[r].plan].config)

\* A second person with a security role stands behind the bypass of p right now.
Bypassed(r, p) ==
    \E x \in releases[r].exceptions :
        /\ p \in exceptions[x].props /\ exceptions[x].plan = releases[r].plan
        /\ exceptions[x].left > 0 /\ ~exceptions[x].revoked
        /\ (exceptions[x].approvers \cap security) \ {exceptions[x].by} # {}

\* The gate holds: a property that is not established, and that the release's policy
\* blocks on, keeps the release blocked unless it is bypassed; properties approved
\* after the release was signed count as well.
GateHolds ==
    \A r \in DOMAIN releases :
        Current(releases[r]).action # "BLOCK" =>
            \A p \in approved :
                \/ ModeOf(releases[r].policy, p) # "BLOCK"
                \/ Established(p, plans[releases[r].plan].config)
                \/ Bypassed(r, p)

\* The decision issue_release signs is the one current_release_assessment reads at the
\* same moment, for a bound candidate and a plan whose scope is up to date.
SignedAsRead(r) ==
    LET s == releases[r]
        plan == plans[s.plan]
    IN  plan.scope = approved /\ approved # {} /\ plan.config \notin Unbound =>
            Current(s) = [action |-> s.action, underlying |-> s.underlying]
FreshReceiptAgrees ==
    [][\A r \in DOMAIN releases' \ DOMAIN releases : SignedAsRead(r)']_vars

\* A machine decides what people approved and nothing else: the plan of the grant, under
\* the policy and scope that were in force when it was given, without exceptions, once.
MachineAsApproved ==
    \A r \in DOMAIN releases :
        LET s == releases[r]
            grant == grants[s.grant]
        IN  s.grant # 0 =>
                /\ s.plan = grant.plan /\ s.exceptions = {}
                /\ s.policy = policies[grant.epoch].policy
                /\ DOMAIN s.rows = policies[grant.epoch].scope
                /\ DOMAIN s.rows = plans[grant.plan].scope
                /\ \A q \in DOMAIN releases : releases[q].grant = s.grant => q = r

\* A property configured for BLOCK can still block a release whose default mode is
\* WARN: no evidence, no exception, then the signed action is BLOCK.
BlockedPropertyBlocks ==
    \A r \in DOMAIN releases :
        LET s == releases[r]
        IN  \A p \in DOMAIN s.rows :
                s.rows[p] = 0 /\ ModeOf(s.policy, p) = "BLOCK" /\ p \notin Exempt(s.exceptions)
                    => s.action = "BLOCK"

\* Reading a release again never upgrades its receipt.
NeverUpgraded ==
    \A r \in DOMAIN releases :
        releases[r].underlying = "BLOCK" => Current(releases[r]).underlying = "BLOCK"

-----------------------------------------------------------------------------
(* The inductive invariant behind the proofs *)

\* A scope review's record points to the record of its run, of the same age.
OriginInv ==
    \A i \in DOMAIN evidence :
        /\ evidence[i].run \in DOMAIN evidence
        /\ evidence[evidence[i].run].age = evidence[i].age

\* A grant, its policy and its plan are about one scope.
GrantInv ==
    \A g \in DOMAIN grants :
        /\ grants[g].scope = policies[grants[g].epoch].scope
        /\ grants[g].scope = plans[grants[g].plan].scope

ApproverInv ==
    \A x \in DOMAIN exceptions : exceptions[x].by \notin exceptions[x].approvers

\* A signed row names evidence of its property, and the exceptions are the plan's.
RowInv ==
    \A r \in DOMAIN releases :
        /\ \A p \in DOMAIN releases[r].rows :
             releases[r].rows[p] # 0 => evidence[releases[r].rows[p]].property = p
        /\ \A x \in releases[r].exceptions : exceptions[x].plan = releases[r].plan

IInv == OriginInv /\ GrantInv /\ ApproverInv /\ RowInv /\ MachineAsApproved
=============================================================================
