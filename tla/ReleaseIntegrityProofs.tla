----------------------- MODULE ReleaseIntegrityProofs -----------------------
(***************************************************************************)
(* Proofs about ReleaseIntegrity, for any properties, configurations,      *)
(* users and policies, any reviewed reuse, and any lifetimes.              *)
(***************************************************************************)
EXTENDS ReleaseReuse, SequenceLemmas

-----------------------------------------------------------------------------
(* Which action writes what *)

\* Evidence is recorded, reviewed and ages; nothing else touches it.
LEMMA EvidenceWriters ==
  [Next]_vars =>
    \/ evidence' = evidence
    \/ \E p \in Property, c \in Config, good \in BOOLEAN : RecordEvidence(p, c, good)
    \/ \E i \in DOMAIN evidence : ReviewScope(i)
    \/ Tick
<1> SUFFICES ASSUME [Next]_vars, ~Tick, evidence' # evidence
             PROVE  \/ \E p \in Property, c \in Config, good \in BOOLEAN :
                         RecordEvidence(p, c, good)
                    \/ \E i \in DOMAIN evidence : ReviewScope(i)
  OBVIOUS
<1>1. CASE Evidence
  BY <1>1 DEF Evidence, ApproveProperty, CaptureFailure, LoseAuthorization, ChangeRole
<1>2. ~Exceptions
  BY DEF Exceptions, RequestException, RevokeException, ApproveException
<1>3. ~Machine
  BY DEF Machine, ApprovePolicy, AuthorizeRelease, RevokeAuthorization, MachineDecision
<1>4. ~Human
  BY DEF Human, CreatePlan, IssueRelease
<1> QED
  BY <1>1, <1>2, <1>3, <1>4 DEF Next, vars

\* Plans are created and never changed.
LEMMA PlanWriters ==
  [Next]_vars => plans' = plans \/ \E c \in Config : CreatePlan(c)
<1> SUFFICES ASSUME [Next]_vars, plans' # plans
             PROVE  \E c \in Config : CreatePlan(c)
  OBVIOUS
<1>1. ~Evidence
  BY DEF Evidence, ApproveProperty, CaptureFailure, LoseAuthorization, ChangeRole,
         RecordEvidence, ReviewScope, ledger
<1>2. ~Exceptions
  BY DEF Exceptions, RequestException, RevokeException, ApproveException
<1>3. ~Machine
  BY DEF Machine, ApprovePolicy, AuthorizeRelease, RevokeAuthorization, MachineDecision
<1>4. ~Tick
  BY DEF Tick
<1>5. CASE Human
  BY <1>5 DEF Human, IssueRelease
<1> QED
  BY <1>1, <1>2, <1>3, <1>4, <1>5 DEF Next, vars, ledger

\* Exceptions are requested, approved, revoked and run out.
LEMMA ExceptionWriters ==
  [Next]_vars =>
    \/ exceptions' = exceptions
    \/ \E u \in User, n \in DOMAIN plans, P \in SUBSET Property, ttl \in 1..ExceptionTTL :
         RequestException(u, n, P, ttl)
    \/ \E x \in DOMAIN exceptions : \/ RevokeException(x)
                                    \/ \E u \in User : ApproveException(u, x)
    \/ Tick
<1> SUFFICES ASSUME [Next]_vars, exceptions' # exceptions PROVE Exceptions \/ Tick
  BY DEF Exceptions
<1>1. ~Evidence
  BY DEF Evidence, ApproveProperty, CaptureFailure, LoseAuthorization, ChangeRole,
         RecordEvidence, ReviewScope, ledger
<1>2. ~Machine
  BY DEF Machine, ApprovePolicy, AuthorizeRelease, RevokeAuthorization, MachineDecision
<1>3. ~Human
  BY DEF Human, CreatePlan, IssueRelease
<1> QED
  BY <1>1, <1>2, <1>3 DEF Next, vars, ledger

\* Machine policies are approved and never changed.
LEMMA PolicyWriters ==
  [Next]_vars =>
    \/ policies' = policies
    \/ \E u \in User, policy \in Policy : ApprovePolicy(u, policy)
<1> SUFFICES ASSUME [Next]_vars, policies' # policies
             PROVE  \E u \in User, policy \in Policy : ApprovePolicy(u, policy)
  OBVIOUS
<1>1. ~Evidence
  BY DEF Evidence, ApproveProperty, CaptureFailure, LoseAuthorization, ChangeRole,
         RecordEvidence, ReviewScope, ledger
<1>2. ~Exceptions
  BY DEF Exceptions, RequestException, RevokeException, ApproveException
<1>3. CASE Machine
  BY <1>3 DEF Machine, AuthorizeRelease, RevokeAuthorization, MachineDecision
<1>4. ~Human
  BY DEF Human, CreatePlan, IssueRelease
<1>5. ~Tick
  BY DEF Tick
<1> QED
  BY <1>1, <1>2, <1>3, <1>4, <1>5 DEF Next, vars, ledger

\* Grants are given, revoked and run out.
LEMMA GrantWriters ==
  [Next]_vars =>
    \/ grants' = grants
    \/ \E u \in User, n \in DOMAIN plans : AuthorizeRelease(u, n)
    \/ \E g \in DOMAIN grants : RevokeAuthorization(g)
    \/ Tick
<1> SUFFICES ASSUME [Next]_vars, grants' # grants, ~Tick
             PROVE  \/ \E u \in User, n \in DOMAIN plans : AuthorizeRelease(u, n)
                    \/ \E g \in DOMAIN grants : RevokeAuthorization(g)
  OBVIOUS
<1>1. ~Evidence
  BY DEF Evidence, ApproveProperty, CaptureFailure, LoseAuthorization, ChangeRole,
         RecordEvidence, ReviewScope, ledger
<1>2. ~Exceptions
  BY DEF Exceptions, RequestException, RevokeException, ApproveException
<1>3. CASE Machine
  BY <1>3 DEF Machine, ApprovePolicy, MachineDecision
<1>4. ~Human
  BY DEF Human, CreatePlan, IssueRelease
<1> QED
  BY <1>1, <1>2, <1>3, <1>4 DEF Next, vars, ledger

\* Only people and machines release, and no release is changed.
LEMMA ReleaseWriters ==
  [Next]_vars =>
    \/ releases' = releases
    \/ \E u \in User, n \in DOMAIN plans, policy \in Policy, xs \in SUBSET DOMAIN exceptions :
         IssueRelease(u, n, policy, xs)
    \/ \E g \in DOMAIN grants : MachineDecision(g)
<1> SUFFICES ASSUME [Next]_vars, releases' # releases
             PROVE  \/ \E u \in User, n \in DOMAIN plans, policy \in Policy,
                          xs \in SUBSET DOMAIN exceptions : IssueRelease(u, n, policy, xs)
                    \/ \E g \in DOMAIN grants : MachineDecision(g)
  OBVIOUS
<1>1. ~Evidence
  BY DEF Evidence, ApproveProperty, CaptureFailure, LoseAuthorization, ChangeRole,
         RecordEvidence, ReviewScope, ledger
<1>2. ~Exceptions
  BY DEF Exceptions, RequestException, RevokeException, ApproveException
<1>3. CASE Machine
  BY <1>3 DEF Machine, ApprovePolicy, AuthorizeRelease, RevokeAuthorization
<1>4. CASE Human
  BY <1>4 DEF Human, CreatePlan
<1>5. ~Tick
  BY DEF Tick
<1> QED
  BY <1>1, <1>2, <1>3, <1>4, <1>5 DEF Next, vars, ledger

-----------------------------------------------------------------------------
(* What a record keeps *)

\* Evidence only ages.
EvidenceKept ==
    \A i \in DOMAIN evidence :
        /\ i \in DOMAIN evidence'
        /\ evidence'[i].run = evidence[i].run
        /\ evidence'[i].property = evidence[i].property
        /\ evidence'[i].config = evidence[i].config
        /\ evidence'[i].good = evidence[i].good

\* Exceptions are only approved, revoked or run out.
ExceptionsKept ==
    \A x \in DOMAIN exceptions :
        /\ x \in DOMAIN exceptions'
        /\ exceptions'[x].plan = exceptions[x].plan
        /\ exceptions'[x].props = exceptions[x].props
        /\ exceptions'[x].by = exceptions[x].by
        /\ exceptions[x].approvers \subseteq exceptions'[x].approvers
        /\ exceptions[x].revoked => exceptions'[x].revoked

\* Grants are only revoked or run out.
GrantsKept ==
    \A g \in DOMAIN grants :
        /\ g \in DOMAIN grants'
        /\ grants'[g].plan = grants[g].plan
        /\ grants'[g].epoch = grants[g].epoch
        /\ grants'[g].by = grants[g].by
        /\ grants'[g].scope = grants[g].scope
        /\ grants[g].revoked => grants'[g].revoked

PlansKept == \A n \in DOMAIN plans : n \in DOMAIN plans' /\ plans'[n] = plans[n]
PoliciesKept ==
    \A k \in DOMAIN policies : k \in DOMAIN policies' /\ policies'[k] = policies[k]
ReleasesKept ==
    \A r \in DOMAIN releases : r \in DOMAIN releases' /\ releases'[r] = releases[r]

Kept == /\ EvidenceKept /\ PlansKept /\ ExceptionsKept
        /\ PoliciesKept /\ GrantsKept /\ ReleasesKept

\* What is created has the type of its record.
LEMMA CreatedTypes ==
  ASSUME TypeOK
  PROVE  /\ \A p \in Property, c \in Config, good \in BOOLEAN :
              RecordEvidence(p, c, good) =>
                [run |-> Len(evidence) + 1, property |-> p, config |-> c, good |-> good,
                 reviewed |-> FALSE, age |-> 0] \in EvidenceRecord
         /\ \A i \in DOMAIN evidence :
              [evidence[i] EXCEPT !.reviewed = TRUE] \in EvidenceRecord
         /\ \A c \in Config : [config |-> c, scope |-> approved] \in Plan
         /\ \A u \in User, policy \in Policy :
              [policy |-> policy, scope |-> approved, by |-> u] \in MachinePolicy
         /\ \A u \in User, n \in DOMAIN plans :
              policies # <<>> =>
                [plan |-> n, epoch |-> Len(policies), by |-> u, scope |-> approved,
                 left |-> GrantTTL, revoked |-> FALSE] \in Grant
         /\ \A u \in User, n \in DOMAIN plans, P \in SUBSET Property,
               ttl \in 1..ExceptionTTL :
              [plan |-> n, props |-> P, by |-> u, left |-> ttl, approvers |-> {},
               revoked |-> FALSE] \in ExceptionRecord
<1> USE ReleaseAssumption DEF TypeOK
<1>1. /\ Len(evidence) \in Nat /\ Len(policies) \in Nat
      /\ DOMAIN policies = 1..Len(policies) /\ DOMAIN evidence = 1..Len(evidence)
      /\ \A i \in DOMAIN evidence : evidence[i] \in EvidenceRecord
      /\ policies # <<>> => Len(policies) \in DOMAIN policies
  <2>1. /\ Len(policies) \in Nat /\ DOMAIN policies = 1..Len(policies)
        /\ policies # <<>> => Len(policies) # 0
    BY LenProperties, EmptySeq
  <2>2. /\ Len(evidence) \in Nat /\ DOMAIN evidence = 1..Len(evidence)
    BY LenProperties
  <2>3. \A i \in 1..Len(evidence) : evidence[i] \in EvidenceRecord
    BY ElementOfSeq
  <2> QED
    BY <2>1, <2>2, <2>3
<1>2. MaxEvidence \in Nat /\ Window \in Nat /\ GrantTTL \in Nat /\ ExceptionTTL \in Nat
  OBVIOUS
<1>3. ASSUME NEW p \in Property, NEW c \in Config, NEW good \in BOOLEAN,
             RecordEvidence(p, c, good)
      PROVE  [run |-> Len(evidence) + 1, property |-> p, config |-> c, good |-> good,
              reviewed |-> FALSE, age |-> 0] \in EvidenceRecord
  BY <1>1, <1>2, <1>3 DEF RecordEvidence, EvidenceRecord
<1>4. \A i \in DOMAIN evidence : [evidence[i] EXCEPT !.reviewed = TRUE] \in EvidenceRecord
  BY <1>1 DEF EvidenceRecord
<1>5. /\ \A c \in Config : [config |-> c, scope |-> approved] \in Plan
      /\ \A u \in User, policy \in Policy :
           [policy |-> policy, scope |-> approved, by |-> u] \in MachinePolicy
  BY DEF Plan, MachinePolicy
<1>6. ASSUME NEW u \in User, NEW n \in DOMAIN plans, policies # <<>>
      PROVE  [plan |-> n, epoch |-> Len(policies), by |-> u, scope |-> approved,
              left |-> GrantTTL, revoked |-> FALSE] \in Grant
  BY <1>1, <1>2, <1>6 DEF Grant
<1>7. ASSUME NEW u \in User, NEW n \in DOMAIN plans, NEW P \in SUBSET Property,
             NEW ttl \in 1..ExceptionTTL
      PROVE  [plan |-> n, props |-> P, by |-> u, left |-> ttl, approvers |-> {},
              revoked |-> FALSE] \in ExceptionRecord
  BY <1>2 DEF ExceptionRecord
<1> QED
  BY <1>3, <1>4, <1>5, <1>6, <1>7

\* The evidence selected for a property is usable evidence of that property.
LEMMA SelectedIs ==
  ASSUME TypeOK, NEW p, NEW c, Selected(p, c) # 0
  PROVE  /\ Selected(p, c) \in DOMAIN evidence
         /\ evidence[Selected(p, c)].property = p
         /\ Usable(Selected(p, c), c)
         /\ c \notin Unbound
<1> DEFINE usable == {i \in DOMAIN evidence : /\ evidence[i].property = p /\ Newest(i)
                                              /\ Usable(i, c) /\ c \notin Unbound}
<1>1. Selected(p, c) = Max(usable) /\ usable # {}
  BY DEF Selected
<1>2. Len(evidence) \in Nat /\ DOMAIN evidence = 1..Len(evidence)
  BY LenProperties DEF TypeOK
<1>3. Max(usable) \in usable
  <2>1. usable \in SUBSET (1..Len(evidence))
    BY <1>2
  <2> QED
    BY <2>1, <1>1, <1>2, Largest
<1> QED
  BY <1>1, <1>3

\* A grant is for a plan and a policy that exist.
LEMMA GrantedTypes ==
  ASSUME TypeOK, NEW g \in DOMAIN grants
  PROVE  /\ grants[g] \in Grant
         /\ grants[g].plan \in DOMAIN plans
         /\ grants[g].epoch \in DOMAIN policies
         /\ policies[grants[g].epoch] \in MachinePolicy
         /\ policies[grants[g].epoch].policy \in Policy
<1>1. grants[g] \in Grant
  BY ElementOfSeq, LenProperties DEF TypeOK
<1>2. grants[g].plan \in DOMAIN plans /\ grants[g].epoch \in DOMAIN policies
  BY <1>1 DEF Grant
<1>3. \A k \in DOMAIN policies : policies[k] \in MachinePolicy
  BY ElementOfSeq, LenProperties DEF TypeOK
<1> QED
  BY <1>1, <1>2, <1>3 DEF MachinePolicy

\* A decision is a release.
LEMMA DecisionType ==
  ASSUME TypeOK, NEW n \in DOMAIN plans, NEW policy \in Policy,
         NEW xs \in SUBSET DOMAIN exceptions, NEW g \in DOMAIN grants \cup {0}
  PROVE  Decision(n, policy, xs, g) \in Release
<1> DEFINE rows == [p \in approved |-> Selected(p, plans[n].config)]
<1>1. rows \in [approved -> DOMAIN evidence \cup {0}]
  BY SelectedIs
<1>2. rows \in UNION {[P -> DOMAIN evidence \cup {0}] : P \in SUBSET Property}
  BY <1>1 DEF TypeOK
<1>3. \A S : Worst(S) \in Actions
  BY DEF Worst, Actions
<1>4. /\ Decision(n, policy, xs, g).rows = rows
      /\ Decision(n, policy, xs, g).action \in Actions
      /\ Decision(n, policy, xs, g).underlying \in {"ALLOW", "BLOCK"}
  BY <1>3 DEF Decision, Actions
<1> HIDE DEF rows
<1> QED
  BY <1>2, <1>4 DEF Decision, Release

\* Every step keeps the records there are.
LEMMA KeptStep == TypeOK /\ [Next]_vars => Kept
<1> SUFFICES ASSUME TypeOK, [Next]_vars PROVE Kept
  OBVIOUS
<1>1. EvidenceKept
  <2> USE DEF EvidenceKept, TypeOK
  <2>1. ASSUME NEW p \in Property, NEW c \in Config, NEW good \in BOOLEAN,
               RecordEvidence(p, c, good)
        PROVE  EvidenceKept
    BY <2>1, CreatedTypes, Appended DEF RecordEvidence
  <2>2. ASSUME NEW i \in DOMAIN evidence, ReviewScope(i) PROVE EvidenceKept
    BY <2>2, CreatedTypes, Appended DEF ReviewScope
  <2>3. CASE Tick
    <3>1. \A i \in DOMAIN evidence : evidence[i] \in EvidenceRecord
      BY ElementOfSeq, LenProperties
    <3> QED
      BY <2>3, <3>1 DEF Tick, EvidenceRecord
  <2> QED
    BY <2>1, <2>2, <2>3, EvidenceWriters
<1>2. PlansKept
  <2>1. ASSUME NEW c \in Config, CreatePlan(c) PROVE PlansKept
    <3>1. [config |-> c, scope |-> approved] \in Plan
      BY CreatedTypes
    <3> QED
      BY <2>1, <3>1, Appended DEF CreatePlan, PlansKept, TypeOK
  <2> QED
    BY <2>1, PlanWriters DEF PlansKept
<1>3. ExceptionsKept
  <2>1. ASSUME NEW u \in User, NEW n \in DOMAIN plans, NEW P \in SUBSET Property,
               NEW ttl \in 1..ExceptionTTL, RequestException(u, n, P, ttl)
        PROVE  ExceptionsKept
    <3>1. [plan |-> n, props |-> P, by |-> u, left |-> ttl, approvers |-> {},
           revoked |-> FALSE] \in ExceptionRecord
      BY CreatedTypes
    <3> QED
      BY <2>1, <3>1, Appended DEF RequestException, ExceptionsKept, TypeOK
  <2>2. \A x \in DOMAIN exceptions : exceptions[x] \in ExceptionRecord
    BY ElementOfSeq, LenProperties DEF TypeOK
  <2>3. ASSUME NEW x \in DOMAIN exceptions, RevokeException(x) PROVE ExceptionsKept
    BY <2>2, <2>3 DEF RevokeException, ExceptionRecord, ExceptionsKept
  <2>4. ASSUME NEW x \in DOMAIN exceptions, NEW u \in User, ApproveException(u, x)
        PROVE  ExceptionsKept
    BY <2>2, <2>4 DEF ApproveException, ExceptionRecord, ExceptionsKept
  <2>5. CASE Tick
    BY <2>2, <2>5 DEF Tick, ExceptionRecord, ExceptionsKept
  <2>6. CASE exceptions' = exceptions
    BY <2>6 DEF ExceptionsKept
  <2> QED
    BY <2>1, <2>3, <2>4, <2>5, <2>6, ExceptionWriters
<1>4. PoliciesKept
  <2>1. ASSUME NEW u \in User, NEW policy \in Policy, ApprovePolicy(u, policy)
        PROVE  PoliciesKept
    <3>1. [policy |-> policy, scope |-> approved, by |-> u] \in MachinePolicy
      BY CreatedTypes
    <3> QED
      BY <2>1, <3>1, Appended DEF ApprovePolicy, PoliciesKept, TypeOK
  <2> QED
    BY <2>1, PolicyWriters DEF PoliciesKept
<1>5. GrantsKept
  <2>1. ASSUME NEW u \in User, NEW n \in DOMAIN plans, AuthorizeRelease(u, n)
        PROVE  GrantsKept
    <3>1. [plan |-> n, epoch |-> Len(policies), by |-> u, scope |-> approved,
           left |-> GrantTTL, revoked |-> FALSE] \in Grant
      BY <2>1, CreatedTypes DEF AuthorizeRelease
    <3> QED
      BY <2>1, <3>1, Appended DEF AuthorizeRelease, GrantsKept, TypeOK
  <2>2. \A g \in DOMAIN grants : grants[g] \in Grant
    BY ElementOfSeq, LenProperties DEF TypeOK
  <2>3. ASSUME NEW g \in DOMAIN grants, RevokeAuthorization(g) PROVE GrantsKept
    BY <2>2, <2>3 DEF RevokeAuthorization, Grant, GrantsKept
  <2>4. CASE Tick
    BY <2>2, <2>4 DEF Tick, Grant, GrantsKept
  <2>5. CASE grants' = grants
    BY <2>5 DEF GrantsKept
  <2> QED
    BY <2>1, <2>3, <2>4, <2>5, GrantWriters
<1>6. ReleasesKept
  <2>1. ASSUME NEW u \in User, NEW n \in DOMAIN plans, NEW policy \in Policy,
               NEW xs \in SUBSET DOMAIN exceptions, IssueRelease(u, n, policy, xs)
        PROVE  ReleasesKept
    <3>1. Decision(n, policy, xs, 0) \in Release
      BY DecisionType
    <3> QED
      BY <2>1, <3>1, Appended DEF IssueRelease, ReleasesKept, TypeOK
  <2>2. ASSUME NEW g \in DOMAIN grants, MachineDecision(g) PROVE ReleasesKept
    <3>1. Decision(grants[g].plan, policies[grants[g].epoch].policy, {}, g) \in Release
      BY GrantedTypes, DecisionType
    <3> QED
      BY <2>2, <3>1, Appended DEF MachineDecision, ReleasesKept, TypeOK
  <2> QED
    BY <2>1, <2>2, ReleaseWriters DEF ReleasesKept
<1> QED
  BY <1>1, <1>2, <1>3, <1>4, <1>5, <1>6 DEF Kept

-----------------------------------------------------------------------------
(* Types *)

\* The types hold initially.
LEMMA TypeInit == Init => TypeOK
  BY EmptySeq, ReleaseAssumption DEF Init, TypeOK

\* Evidence, plans and machine policies keep their types.
LEMMA PlainTypesStep ==
  TypeOK /\ [Next]_vars =>
    /\ evidence' \in Seq(EvidenceRecord)
    /\ plans' \in Seq(Plan)
    /\ policies' \in Seq(MachinePolicy)
<1> SUFFICES ASSUME TypeOK, [Next]_vars
             PROVE  /\ evidence' \in Seq(EvidenceRecord)
                    /\ plans' \in Seq(Plan)
                    /\ policies' \in Seq(MachinePolicy)
  OBVIOUS
<1> USE DEF TypeOK
<1>1. evidence' \in Seq(EvidenceRecord)
  <2>1. ASSUME NEW p \in Property, NEW c \in Config, NEW good \in BOOLEAN,
               RecordEvidence(p, c, good)
        PROVE  evidence' \in Seq(EvidenceRecord)
    BY <2>1, CreatedTypes, Appended DEF RecordEvidence
  <2>2. ASSUME NEW i \in DOMAIN evidence, ReviewScope(i)
        PROVE  evidence' \in Seq(EvidenceRecord)
    BY <2>2, CreatedTypes, Appended DEF ReviewScope
  <2>3. CASE Tick
    <3>1. \A i \in DOMAIN evidence : evidence[i] \in EvidenceRecord
      BY ElementOfSeq, LenProperties
    <3>2. Window \in Nat
      BY ReleaseAssumption
    <3>3. \A i \in DOMAIN evidence :
            [evidence[i] EXCEPT !.age = IF @ > Window THEN @ ELSE @ + 1] \in EvidenceRecord
      <4> TAKE i \in DOMAIN evidence
      <4>1. evidence[i].age \in 0..(Window + 1)
        BY <3>1 DEF EvidenceRecord
      <4>2. (IF evidence[i].age > Window THEN evidence[i].age ELSE evidence[i].age + 1)
              \in 0..(Window + 1)
        BY <4>1, <3>2
      <4> QED
        BY <3>1, <4>2 DEF EvidenceRecord
    <3>4. evidence' \in [DOMAIN evidence -> EvidenceRecord]
      BY <2>3, <3>3 DEF Tick
    <3> QED
      BY <3>4, Mapped
  <2> QED
    BY <2>1, <2>2, <2>3, EvidenceWriters
<1>2. plans' \in Seq(Plan)
  <2>1. ASSUME NEW c \in Config, CreatePlan(c) PROVE plans' \in Seq(Plan)
    <3>1. [config |-> c, scope |-> approved] \in Plan
      BY CreatedTypes
    <3> QED
      BY <2>1, <3>1, Appended DEF CreatePlan
  <2> QED
    BY <2>1, PlanWriters
<1>3. policies' \in Seq(MachinePolicy)
  <2>1. ASSUME NEW u \in User, NEW policy \in Policy, ApprovePolicy(u, policy)
        PROVE  policies' \in Seq(MachinePolicy)
    <3>1. [policy |-> policy, scope |-> approved, by |-> u] \in MachinePolicy
      BY CreatedTypes
    <3> QED
      BY <2>1, <3>1, Appended DEF ApprovePolicy
  <2> QED
    BY <2>1, PolicyWriters
<1> QED
  BY <1>1, <1>2, <1>3

\* Exceptions and grants keep their types, and refer to plans and policies that exist.
LEMMA PeopleTypesStep ==
  TypeOK /\ [Next]_vars =>
    /\ exceptions' \in Seq(ExceptionRecord)'
    /\ grants' \in Seq(Grant)'
<1> SUFFICES ASSUME TypeOK, [Next]_vars
             PROVE  exceptions' \in Seq(ExceptionRecord)' /\ grants' \in Seq(Grant)'
  OBVIOUS
<1>1. ExceptionRecord \subseteq ExceptionRecord' /\ Grant \subseteq Grant'
  <2>1. DOMAIN plans \subseteq DOMAIN plans' /\ DOMAIN policies \subseteq DOMAIN policies'
    BY KeptStep DEF Kept, PlansKept, PoliciesKept
  <2> QED
    BY <2>1 DEF ExceptionRecord, Grant
<1>2. /\ \A x \in DOMAIN exceptions : exceptions[x] \in ExceptionRecord
      /\ \A g \in DOMAIN grants : grants[g] \in Grant
  BY ElementOfSeq, LenProperties DEF TypeOK
<1>3. ExceptionTTL \in Nat /\ GrantTTL \in Nat
  BY ReleaseAssumption
<1>4. exceptions' \in Seq(ExceptionRecord)
  <2>1. ASSUME NEW u \in User, NEW n \in DOMAIN plans, NEW P \in SUBSET Property,
               NEW ttl \in 1..ExceptionTTL, RequestException(u, n, P, ttl)
        PROVE  exceptions' \in Seq(ExceptionRecord)
    <3>1. [plan |-> n, props |-> P, by |-> u, left |-> ttl, approvers |-> {},
           revoked |-> FALSE] \in ExceptionRecord
      BY CreatedTypes
    <3> QED
      BY <2>1, <3>1, Appended DEF RequestException, TypeOK
  <2>2. ASSUME NEW x \in DOMAIN exceptions, RevokeException(x)
        PROVE  exceptions' \in [DOMAIN exceptions -> ExceptionRecord]
    BY <1>2, <2>2 DEF RevokeException, ExceptionRecord
  <2>3. ASSUME NEW x \in DOMAIN exceptions, NEW u \in User, ApproveException(u, x)
        PROVE  exceptions' \in [DOMAIN exceptions -> ExceptionRecord]
    BY <1>2, <2>3 DEF ApproveException, ExceptionRecord
  <2>4. CASE Tick
    <3>1. \A x \in DOMAIN exceptions :
            [exceptions[x] EXCEPT !.left = IF @ = 0 THEN 0 ELSE @ - 1] \in ExceptionRecord
      BY <1>2, <1>3 DEF ExceptionRecord
    <3>2. exceptions' \in [DOMAIN exceptions -> ExceptionRecord]
      BY <2>4, <3>1 DEF Tick
    <3> QED
      BY <3>2, Mapped DEF TypeOK
  <2> QED
    BY <2>1, <2>2, <2>3, <2>4, ExceptionWriters, Mapped DEF TypeOK
<1>5. grants' \in Seq(Grant)
  <2>1. ASSUME NEW u \in User, NEW n \in DOMAIN plans, AuthorizeRelease(u, n)
        PROVE  grants' \in Seq(Grant)
    <3>1. [plan |-> n, epoch |-> Len(policies), by |-> u, scope |-> approved,
           left |-> GrantTTL, revoked |-> FALSE] \in Grant
      BY <2>1, CreatedTypes DEF AuthorizeRelease
    <3> QED
      BY <2>1, <3>1, Appended DEF AuthorizeRelease, TypeOK
  <2>2. ASSUME NEW g \in DOMAIN grants, RevokeAuthorization(g)
        PROVE  grants' \in [DOMAIN grants -> Grant]
    BY <1>2, <2>2 DEF RevokeAuthorization, Grant
  <2>3. CASE Tick
    <3>1. \A g \in DOMAIN grants :
            [grants[g] EXCEPT !.left = IF @ = 0 THEN 0 ELSE @ - 1] \in Grant
      BY <1>2, <1>3 DEF Grant
    <3>2. grants' \in [DOMAIN grants -> Grant]
      BY <2>3, <3>1 DEF Tick
    <3> QED
      BY <3>2, Mapped DEF TypeOK
  <2> QED
    BY <2>1, <2>2, <2>3, GrantWriters, Mapped DEF TypeOK
<1>6. /\ exceptions' \in Seq(ExceptionRecord')
      /\ grants' \in Seq(Grant')
  BY <1>1, <1>4, <1>5, SeqMonotonic
<1> QED
  BY <1>6

\* Releases keep their type, and refer to records that exist.
LEMMA ReleaseTypeStep == TypeOK /\ [Next]_vars => releases' \in Seq(Release)'
<1> SUFFICES ASSUME TypeOK, [Next]_vars PROVE releases' \in Seq(Release)'
  OBVIOUS
<1>1. Release \subseteq Release'
  <2>1. /\ DOMAIN plans \subseteq DOMAIN plans' /\ DOMAIN evidence \subseteq DOMAIN evidence'
        /\ DOMAIN exceptions \subseteq DOMAIN exceptions'
        /\ DOMAIN grants \subseteq DOMAIN grants'
    BY KeptStep DEF Kept, PlansKept, EvidenceKept, ExceptionsKept, GrantsKept
  <2>2. \A P \in SUBSET Property :
          [P -> DOMAIN evidence \cup {0}] \subseteq [P -> DOMAIN evidence' \cup {0}]
    BY <2>1
  <2>3. UNION {[P -> DOMAIN evidence \cup {0}] : P \in SUBSET Property}
          \subseteq UNION {[P -> DOMAIN evidence' \cup {0}] : P \in SUBSET Property}
    BY <2>2
  <2> DEFINE Rows == UNION {[P -> DOMAIN evidence \cup {0}] : P \in SUBSET Property}
             Rows1 == UNION {[P -> DOMAIN evidence' \cup {0}] : P \in SUBSET Property}
  <2>4. Rows \subseteq Rows1
    BY <2>3
  <2>5. /\ Release = [plan : DOMAIN plans, policy : Policy, rows : Rows,
                      exceptions : SUBSET DOMAIN exceptions,
                      grant : DOMAIN grants \cup {0},
                      underlying : {"ALLOW", "BLOCK"}, action : Actions]
        /\ Release' = [plan : DOMAIN plans', policy : Policy, rows : Rows1,
                       exceptions : SUBSET DOMAIN exceptions',
                       grant : DOMAIN grants' \cup {0},
                       underlying : {"ALLOW", "BLOCK"}, action : Actions]
    BY DEF Release, Actions
  <2> HIDE DEF Rows, Rows1
  <2> QED
    BY <2>1, <2>4, <2>5
<1>2. releases' \in Seq(Release)
  <2>1. ASSUME NEW u \in User, NEW n \in DOMAIN plans, NEW policy \in Policy,
               NEW xs \in SUBSET DOMAIN exceptions, IssueRelease(u, n, policy, xs)
        PROVE  releases' \in Seq(Release)
    <3>1. Decision(n, policy, xs, 0) \in Release
      BY DecisionType
    <3> QED
      BY <2>1, <3>1, Appended DEF IssueRelease, TypeOK
  <2>2. ASSUME NEW g \in DOMAIN grants, MachineDecision(g)
        PROVE  releases' \in Seq(Release)
    <3>1. Decision(grants[g].plan, policies[grants[g].epoch].policy, {}, g) \in Release
      BY GrantedTypes, DecisionType
    <3> QED
      BY <2>2, <3>1, Appended DEF MachineDecision, TypeOK
  <2> QED
    BY <2>1, <2>2, ReleaseWriters DEF TypeOK
<1>3. releases' \in Seq(Release')
  BY <1>1, <1>2, SeqMonotonic
<1> QED
  BY <1>3

\* Every step keeps the types.
LEMMA TypeStep == TypeOK /\ [Next]_vars => TypeOK'
<1> SUFFICES ASSUME TypeOK, [Next]_vars PROVE TypeOK'
  OBVIOUS
<1>1. /\ approved' \subseteq Property
      /\ failed' \subseteq Property \X Config
      /\ authorized' \in BOOLEAN
      /\ Owner \in security' /\ security' \subseteq User
  <2> USE DEF TypeOK
  <2>1. CASE Evidence
    <3>1. ASSUME NEW u \in User, ChangeRole(u)
          PROVE  Owner \in security' /\ security' \subseteq User
      BY <3>1 DEF ChangeRole
    <3>2. ASSUME NEW p \in Property, NEW c \in Config, CaptureFailure(p, c)
          PROVE  failed' \subseteq Property \X Config
      BY <3>2 DEF CaptureFailure
    <3>3. ASSUME NEW p \in Property, ApproveProperty(p) PROVE approved' \subseteq Property
      BY <3>3 DEF ApproveProperty
    <3>4. Owner \in security' /\ security' \subseteq User
      BY <2>1, <3>1 DEF Evidence, ApproveProperty, CaptureFailure, RecordEvidence,
                        ReviewScope, LoseAuthorization
    <3>5. failed' \subseteq Property \X Config
      BY <2>1, <3>2 DEF Evidence, ApproveProperty, RecordEvidence, ReviewScope,
                        LoseAuthorization, ChangeRole
    <3>6. approved' \subseteq Property
      BY <2>1, <3>3 DEF Evidence, CaptureFailure, RecordEvidence, ReviewScope,
                        LoseAuthorization, ChangeRole
    <3>7. authorized' \in BOOLEAN
      BY <2>1 DEF Evidence, ApproveProperty, CaptureFailure, RecordEvidence, ReviewScope,
                  LoseAuthorization, ChangeRole
    <3> QED
      BY <3>4, <3>5, <3>6, <3>7
  <2>2. CASE Exceptions
    BY <2>2 DEF Exceptions, RequestException, RevokeException, ApproveException
  <2>3. CASE Machine
    BY <2>3 DEF Machine, ApprovePolicy, AuthorizeRelease, RevokeAuthorization,
                MachineDecision
  <2>4. CASE Human
    BY <2>4 DEF Human, CreatePlan, IssueRelease
  <2>5. CASE Tick
    BY <2>5 DEF Tick
  <2>6. CASE UNCHANGED vars
    BY <2>6 DEF vars
  <2> QED
    BY <2>1, <2>2, <2>3, <2>4, <2>5, <2>6 DEF Next
<1> QED
  BY <1>1, PlainTypesStep, PeopleTypesStep, ReleaseTypeStep DEF TypeOK

\* Every record has its type and refers to records that exist.
THEOREM TypeCorrect == Spec => []TypeOK
<1> QED
  BY TypeInit, TypeStep, PTL DEF Spec

\* The ledger is append-only: no step of any handler removes a record or changes what
\* it says of its run, plan, people and scope.
THEOREM AppendOnly == Spec => [][Kept]_vars
<1>1. TypeOK /\ [Next]_vars => [Kept]_vars
  BY KeptStep
<1> QED
  BY <1>1, TypeCorrect, PTL DEF Spec

-----------------------------------------------------------------------------
(* The inductive invariant *)

LEMMA InvInit == Init => IInv
  BY DEF Init, IInv, OriginInv, GrantInv, ApproverInv, RowInv, MachineAsApproved

\* finish_run and review_scope give a run one age for all its evidence records.
LEMMA OriginStep == TypeOK /\ OriginInv /\ [Next]_vars => OriginInv'
<1> SUFFICES ASSUME TypeOK, OriginInv, [Next]_vars PROVE OriginInv'
  OBVIOUS
<1>1. ASSUME NEW p \in Property, NEW c \in Config, NEW good \in BOOLEAN,
             RecordEvidence(p, c, good)
      PROVE  OriginInv'
  <2> DEFINE e == [run |-> Len(evidence) + 1, property |-> p, config |-> c,
                   good |-> good, reviewed |-> FALSE, age |-> 0]
  <2>1. e \in EvidenceRecord /\ evidence' = Append(evidence, e)
    BY <1>1, CreatedTypes DEF RecordEvidence
  <2>2. e.run = Len(evidence) + 1
    OBVIOUS
  <2> HIDE DEF e
  <2>3. /\ DOMAIN evidence' = DOMAIN evidence \cup {Len(evidence) + 1}
        /\ \A j \in DOMAIN evidence : evidence'[j] = evidence[j]
        /\ evidence'[Len(evidence) + 1] = e
    BY <2>1, Appended DEF TypeOK
  <2> QED
    BY <2>2, <2>3 DEF OriginInv
<1>2. ASSUME NEW i \in DOMAIN evidence, ReviewScope(i) PROVE OriginInv'
  <2> DEFINE e == [evidence[i] EXCEPT !.reviewed = TRUE]
  <2>1. e \in EvidenceRecord /\ evidence' = Append(evidence, e)
    BY <1>2, CreatedTypes DEF ReviewScope
  <2>2. evidence[i] \in EvidenceRecord
    BY ElementOfSeq, LenProperties DEF TypeOK
  <2>3. e.run = evidence[i].run /\ e.age = evidence[i].age
    BY <2>2 DEF EvidenceRecord
  <2> HIDE DEF e
  <2>4. /\ DOMAIN evidence' = DOMAIN evidence \cup {Len(evidence) + 1}
        /\ \A j \in DOMAIN evidence : evidence'[j] = evidence[j]
        /\ evidence'[Len(evidence) + 1] = e
    BY <2>1, Appended DEF TypeOK
  <2> QED
    BY <2>3, <2>4 DEF OriginInv
<1>3. CASE Tick
  <2>1. \A i \in DOMAIN evidence : evidence[i] \in EvidenceRecord
    BY ElementOfSeq, LenProperties DEF TypeOK
  <2>2. DOMAIN evidence' = DOMAIN evidence
    BY <1>3 DEF Tick
  <2>3. \A i \in DOMAIN evidence :
          /\ evidence'[i].run = evidence[i].run
          /\ evidence'[i].age = IF evidence[i].age > Window THEN evidence[i].age
                                ELSE evidence[i].age + 1
    BY <1>3, <2>1 DEF Tick, EvidenceRecord
  <2> QED
    BY <2>2, <2>3 DEF OriginInv
<1>4. CASE evidence' = evidence
  BY <1>4 DEF OriginInv
<1> QED
  BY <1>1, <1>2, <1>3, <1>4, EvidenceWriters

\* authorize_release gives a grant for the scope its policy and plan have, and none of
\* the three changes.
LEMMA GrantStep == TypeOK /\ GrantInv /\ [Next]_vars => GrantInv'
<1> SUFFICES ASSUME TypeOK, GrantInv, [Next]_vars PROVE GrantInv'
  OBVIOUS
<1>1. ASSUME NEW g \in DOMAIN grants
      PROVE  /\ grants'[g].scope = policies'[grants'[g].epoch].scope
             /\ grants'[g].scope = plans'[grants'[g].plan].scope
  BY KeptStep, GrantedTypes DEF Kept, GrantsKept, PoliciesKept, PlansKept, GrantInv
<1>2. ASSUME NEW u \in User, NEW n \in DOMAIN plans, AuthorizeRelease(u, n)
      PROVE  GrantInv'
  <2> DEFINE gr == [plan |-> n, epoch |-> Len(policies), by |-> u, scope |-> approved,
                    left |-> GrantTTL, revoked |-> FALSE]
  <2>1. gr \in Grant /\ grants' = Append(grants, gr)
    BY <1>2, CreatedTypes DEF AuthorizeRelease
  <2>2. /\ gr.plan = n /\ gr.epoch = Len(policies) /\ gr.scope = approved
        /\ policies[Len(policies)].scope = approved /\ plans[n].scope = approved
        /\ policies' = policies /\ plans' = plans
    BY <1>2 DEF AuthorizeRelease
  <2> HIDE DEF gr
  <2>3. /\ DOMAIN grants' = DOMAIN grants \cup {Len(grants) + 1}
        /\ grants'[Len(grants) + 1] = gr
    BY <2>1, Appended DEF TypeOK
  <2> QED
    BY <1>1, <2>2, <2>3 DEF GrantInv
<1>3. CASE DOMAIN grants' = DOMAIN grants
  BY <1>1, <1>3 DEF GrantInv
<1>4. ASSUME NEW g \in DOMAIN grants, RevokeAuthorization(g)
      PROVE  DOMAIN grants' = DOMAIN grants
  BY <1>4 DEF RevokeAuthorization
<1>5. CASE Tick
  BY <1>3, <1>5 DEF Tick
<1> QED
  BY <1>2, <1>3, <1>4, <1>5, GrantWriters

\* approve_exception refuses the requester.
LEMMA ApproverStep == TypeOK /\ ApproverInv /\ [Next]_vars => ApproverInv'
<1> SUFFICES ASSUME TypeOK, ApproverInv, [Next]_vars PROVE ApproverInv'
  OBVIOUS
<1>1. \A x \in DOMAIN exceptions : exceptions[x] \in ExceptionRecord
  BY ElementOfSeq, LenProperties DEF TypeOK
<1>2. ASSUME NEW u \in User, NEW n \in DOMAIN plans, NEW P \in SUBSET Property,
             NEW ttl \in 1..ExceptionTTL, RequestException(u, n, P, ttl)
      PROVE  ApproverInv'
  <2> DEFINE ex == [plan |-> n, props |-> P, by |-> u, left |-> ttl, approvers |-> {},
                    revoked |-> FALSE]
  <2>1. ex \in ExceptionRecord /\ exceptions' = Append(exceptions, ex)
    BY <1>2, CreatedTypes DEF RequestException
  <2>2. ex.approvers = {}
    OBVIOUS
  <2> HIDE DEF ex
  <2> QED
    BY <2>1, <2>2, Appended DEF ApproverInv, TypeOK
<1>3. ASSUME NEW x \in DOMAIN exceptions, RevokeException(x) PROVE ApproverInv'
  BY <1>1, <1>3 DEF RevokeException, ExceptionRecord, ApproverInv
<1>4. ASSUME NEW x \in DOMAIN exceptions, NEW u \in User, ApproveException(u, x)
      PROVE  ApproverInv'
  BY <1>1, <1>4 DEF ApproveException, ExceptionRecord, ApproverInv
<1>5. CASE Tick
  BY <1>1, <1>5 DEF Tick, ExceptionRecord, ApproverInv
<1>6. CASE exceptions' = exceptions
  BY <1>6 DEF ApproverInv
<1> QED
  BY <1>2, <1>3, <1>4, <1>5, <1>6, ExceptionWriters

\* What a new release consists of.
LEMMA NewRelease ==
  ASSUME TypeOK, NEW n \in DOMAIN plans, NEW policy \in Policy,
         NEW xs \in SUBSET DOMAIN exceptions, NEW g \in DOMAIN grants \cup {0},
         releases' = Append(releases, Decision(n, policy, xs, g))
  PROVE  LET d == releases'[Len(releases) + 1]
         IN  /\ DOMAIN releases' = DOMAIN releases \cup {Len(releases) + 1}
             /\ Len(releases) + 1 \notin DOMAIN releases
             /\ \A r \in DOMAIN releases : releases'[r] = releases[r]
             /\ d = Decision(n, policy, xs, g)
             /\ d.plan = n /\ d.policy = policy /\ d.exceptions = xs /\ d.grant = g
             /\ d.rows = [p \in approved |-> Selected(p, plans[n].config)]
<1>1. Decision(n, policy, xs, g) \in Release
  BY DecisionType
<1>2. /\ DOMAIN releases' = DOMAIN releases \cup {Len(releases) + 1}
      /\ Len(releases) + 1 \notin DOMAIN releases
      /\ \A r \in DOMAIN releases : releases'[r] = releases[r]
      /\ releases'[Len(releases) + 1] = Decision(n, policy, xs, g)
  BY <1>1, Appended DEF TypeOK
<1>3. /\ Decision(n, policy, xs, g).plan = n /\ Decision(n, policy, xs, g).policy = policy
      /\ Decision(n, policy, xs, g).exceptions = xs /\ Decision(n, policy, xs, g).grant = g
      /\ Decision(n, policy, xs, g).rows
           = [p \in approved |-> Selected(p, plans[n].config)]
  BY DEF Decision
<1> QED
  BY <1>2, <1>3

\* Every handler that releases signs a decision about an existing plan.
LEMMA Releasing ==
  ASSUME TypeOK, [Next]_vars, releases' # releases
  PROVE  \E n \in DOMAIN plans, policy \in Policy, xs \in SUBSET DOMAIN exceptions,
            g \in DOMAIN grants \cup {0} :
           /\ releases' = Append(releases, Decision(n, policy, xs, g))
           /\ \A x \in xs : exceptions[x].plan = n /\ ActiveException(x)
           /\ g = 0 \/ /\ g # 0 /\ MachineDecision(g) /\ xs = {} /\ n = grants[g].plan
                       /\ policy = policies[grants[g].epoch].policy
           /\ UNCHANGED <<approved, evidence, failed, authorized, security, plans,
                          exceptions, policies, grants>>
<1>1. ASSUME NEW u \in User, NEW n \in DOMAIN plans, NEW policy \in Policy,
             NEW xs \in SUBSET DOMAIN exceptions, IssueRelease(u, n, policy, xs)
      PROVE  /\ releases' = Append(releases, Decision(n, policy, xs, 0))
             /\ \A x \in xs : exceptions[x].plan = n /\ ActiveException(x)
             /\ UNCHANGED <<approved, evidence, failed, authorized, security, plans,
                            exceptions, policies, grants>>
  BY <1>1 DEF IssueRelease
<1>2. ASSUME NEW g \in DOMAIN grants, MachineDecision(g)
      PROVE  /\ releases' = Append(releases,
                  Decision(grants[g].plan, policies[grants[g].epoch].policy, {}, g))
             /\ grants[g].plan \in DOMAIN plans
             /\ policies[grants[g].epoch].policy \in Policy
             /\ UNCHANGED <<approved, evidence, failed, authorized, security, plans,
                            exceptions, policies, grants>>
  BY <1>2, GrantedTypes DEF MachineDecision
<1>3. \A g \in DOMAIN grants : g # 0
  BY LenProperties DEF TypeOK
<1>4. CASE \E g \in DOMAIN grants : MachineDecision(g)
  <2>1. PICK g \in DOMAIN grants : MachineDecision(g)
    BY <1>4
  <2>2. {} \in SUBSET DOMAIN exceptions /\ g \in DOMAIN grants \cup {0} /\ g # 0
    BY <1>3
  <2> QED
    BY <2>1, <2>2, <1>2
<1>5. CASE \E u \in User, n \in DOMAIN plans, policy \in Policy,
              xs \in SUBSET DOMAIN exceptions : IssueRelease(u, n, policy, xs)
  BY <1>1, <1>5
<1> QED
  BY <1>4, <1>5, ReleaseWriters

\* issue_release writes rows of selected evidence, and refuses exceptions of other plans.
LEMMA RowStep == TypeOK /\ RowInv /\ [Next]_vars => RowInv'
<1> SUFFICES ASSUME TypeOK, RowInv, [Next]_vars PROVE RowInv'
  OBVIOUS
<1>1. ASSUME NEW r \in DOMAIN releases
      PROVE  /\ releases'[r] = releases[r]
             /\ \A p \in DOMAIN releases[r].rows : releases[r].rows[p] # 0 =>
                  evidence'[releases[r].rows[p]].property = p
             /\ \A x \in releases[r].exceptions : exceptions'[x].plan = releases[r].plan
  <2>1. releases[r] \in Release
    BY ElementOfSeq, LenProperties DEF TypeOK
  <2>2. /\ releases[r].exceptions \subseteq DOMAIN exceptions
        /\ \A p \in DOMAIN releases[r].rows :
             releases[r].rows[p] # 0 => releases[r].rows[p] \in DOMAIN evidence
    BY <2>1 DEF Release
  <2> QED
    BY <2>2, KeptStep DEF Kept, ReleasesKept, EvidenceKept, ExceptionsKept, RowInv
<1>2. CASE releases' = releases
  BY <1>1, <1>2 DEF RowInv
<1>3. CASE releases' # releases
  <2>1. PICK n \in DOMAIN plans, policy \in Policy, xs \in SUBSET DOMAIN exceptions,
            g \in DOMAIN grants \cup {0} :
           /\ releases' = Append(releases, Decision(n, policy, xs, g))
           /\ \A x \in xs : exceptions[x].plan = n /\ ActiveException(x)
           /\ evidence' = evidence /\ exceptions' = exceptions
    BY <1>3, Releasing
  <2>2. LET d == releases'[Len(releases) + 1]
        IN  /\ DOMAIN releases' = DOMAIN releases \cup {Len(releases) + 1}
            /\ d.plan = n /\ d.exceptions = xs
            /\ d.rows = [p \in approved |-> Selected(p, plans[n].config)]
    BY <2>1, NewRelease
  <2>3. \A p : Selected(p, plans[n].config) # 0 =>
                 evidence[Selected(p, plans[n].config)].property = p
    BY SelectedIs
  <2> QED
    BY <1>1, <2>1, <2>2, <2>3 DEF RowInv
<1> QED
  BY <1>2, <1>3

\* machine_decision uses a grant once and follows it.
LEMMA MachineStep ==
  TypeOK /\ GrantInv /\ MachineAsApproved /\ [Next]_vars => MachineAsApproved'
<1> SUFFICES ASSUME TypeOK, GrantInv, MachineAsApproved, [Next]_vars
             PROVE  MachineAsApproved'
  OBVIOUS
<1> DEFINE Follows(s, gs, ps, ns) ==
             /\ s.plan = gs[s.grant].plan /\ s.exceptions = {}
             /\ s.policy = ps[gs[s.grant].epoch].policy
             /\ DOMAIN s.rows = ps[gs[s.grant].epoch].scope
             /\ DOMAIN s.rows = ns[gs[s.grant].plan].scope
<1>1. ASSUME NEW r \in DOMAIN releases, releases[r].grant # 0
      PROVE  /\ releases'[r] = releases[r]
             /\ releases[r].grant \in DOMAIN grants
             /\ Follows(releases[r], grants', policies', plans')
  <2>1. releases[r] \in Release
    BY ElementOfSeq, LenProperties DEF TypeOK
  <2>2. releases[r].grant \in DOMAIN grants
    BY <1>1, <2>1 DEF Release
  <2>3. Follows(releases[r], grants, policies, plans)
    BY <1>1 DEF MachineAsApproved
  <2> DEFINE g == releases[r].grant
  <2>4. /\ grants'[g].plan = grants[g].plan /\ grants'[g].epoch = grants[g].epoch
        /\ policies'[grants[g].epoch] = policies[grants[g].epoch]
        /\ plans'[grants[g].plan] = plans[grants[g].plan]
    BY <2>2, KeptStep, GrantedTypes DEF Kept, GrantsKept, PoliciesKept, PlansKept
  <2>5. releases'[r] = releases[r]
    BY KeptStep DEF Kept, ReleasesKept
  <2> QED
    BY <2>2, <2>3, <2>4, <2>5
<1>2. \A r \in DOMAIN releases : releases'[r] = releases[r]
  BY KeptStep DEF Kept, ReleasesKept
<1>3. CASE releases' = releases
  BY <1>1, <1>3 DEF MachineAsApproved
<1>4. CASE releases' # releases
  <2>1. PICK n \in DOMAIN plans, policy \in Policy, xs \in SUBSET DOMAIN exceptions,
            g \in DOMAIN grants \cup {0} :
           /\ releases' = Append(releases, Decision(n, policy, xs, g))
           /\ g = 0 \/ /\ g # 0 /\ MachineDecision(g) /\ xs = {} /\ n = grants[g].plan
                       /\ policy = policies[grants[g].epoch].policy
           /\ UNCHANGED <<plans, policies, grants>>
    BY <1>4, Releasing
  <2> DEFINE m == Len(releases) + 1
  <2>2. /\ DOMAIN releases' = DOMAIN releases \cup {m} /\ m \notin DOMAIN releases
        /\ releases'[m].plan = n /\ releases'[m].policy = policy
        /\ releases'[m].exceptions = xs /\ releases'[m].grant = g
        /\ DOMAIN releases'[m].rows = approved
    BY <2>1, NewRelease
  <2> HIDE DEF m
  <2>3. CASE g = 0
    BY <1>1, <1>2, <2>2, <2>3 DEF MachineAsApproved
  <2>4. CASE g # 0
    <3>1. /\ MachineDecision(g) /\ xs = {} /\ n = grants[g].plan
          /\ policy = policies[grants[g].epoch].policy
          /\ g \in DOMAIN grants
      BY <2>1, <2>4
    <3>2. /\ approved = grants[g].scope
          /\ \A q \in DOMAIN releases : releases[q].grant # g
      BY <3>1 DEF MachineDecision, Used
    <3>3. /\ approved = policies[grants[g].epoch].scope
          /\ approved = plans[grants[g].plan].scope
      BY <3>1, <3>2 DEF GrantInv
    <3>4. Follows(releases'[m], grants', policies', plans')
      BY <2>1, <2>2, <3>1, <3>3
    <3>5. ASSUME NEW r \in DOMAIN releases', releases'[r].grant # 0
          PROVE  /\ Follows(releases'[r], grants', policies', plans')
                 /\ \A q \in DOMAIN releases' :
                      releases'[q].grant = releases'[r].grant => q = r
      <4>1. CASE r = m
        BY <1>2, <2>2, <3>2, <3>4, <4>1
      <4>2. CASE r \in DOMAIN releases
        <5>1. Follows(releases'[r], grants', policies', plans')
          BY <1>1, <1>2, <3>5, <4>2
        <5>2. \A q \in DOMAIN releases : releases[q].grant = releases[r].grant => q = r
          BY <1>2, <3>5, <4>2 DEF MachineAsApproved
        <5> HIDE DEF Follows
        <5> QED
          BY <5>1, <5>2, <1>2, <2>2, <3>2, <4>2
      <4> QED
        BY <2>2, <4>1, <4>2
    <3> QED
      BY <3>5 DEF MachineAsApproved
  <2> QED
    BY <2>3, <2>4
<1> QED
  BY <1>3, <1>4

\* The invariant holds in every reachable state.
THEOREM Invariance == Spec => [](TypeOK /\ IInv)
<1>1. Init => TypeOK /\ IInv
  BY TypeInit, InvInit
<1>2. TypeOK /\ IInv /\ [Next]_vars => (TypeOK /\ IInv)'
  BY TypeStep, OriginStep, GrantStep, ApproverStep, RowStep, MachineStep DEF IInv
<1> QED
  BY <1>1, <1>2, PTL DEF Spec

\* A machine decides what people approved, under the policy and scope in force when the
\* grant was given, without exceptions, and once for a grant.
THEOREM MachineAsApprovedAlways == Spec => []MachineAsApproved
<1>1. TypeOK /\ IInv => MachineAsApproved
  BY DEF IInv
<1> QED
  BY <1>1, Invariance, PTL

-----------------------------------------------------------------------------
(* What a reading relies on *)

\* Usable evidence of a property, without a failure, establishes it.
LEMMA UsableEstablishes ==
  ASSUME TypeOK, OriginInv, NEW i \in DOMAIN evidence, NEW c,
         Usable(i, c), <<evidence[i].property, c>> \notin failed
  PROVE  Established(evidence[i].property, c)
<1>1. /\ authorized /\ evidence[i].good /\ evidence[i].age <= Window
      /\ evidence[i].config = c \/ <<evidence[i].property, evidence[i].config, c>> \in Reuse
      /\ <<evidence[i].property, evidence[i].config>> \notin failed
  BY DEF Usable, StillValid
<1>2. PICK j \in DOMAIN evidence : evidence[j].config = c /\ evidence[j].age <= Window
  BY DEF Usable, Anchored
<1>3. \A k \in DOMAIN evidence : evidence[evidence[k].run].age = evidence[k].age
  BY DEF OriginInv
<1> QED
  BY <1>1, <1>2, <1>3 DEF Established

\* The parts of a reading of release r: its rows and the state around them.
Reads(s, p) ==
    IF s.rows[p] # 0 /\ <<p, plans[s.plan].config>> \notin failed
         /\ Usable(s.rows[p], plans[s.plan].config)
    THEN "ALLOW" ELSE "BLOCK"
Excused(s) ==
    IF \A x \in s.exceptions : ActiveException(x) THEN Exempt(s.exceptions) ELSE {}
Unsettled(s) == \/ approved # DOMAIN s.rows \/ approved = {}
                \/ s.grant # 0 /\ Lapsed(s.grant)
ReadAction(s) ==
    IF ~Unsettled(s)
    THEN Worst({RowAction(Reads(s, p), ModeOf(s.policy, p), p \in Excused(s)) :
                  p \in DOMAIN s.rows})
    ELSE IF GateEnforced(s.policy) THEN "BLOCK" ELSE "WARN"

LEMMA CurrentParts ==
  ASSUME NEW s
  PROVE  /\ Current(s).action = Worst({ReadAction(s), s.action})
         /\ Current(s).underlying =
              IF ~Unsettled(s) /\ \A p \in DOMAIN s.rows : Reads(s, p) = "ALLOW"
              THEN "ALLOW" ELSE "BLOCK"
         /\ Current(s) = [action |-> Current(s).action,
                          underlying |-> Current(s).underlying]
  BY DEF Current, ReadAction, Unsettled, Excused, Reads

\* A row that reads ALLOW stands on established evidence.
LEMMA RowEstablished ==
  ASSUME TypeOK, IInv, NEW r \in DOMAIN releases, NEW p \in DOMAIN releases[r].rows,
         Reads(releases[r], p) = "ALLOW"
  PROVE  Established(p, plans[releases[r].plan].config)
<1>1. releases[r] \in Release
  BY ElementOfSeq, LenProperties DEF TypeOK
<1>2. /\ releases[r].rows[p] # 0 /\ <<p, plans[releases[r].plan].config>> \notin failed
      /\ Usable(releases[r].rows[p], plans[releases[r].plan].config)
  BY DEF Reads
<1>3. /\ releases[r].rows[p] \in DOMAIN evidence
      /\ evidence[releases[r].rows[p]].property = p
  BY <1>1, <1>2 DEF Release, IInv, RowInv
<1> QED
  BY <1>2, <1>3, UsableEstablishes DEF IInv

\* A release that reads ALLOW has current evidence for every property approved by now:
\* current_release_assessment.
THEOREM AllowIsProvenAlways == Spec => []AllowIsProven
<1>1. TypeOK /\ IInv => AllowIsProven
  <2> SUFFICES ASSUME TypeOK, IInv, NEW r \in DOMAIN releases,
                      Current(releases[r]).underlying = "ALLOW", NEW p \in approved
               PROVE  Established(p, plans[releases[r].plan].config)
    BY Zenon DEF AllowIsProven
  <2>1. /\ ~Unsettled(releases[r])
        /\ \A q \in DOMAIN releases[r].rows : Reads(releases[r], q) = "ALLOW"
    BY CurrentParts
  <2>2. p \in DOMAIN releases[r].rows
    BY <2>1 DEF Unsettled
  <2> QED
    BY <2>1, <2>2, RowEstablished
<1> QED
  BY <1>1, Invariance, PTL

\* The gate of current_release_assessment: a property that the policy blocks on keeps the
\* release blocked unless it is established or a second person stands behind a bypass.
THEOREM GateHoldsAlways == Spec => []GateHolds
<1>1. TypeOK /\ IInv => GateHolds
  <2> SUFFICES ASSUME TypeOK, IInv, NEW r \in DOMAIN releases,
                      Current(releases[r]).action # "BLOCK", NEW p \in approved,
                      ModeOf(releases[r].policy, p) = "BLOCK",
                      ~Established(p, plans[releases[r].plan].config)
               PROVE  Bypassed(r, p)
    BY Zenon DEF GateHolds
  <2> DEFINE s == releases[r]
  <2>1. s \in Release
    BY ElementOfSeq, LenProperties DEF TypeOK
  <2>2. ReadAction(s) # "BLOCK"
    BY CurrentParts DEF Worst
  <2>3. GateEnforced(s.policy)
    BY DEF ModeOf, GateEnforced
  <2>4. ~Unsettled(s)
    BY <2>2, <2>3 DEF ReadAction
  <2>5. p \in DOMAIN s.rows
    BY <2>4 DEF Unsettled
  <2> DEFINE Act(q) == RowAction(Reads(s, q), ModeOf(s.policy, q), q \in Excused(s))
  <2>6. Act(p) # "BLOCK"
    <3> HIDE DEF Act
    <3>1. ReadAction(s) = Worst({Act(q) : q \in DOMAIN s.rows})
      BY <2>4 DEF ReadAction, Act
    <3>2. "BLOCK" \notin {Act(q) : q \in DOMAIN s.rows}
      BY <2>2, <3>1 DEF Worst
    <3> QED
      BY <2>5, <3>2
  <2>7. Reads(s, p) # "ALLOW"
    BY <2>5, RowEstablished
  <2>8. p \in Excused(s)
    BY <2>6, <2>7 DEF RowAction
  <2>9. PICK x \in s.exceptions : p \in exceptions[x].props
    BY <2>8 DEF Excused, Exempt
  <2>10. ActiveException(x)
    BY <2>8 DEF Excused
  <2>11. /\ x \in DOMAIN exceptions /\ exceptions[x].plan = s.plan
         /\ exceptions[x].by \notin exceptions[x].approvers
    BY <2>1, <2>9 DEF Release, IInv, RowInv, ApproverInv
  <2> QED
    BY <2>9, <2>10, <2>11 DEF ActiveException, Bypassed
<1> QED
  BY <1>1, Invariance, PTL

\* The same state reads a release the same.
LEMMA ReadUnchanged ==
  ASSUME NEW s, UNCHANGED <<approved, evidence, failed, authorized, security, plans,
                            exceptions, policies, grants>>
  PROVE  Current(s)' = Current(s)
  BY DEF Current, Usable, Anchored, StillValid, ActiveException, Exempt, Lapsed

\* A decision reads as signed in the state it was signed in.
LEMMA DecisionReads ==
  ASSUME TypeOK, NEW n \in DOMAIN plans, NEW policy \in Policy,
         NEW xs \in SUBSET DOMAIN exceptions, NEW g \in DOMAIN grants \cup {0},
         \A x \in xs : ActiveException(x),
         g # 0 => ~Lapsed(g),
         plans[n].scope = approved, approved # {}, plans[n].config \notin Unbound,
         NEW d, d = Decision(n, policy, xs, g)
  PROVE  Current(d) = [action |-> d.action, underlying |-> d.underlying]
<1> DEFINE c == plans[n].config
           rows == [p \in approved |-> Selected(p, c)]
           Row(p) == IF rows[p] # 0 /\ <<p, c>> \notin failed THEN "ALLOW" ELSE "BLOCK"
           Act(p) == RowAction(Row(p), ModeOf(policy, p), p \in Exempt(xs))
<1>1. /\ d.plan = n /\ d.policy = policy /\ d.exceptions = xs /\ d.grant = g
      /\ d.rows = rows
  BY DEF Decision
<1>2. d.action = Worst({Act(p) : p \in approved})
  BY DEF Decision
<1>3. d.underlying = IF \A p \in approved : Row(p) = "ALLOW" THEN "ALLOW" ELSE "BLOCK"
  BY DEF Decision
<1>4. \A p \in approved : Reads(d, p) = Row(p)
  BY <1>1, SelectedIs DEF Reads
<1>5. Excused(d) = Exempt(xs)
  BY <1>1 DEF Excused
<1>6. ~Unsettled(d)
  BY <1>1 DEF Unsettled
<1>7. DOMAIN d.rows = approved
  BY <1>1
<1>8. ReadAction(d) = d.action
  <2>1. \A p \in approved :
          RowAction(Reads(d, p), ModeOf(d.policy, p), p \in Excused(d)) = Act(p)
    BY <1>1, <1>4, <1>5
  <2> HIDE DEF Act
  <2>2. {RowAction(Reads(d, p), ModeOf(d.policy, p), p \in Excused(d)) : p \in DOMAIN d.rows}
          = {Act(p) : p \in approved}
    BY <2>1, <1>7
  <2> QED
    BY <2>2, <1>2, <1>6 DEF ReadAction
<1>9. Worst({d.action, d.action}) = d.action
  BY <1>2 DEF Worst
<1>10. Current(d).action = d.action
  BY <1>8, <1>9, CurrentParts
<1>11. Current(d).underlying = d.underlying
  <2> HIDE DEF Row
  <2> QED
    BY <1>3, <1>4, <1>6, <1>7, CurrentParts
<1> QED
  BY <1>10, <1>11, CurrentParts

\* issue_release and current_release_assessment agree on a release at its signing, for a
\* bound candidate and a plan whose scope is up to date.
THEOREM FreshReceiptAgreesAlways == Spec => FreshReceiptAgrees
<1>1. ASSUME TypeOK, [Next]_vars
      PROVE  \A r \in DOMAIN releases' \ DOMAIN releases : SignedAsRead(r)'
  <2> SUFFICES ASSUME NEW r \in DOMAIN releases' \ DOMAIN releases PROVE SignedAsRead(r)'
    OBVIOUS
  <2>1. PICK n \in DOMAIN plans, policy \in Policy, xs \in SUBSET DOMAIN exceptions,
            g \in DOMAIN grants \cup {0} :
           /\ releases' = Append(releases, Decision(n, policy, xs, g))
           /\ \A x \in xs : exceptions[x].plan = n /\ ActiveException(x)
           /\ g = 0 \/ /\ g # 0 /\ MachineDecision(g) /\ xs = {} /\ n = grants[g].plan
                       /\ policy = policies[grants[g].epoch].policy
           /\ UNCHANGED <<approved, evidence, failed, authorized, security, plans,
                          exceptions, policies, grants>>
    BY <1>1, Releasing
  <2>2. PICK d : d = Decision(n, policy, xs, g)
    OBVIOUS
  <2>3. releases'[r] = d /\ d.plan = n
    <3>1. /\ DOMAIN releases' = DOMAIN releases \cup {Len(releases) + 1}
          /\ releases'[Len(releases) + 1] = Decision(n, policy, xs, g)
          /\ releases'[Len(releases) + 1].plan = n
      BY <1>1, <2>1, NewRelease
    <3> QED
      BY <2>2, <3>1
  <2>4. g # 0 => ~Lapsed(g)
    <3>1. g # 0 => grants[g].left > 0 /\ MachineDecision(g)
      BY <2>1 DEF MachineDecision
    <3> QED
      BY <3>1 DEF MachineDecision, Lapsed
  <2>5. /\ Current(d)' = Current(d)
    BY <2>1, ReadUnchanged
  <2>6. ASSUME plans[n].scope = approved, approved # {}, plans[n].config \notin Unbound
        PROVE  Current(d)' = [action |-> d.action, underlying |-> d.underlying]
    BY <1>1, <2>1, <2>2, <2>4, <2>5, <2>6, DecisionReads
  <2> QED
    BY <2>1, <2>3, <2>6 DEF SignedAsRead
<1>2. TypeOK /\ [Next]_vars
        => [\A r \in DOMAIN releases' \ DOMAIN releases : SignedAsRead(r)']_vars
  BY <1>1
<1> QED
  BY <1>2, TypeCorrect, PTL DEF Spec, FreshReceiptAgrees

-----------------------------------------------------------------------------
(* With the judgement of invalidate() in the place of Reuse *)

\* The components of the arguments of a reviewed change.
LEMMA ArgumentParts ==
  ASSUME ReuseIsJudged, NEW t \in Reuse
  PROVE  /\ DOMAIN Arguments[t].old \subseteq Part /\ DOMAIN Arguments[t].new \subseteq Part
         /\ DOMAIN Arguments[t].scope.bindings \subseteq Part
         /\ \A k \in DOMAIN Arguments[t].old : Arguments[t].old[k].dependencies \subseteq Part
         /\ \A k \in DOMAIN Arguments[t].new : Arguments[t].new[k].dependencies \subseteq Part
<1>1. /\ Arguments[t].old \in J(t)!Fingerprint /\ Arguments[t].new \in J(t)!Fingerprint
      /\ Arguments[t].scope \in J(t)!Scope
  BY DEF ReuseIsJudged, J!Call
<1>2. ASSUME NEW f \in J(t)!Fingerprint
      PROVE  DOMAIN f \subseteq Part /\ \A k \in DOMAIN f : f[k].dependencies \subseteq Part
  <2>1. PICK C \in SUBSET Part : f \in [C -> J(t)!Entry]
    BY DEF J!Fingerprint
  <2> QED
    BY <2>1 DEF J!Entry
<1>3. DOMAIN Arguments[t].scope.bindings \subseteq Part
  <2>1. Arguments[t].scope.bindings \in UNION {[C -> SUBSET Content] : C \in SUBSET Part}
    BY <1>1 DEF J!Scope
  <2>2. PICK C \in SUBSET Part : Arguments[t].scope.bindings \in [C -> SUBSET Content]
    BY <2>1
  <2> QED
    BY <2>2
<1> QED
  BY <1>1, <1>2, <1>3

\* What is judged to be still valid has an unaffected surface.
LEMMA ReusedIsUnaffected ==
  ASSUME ReuseIsJudged, NEW t \in Reuse
  PROVE  SurfaceUnaffected(t)
<1> DEFINE S == J(t)!Surface
           before == Arguments[t].old
           after == Arguments[t].new
<1>1. J(t)!Judgement = "STILL_VALID"
  BY DEF ReuseIsJudged
<1>2. \A k \in J(t)!Changed \cap S : J(t)!Compatible(k)
  BY <1>1 DEF J!Judgement
<1>3. S \subseteq J(t)!Listed /\ ~J(t)!Unjudgeable
  BY <1>1 DEF J!Judgement
<1>4. S \subseteq Part
  BY DEF J!Surface
<1>5. J(t)!Closed(S)
  <2>1. J(t)!Roots \subseteq S
    <3>1. J(t)!Roots \subseteq Part
      BY ArgumentParts DEF J!Roots, J!Listed, J!Bound, J!old, J!new, J!scope
    <3> QED
      BY <3>1 DEF J!Surface, J!Closed
  <2>2. ASSUME NEW k \in S PROVE J(t)!DependsOn(k) \subseteq S
    <3>1. J(t)!DependsOn(k) \subseteq Part
      BY ArgumentParts DEF J!DependsOn, J!old, J!new
    <3>2. \A R \in SUBSET Part : J(t)!Closed(R) => J(t)!DependsOn(k) \subseteq R
      BY <2>2 DEF J!Surface, J!Closed
    <3> QED
      BY <3>1, <3>2 DEF J!Surface
  <2> QED
    BY <2>1, <2>2 DEF J!Closed
<1>6. ASSUME NEW k \in S PROVE J(t)!Unaffected(k)
  <2>1. /\ \A j \in DOMAIN before : before[j].known
        /\ \A j \in DOMAIN after : after[j].known
    BY <1>3 DEF J!Unjudgeable, J!old, J!new
  <2>2. k \in J(t)!Listed
    BY <1>3
  <2>3. CASE k \in J(t)!Changed
    <3>1. J(t)!Compatible(k)
      BY <1>2, <2>3
    <3> QED
      BY <2>1, <3>1 DEF J!Compatible, J!Unaffected, J!old, J!new
  <2>4. CASE k \notin J(t)!Changed
    <3>1. J(t)!SameContent(k)
      BY <2>2, <2>4 DEF J!Changed
    <3> QED
      BY <2>1, <3>1 DEF J!SameContent, J!Unaffected, J!old, J!new
  <2> QED
    BY <2>3, <2>4
<1> QED
  BY <1>4, <1>5, <1>6 DEF SurfaceUnaffected

\* An ALLOW rests on runs of which nothing has changed without a review, whatever the
\* fingerprints and the reviewed scopes: assess_plan, invalidate and
\* current_release_assessment together.
THEOREM AllowRestsOnSurfacesAlways == Spec /\ []ReuseIsJudged => []AllowRestsOnSurfaces
<1>1. AllowIsProven /\ ReuseIsJudged => AllowRestsOnSurfaces
  <2> SUFFICES ASSUME AllowIsProven, ReuseIsJudged, NEW r \in DOMAIN releases,
                      Current(releases[r]).underlying = "ALLOW", NEW p \in approved
               PROVE  \E i \in DOMAIN evidence :
                        /\ evidence[i].property = p /\ evidence[i].good
                        /\ evidence[evidence[i].run].age <= Window
                        /\ \/ evidence[i].config = plans[releases[r].plan].config
                           \/ SurfaceUnaffected(<<p, evidence[i].config, plans[releases[r].plan].config>>)
    BY DEF AllowRestsOnSurfaces
  <2>1. Established(p, plans[releases[r].plan].config)
    BY DEF AllowIsProven
  <2>2. PICK i \in DOMAIN evidence :
          /\ evidence[i].property = p /\ evidence[i].good
          /\ evidence[evidence[i].run].age <= Window
          /\ \/ evidence[i].config = plans[releases[r].plan].config
             \/ <<p, evidence[i].config, plans[releases[r].plan].config>> \in Reuse
    BY <2>1 DEF Established
  <2> QED
    BY <2>2, ReusedIsUnaffected
<1> QED
  BY <1>1, AllowIsProvenAlways, PTL
=============================================================================
