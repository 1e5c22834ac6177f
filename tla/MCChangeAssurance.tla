------------------------- MODULE MCChangeAssurance -------------------------
(***************************************************************************)
(* Instances of ChangeAssurance for TLC.  A behaviour starts where the     *)
(* handlers have established a baseline and decided on it, and goes on     *)
(* with the records its profile is about.                                  *)
(***************************************************************************)
EXTENDS ChangeAssurance, TLC

CONSTANTS p1, p2, k1, k2, f, base, cand

MCDepends == p1 :> {k1, k2} @@ p2 :> {k2}
\* The candidate changes one component.
MCCaptured == base :> (k1 :> 1 @@ k2 :> 1) @@ cand :> (k1 :> 2 @@ k2 :> 1)

VARIABLE profile

Success(p, c) == [kind |-> "evidence_record", property |-> p, config |-> c,
                  security |-> "PASS", task |-> "SUCCESS", expires |-> EvidenceTTL]
\* save_envelope, RecordEvidence, save_state, create_release and decide, for
\* properties in the order of ps.
Decided(ps) ==
    LET n == 2 + Len(ps)
        proof == [p \in {ps[i] : i \in DOMAIN ps} |->
                    2 + (CHOOSE i \in DOMAIN ps : ps[i] = p)]
    IN  <<Batch(FirstSnapshot, Component, FALSE, 0, TRUE),
          [kind |-> "permission_envelope", expires |-> 2]>>
        \o [i \in DOMAIN ps |-> Success(ps[i], base)]
        \o <<[kind |-> "system_state", config |-> base, envelope |-> 2, evidence |-> 3,
              observed |-> TRUE, expires |-> EvidenceTTL, complete |-> TRUE],
             [kind |-> "release", config |-> base, rows |-> proof],
             [kind |-> "authorization_decision", state |-> n + 1, release |-> n + 2,
              prior |-> 0, action |-> "ALLOW", expires |-> DecisionTTL,
              support |-> [p \in DOMAIN proof |->
                             <<proof[p], "CURRENT", "PASS", "SUCCESS", TRUE>>]]>>

\* Changes of the source around a decision, and what reviewers say they reach.
Changing == [name |-> "changing", approved |-> {p1, p2}, start |-> Decided(<<p1, p2>>)]
\* States recorded while, and after, the source reports the candidate.
Reconciling == [name |-> "reconciling", approved |-> {p1},
                start |-> Append(Decided(<<p1>>), Success(p1, cand))]
\* Decisions and activations racing for an epoch.
Activating == [name |-> "activating", approved |-> {p1}, start |-> Decided(<<p1>>)]
\* States and releases of a second configuration, and failures.
Renewing == [name |-> "renewing", approved |-> {p1},
             start |-> Append(Decided(<<p1>>), Success(p1, cand))]
\* Another authority, which makes everything be established again.
Reviewing == [name |-> "reviewing", approved |-> {p1},
              start |-> Append(Decided(<<p1>>),
                               [kind |-> "permission_envelope", expires |-> 2])]
\* Another property.
Approving == [name |-> "approving", approved |-> {p1}, start |-> Decided(<<p1>>)]

Fits(r) ==
    CASE profile.name = "changing" ->
           \/ /\ r.kind = "source_batch" /\ (r.valid = 0 => ~r.conservative)
              /\ r.value[k1] = 1 \/ (r.conservative /\ r.value[k2] = 1 /\ r.value[f] = 0)
           \/ r.kind = "dependency_mapping" /\ r.subject = f
           \/ r.kind = "authorization_decision" /\ r.prior = 0
      [] profile.name = "reconciling" ->
           \/ r.kind = "source_batch" /\ r.value[k2] = 1 /\ r.value[f] = 0 /\ ~r.conservative
           \/ r.kind = "system_state" /\ r.complete /\ r.observed
           \/ r.kind = "authorization_decision" /\ r.prior = 0
      [] profile.name = "activating" ->
           r.kind \in {"authorization_decision", "enforcement_request", "status_event"}
      [] profile.name = "renewing" ->
           \/ r.kind = "evidence_record" /\ r.config = cand
           \/ r.kind = "system_state" /\ r.complete /\ r.observed
           \/ r.kind \in {"change_event", "release"}
           \/ r.kind = "authorization_decision" /\ r.prior = 0
      [] profile.name = "reviewing" ->
           \/ r.kind = "permission_envelope"
           \/ r.kind = "system_state" /\ r.config = base /\ r.complete /\ r.evidence # 0
           \/ r.kind = "evidence_record" /\ r.config = base
                /\ r.security # "INCONCLUSIVE" /\ r.task = "SUCCESS"
           \/ r.kind = "authorization_decision" /\ r.prior = 0
      [] profile.name = "approving" ->
           \/ r.kind = "release" /\ r.config = base
           \/ r.kind = "evidence_record" /\ r.property = p2 /\ r.config = base
                /\ r.security # "INCONCLUSIVE" /\ r.task = "SUCCESS"
           \/ r.kind = "system_state" /\ r.config = base /\ r.envelope # 0
                /\ r.evidence # 0 /\ (r.complete \/ r.observed)
           \/ r.kind = "authorization_decision" /\ r.prior = 0

Within == /\ log = profile.start \/ Fits(log[Len(log)])
          /\ freshness = "CURRENT" \/ (profile.name = "changing" /\ Len(log) < MaxLog)
          /\ approved = profile.approved \/ profile.name = "approving"
          /\ clock = 0 \/ profile.name \in {"activating", "renewing", "reviewing"}
MCInit ==
    /\ profile \in {Changing, Reconciling, Activating, Renewing, Reviewing, Approving}
    /\ approved = profile.approved /\ log = profile.start
    /\ pending = 0 /\ freshness = "CURRENT" /\ clock = 0
MCNext == UNCHANGED profile /\ Next /\ Within'
MCSpec == MCInit /\ [][MCNext]_<<vars, profile>>
=============================================================================
