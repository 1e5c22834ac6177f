-------------------------- MODULE ChangeAssurance --------------------------
(***************************************************************************)
(* Assurance of one system in one environment while it changes: permission *)
(* envelopes, exact states, transitions, source changes with their         *)
(* reviewed mappings, signed decisions, their status, activation and       *)
(* revocation (change_assurance.py, change_assurance_api.py), and the      *)
(* gate a machine asks (assurance_intelligence.py).                        *)
(*                                                                         *)
(* Records are only ever appended, and what they mean is computed when     *)
(* they are read.  log holds them in the order of created_at; a record is  *)
(* named by its position, 0 stands for none.  Every handler that writes    *)
(* here holds the system's lock and is one action.  Source ingestion does  *)
(* not take that lock: its record is stamped when it is written and seen   *)
(* by others when its transaction commits.                                 *)
(*                                                                         *)
(* A configuration stands for a candidate with its complete fingerprint.   *)
(* One target, bound to the environment; evidence is usable only for its   *)
(* own configuration (ReleaseIntegrity has the reuse across them).         *)
(***************************************************************************)
EXTENDS Integers, Sequences, FiniteSetsExt

CONSTANTS
    Property, Config,
    Base,         \* the configuration the source showed first
    Component,    \* what a reviewed dependency, and a source, can name
    Foreign,      \* what only a source names
    Value,        \* digests of a component, positive numbers
    Depends,      \* Depends[p]: the reviewed dependencies of property p
    Captured,     \* Captured[c][k]: the digest of k in the fingerprint of c
    EvidenceTTL, DecisionTTL,
    EnvelopeTTL,  \* the lifetimes reviewers give to an envelope
    MaxLog, MaxClock

Subject == Component \cup Foreign

ASSUME ChangeAssuranceAssumption ==
    /\ Base \in Config
    /\ Depends \in [Property -> SUBSET Component]
    /\ Value \subseteq Nat \ {0} /\ Value # {}
    /\ "connector_configuration" \notin Subject
    /\ Captured \in [Config -> [Component -> Value]]
    /\ {EvidenceTTL, DecisionTTL} \cup EnvelopeTTL \subseteq Nat \ {0}
    /\ MaxLog \in Nat /\ MaxClock \in Nat

VARIABLES
    approved,  \* the approved properties of the system
    log,       \* the records of the environment, never rewritten
    pending,   \* the position of a source batch that is not committed, or 0
    freshness, \* of the connected source: CURRENT, STALE or UNKNOWN
    clock

vars == <<approved, log, pending, freshness, clock>>

\* A snapshot of a source says of each subject its digest, or 0: not there.
Nothing == [x \in Subject |-> 0]
FirstSnapshot ==
    [x \in Subject |-> IF x \in Component
                       THEN Captured[Base][x] ELSE 0]
\* What persist_batch and reconfigure append: a snapshot, the subjects that changed,
\* and whether it is a gap or a reconfiguration, which no fact scopes.
Batch(value, changed, conservative, valid, projects) ==
    [kind |-> "source_batch", value |-> value, changed |-> changed,
     conservative |-> conservative, valid |-> valid, projects |-> projects]

\* A source is connected and has reported once.
Init ==
    /\ approved = {}
    /\ log = <<Batch(FirstSnapshot, Component, FALSE, 0, TRUE)>>
    /\ pending = 0
    /\ freshness = "CURRENT"
    /\ clock = 0

\* history(): the records of a kind that a transaction sees, and the newest of some.
Rows(k) == {i \in DOMAIN log : log[i].kind = k /\ i # pending}
Newest(S) == IF S = {} THEN 0 ELSE Max(S)
Live(i) == log[i].expires > clock

Reviewed == UNION {Depends[p] : p \in approved}

-----------------------------------------------------------------------------
(* The evidence behind a property *)

Evidence(p, c) ==
    {e \in Rows("evidence_record") : log[e].property = p /\ log[e].config = c}

\* _candidate_failures: all history of the configuration.
FailedIn(p, c) == \E e \in Evidence(p, c) : log[e].security = "FAIL"

\* _assess_evidence for the evidence's own configuration.
Usable(e) ==
    /\ Live(e)
    /\ log[e].security = "PASS" /\ log[e].task = "SUCCESS"
    /\ ~FailedIn(log[e].property, log[e].config)

\* assess_plan: the newest usable evidence.
Selected(p, c) == Newest({e \in Evidence(p, c) : Usable(e)})

-----------------------------------------------------------------------------
(* Source changes *)

Batches == Rows("source_batch")
\* Fault: a change is looked for in the batches that project only.
ProjectedChanges == {b \in Batches : log[b].projects /\ log[b].changed # {}}
Changes == {b \in Batches : log[b].changed # {} \/ log[b].conservative}

\* The time of what the state rests on.
Anchor(s) == IF log[s].evidence # 0 THEN log[s].evidence ELSE s
Before(b, s) == b <= s /\ log[b].valid <= Anchor(s)

\* source_watermarks: the newest snapshot known at that time.
Watermark(s) == Newest({b \in Batches : log[b].projects /\ Before(b, s)})

\* source_change_reconciled: the reviewed components that changed have, in the
\* observed fingerprint, the digests the source reported last.
Reconciled(b, s) ==
    /\ Before(b, s)
    /\ ~log[b].conservative /\ log[b].changed \subseteq Reviewed
    /\ log[s].evidence # 0
    /\ LET w == Watermark(s)
       IN  w # 0 /\ \A k \in log[b].changed : log[w].value[k] = Captured[log[s].config][k]

\* mapping_index: the latest reviewed mapping of a subject.
MapsTo(x) ==
    LET m == Newest({i \in Rows("dependency_mapping") : log[i].subject = x})
    IN  IF m = 0 THEN {} ELSE log[m].maps_to

\* Fault: one mapped subject is enough.
PartlyMapped(b) == ~log[b].conservative /\ \E x \in log[b].changed : MapsTo(x) # {}
\* scope_change: every subject the change names carries a mapping.
FullyMapped(b) == ~log[b].conservative /\ \A x \in log[b].changed : MapsTo(x) # {}

\* The dependencies a later change is read as.
ReadAs(b, s) ==
    IF b > s /\ FullyMapped(b) THEN UNION {MapsTo(x) : x \in log[b].changed}
    ELSE log[b].changed

\* A change that is not reconciled and reaches the property in state s.
Reaches(b, p, s) ==
    /\ ~Reconciled(b, s)
    /\ LET names == ReadAs(b, s)
       IN  \/ Before(b, s)
           \/ names = {} \/ ~(names \subseteq Reviewed)
           \/ Depends[p] = {} \/ names \cap Depends[p] # {}
Affecting(p, s) == {b \in Changes : Reaches(b, p, s)}

-----------------------------------------------------------------------------
(* projection(): what supports each property of a state now *)

\* What speaks against the state as a whole.
StateReasons(s) ==
    {r \in {"authority", "expired", "undeclared", "stale", "unknowns"} :
       \/ r = "authority" /\ Newest(Rows("permission_envelope")) # log[s].envelope
       \/ r = "expired" /\ ~Live(log[s].envelope)
       \/ r = "undeclared" /\ ~log[s].observed
       \/ r = "stale" /\ log[s].evidence # 0 /\ log[s].expires <= clock
       \/ r = "unknowns" /\ ~log[s].complete}

\* Evidence recorded before the envelope does not count, evidence for a state
\* without an observation neither.
RowEvidence(p, s) ==
    LET e == IF log[s].evidence = 0 THEN 0 ELSE Selected(p, log[s].config)
    IN  IF e < log[s].envelope THEN 0 ELSE e

RowSecurity(p, s) ==
    LET same == IF log[s].evidence = 0 THEN {} ELSE Evidence(p, log[s].config)
    IN  IF FailedIn(p, log[s].config) THEN "FAIL"
        ELSE IF same = {} THEN "INCONCLUSIVE" ELSE log[Max(same)].security
RowTask(p, s) ==
    LET same == IF log[s].evidence = 0 THEN {} ELSE Evidence(p, log[s].config)
    IN  IF \E e \in same : log[e].task = "FAILURE" THEN "FAILURE"
        ELSE IF same = {} THEN "UNKNOWN" ELSE log[Max(same)].task

\* The label before, and after, the source layer: a reaching change and an
\* uncurrent source can only take support away.  The oldest change is read last.
EvidenceLabel(p, s) ==
    IF RowEvidence(p, s) # 0 /\ StateReasons(s) = {} THEN "CURRENT"
    ELSE IF StateReasons(s) \cap {"expired", "stale"} # {} THEN "STALE"
    ELSE IF \E e \in Rows("evidence_record") :
              log[e].property = p /\ log[e].config # log[s].config
         THEN "INVALID" ELSE "UNKNOWN"
Applicability(p, s) ==
    IF Affecting(p, s) # {}
    THEN LET b == Min(Affecting(p, s))
         IN  IF ~Before(b, s) /\ ReadAs(b, s) \cap Depends[p] # {}
             THEN "INVALID" ELSE "UNKNOWN"
    ELSE IF freshness # "CURRENT" THEN freshness
    ELSE EvidenceLabel(p, s)

Supported(p, s) ==
    /\ EvidenceLabel(p, s) = "CURRENT"
    /\ RowSecurity(p, s) = "PASS" /\ RowTask(p, s) = "SUCCESS"
    /\ freshness = "CURRENT"
    /\ Affecting(p, s) = {}
AllSupported(s) == approved # {} /\ \A p \in approved : Supported(p, s)

\* _support_digest.
Support(s) ==
    [p \in approved |-> <<RowEvidence(p, s), Applicability(p, s), RowSecurity(p, s),
                          RowTask(p, s), Supported(p, s)>>]

\* current_release_assessment: the underlying action is ALLOW.
ReleaseAllows(r) ==
    /\ DOMAIN log[r].rows = approved /\ approved # {}
    /\ \A p \in approved : log[r].rows[p] # 0 /\ Usable(log[r].rows[p])

-----------------------------------------------------------------------------
(* The status of a decision, computed now *)

Revoked(d) == \E i \in Rows("status_event") : log[i].authorization = d
\* Fault: only the newest transition counts.
OtherStateObservedLast(d) ==
    LET t == Newest(Rows("change_event"))
    IN  t > d /\ log[t].observed /\ log[t].after # log[d].state
OtherStateObserved(d) ==
    \E t \in Rows("change_event") : t > d /\ log[t].observed /\ log[t].after # log[d].state
LapsedState(s) == ~Live(log[s].envelope) \/ (log[s].evidence # 0 /\ log[s].expires <= clock)
\* An unreconciled change recorded after the decision reaches one of its properties.
Overtaken(d) ==
    \E p \in approved : \E b \in Affecting(p, log[d].state) : b > d

clearance_status(d) ==
    IF Revoked(d) THEN "REVOKED"
    ELSE IF OtherStateObserved(d) THEN "SUPERSEDED"
    ELSE IF LapsedState(log[d].state) THEN "EXPIRED"
    ELSE IF Support(log[d].state) # log[d].support
         THEN IF Overtaken(d) THEN "SUPERSEDED" ELSE "REASSESS"
    ELSE IF log[d].action = "ALLOW" /\ ~ReleaseAllows(log[d].release) THEN "REASSESS"
    ELSE "CURRENT"

\* Fault: the lifetime of the statement is not looked at.
StatusWithoutLifetime(d) == clearance_status(d)
\* The statement's own lifetime comes first for who acts on it.
DecisionStatus(d) == IF ~Live(d) THEN "EXPIRED" ELSE clearance_status(d)

\* Fault: acknowledgements of the target are not looked up.
EpochUnread == 0
\* The epoch of the newest acknowledgement.
Acknowledged == {i \in Rows("enforcement_request") : log[i].applied > 0}
Epoch == IF Acknowledged = {} THEN 0 ELSE log[Max(Acknowledged)].applied

-----------------------------------------------------------------------------
(* The handlers *)

Add(r) ==
    /\ Len(log) < MaxLog
    /\ log' = Append(log, r)
    /\ UNCHANGED <<approved, pending, freshness, clock>>

\* approve_property of the API, and finish_run with its snapshot_evidence.
ApproveProperty(p) ==
    /\ p \notin approved
    /\ approved' = approved \cup {p}
    /\ UNCHANGED <<log, pending, freshness, clock>>
RecordEvidence(p, c, security, task) ==
    /\ p \in approved
    /\ Add([kind |-> "evidence_record", property |-> p, config |-> c,
            security |-> security, task |-> task, expires |-> clock + EvidenceTTL])

\* Only the newest envelope can be superseded.
save_envelope(supersedes, ttl) ==
    /\ supersedes = Newest(Rows("permission_envelope"))
    /\ Add([kind |-> "permission_envelope", expires |-> clock + ttl])

EvidenceMatches(e, c) == e = 0 \/ (e \in Rows("evidence_record") /\ log[e].config = c)
\* The evidence must be of this exact configuration; only a conclusive, qualified one
\* observes the state, and it says until when.
save_state(env, c, e, production, complete) ==
    /\ env \in Rows("permission_envelope")
    /\ EvidenceMatches(e, c)
    /\ Add([kind |-> "system_state", config |-> c, envelope |-> env, evidence |-> e,
            observed |-> e # 0 /\ ~production /\ log[e].security # "INCONCLUSIVE",
            expires |-> IF e = 0 THEN 0 ELSE log[e].expires, complete |-> complete])
save_transition(after, observed) ==
    /\ after \in Rows("system_state")
    /\ Add([kind |-> "change_event", after |-> after, observed |-> observed])
\* A mapping names reviewed dependencies and a subject the source has reported.
save_mapping(x, deps) ==
    /\ deps # {} /\ deps \subseteq Reviewed
    /\ \E b \in Batches : log[b].value[x] # 0
    /\ Add([kind |-> "dependency_mapping", subject |-> x, maps_to |-> deps])
create_release(c) ==
    /\ approved # {}
    /\ Add([kind |-> "release", config |-> c, rows |-> [p \in approved |-> Selected(p, c)]])

Decision(s, r, prior) ==
    [kind |-> "authorization_decision", state |-> s, release |-> r, prior |-> prior,
     support |-> Support(s),
     action |-> IF AllSupported(s) /\ ReleaseAllows(r) THEN "ALLOW"
                ELSE IF \E p \in approved : \/ RowSecurity(p, s) = "FAIL"
                                            \/ RowTask(p, s) = "FAILURE"
                THEN "BLOCK" ELSE "REQUIRE_APPROVAL",
     expires |-> LET ends == {clock + DecisionTTL, log[log[s].envelope].expires}
                             \cup (IF log[s].evidence = 0 THEN {} ELSE {log[s].expires})
                 IN  IF Min(ends) <= clock THEN clock + 1 ELSE Min(ends)]
\* decide, for a new nonce; a known nonce returns the recorded decision.
decide(s, r, prior) ==
    /\ s \in Rows("system_state") /\ r \in Rows("release")
    /\ log[r].config = log[s].config
    /\ DOMAIN log[r].rows = approved
    /\ Add(Decision(s, r, prior))

\* enforce.  The local mechanism records the request and its acknowledgement in one
\* transaction; an external one is only requested.
enforce(d, local) ==
    /\ d \in Rows("authorization_decision")
    /\ \A i \in Rows("enforcement_request") : log[i].authorization # d
    /\ DecisionStatus(d) = "CURRENT" /\ log[d].action = "ALLOW"
    /\ Epoch = log[d].prior
    /\ Add([kind |-> "enforcement_request", authorization |-> d,
            applied |-> IF local THEN Epoch + 1 ELSE 0])
revoke(d) ==
    /\ d \in Rows("authorization_decision")
    /\ Add([kind |-> "status_event", authorization |-> d])

-----------------------------------------------------------------------------
(* The source: its installation's row is locked, the system is not *)

Configured == Newest({b \in Batches : "connector_configuration" \in log[b].changed})
Prior == Newest({b \in Batches : log[b].projects /\ b > Configured})
Known == IF Prior = 0 THEN Nothing ELSE log[Prior].value
Differing(value) == {x \in Subject : value[x] # Known[x]}

\* persist_batch: a snapshot older than the last one is kept but does not project.
persist_batch(value, gap, late) ==
    /\ pending = 0
    /\ Len(log) < MaxLog
    /\ LET valid == IF late THEN 0 ELSE Len(log) + 1
       IN  log' = Append(log, Batch(value, Differing(value), gap /\ Prior # 0, valid,
                                    Prior = 0 \/ valid >= log[Prior].valid))
    /\ pending' = Len(log')
    /\ UNCHANGED <<approved, freshness, clock>>
\* The batch becomes visible, and with it the source's health.
CommitBatch ==
    /\ pending # 0
    /\ pending' = 0
    /\ freshness' \in IF log[pending].projects THEN {"CURRENT", "UNKNOWN"} ELSE {freshness}
    /\ UNCHANGED <<approved, log, clock>>
\* The newest batch that was delivered, projecting or not, for any configuration.
Delivered == Max({b \in Batches : "connector_configuration" \notin log[b].changed})
\* reconfigure names what was delivered last; the next snapshot is compared with nothing.
reconfigure ==
    /\ pending = 0
    /\ Len(log) < MaxLog
    /\ LET names == {x \in Subject : log[Delivered].value[x] # 0}
       IN  log' = Append(log, Batch(Nothing, names \cup {"connector_configuration"},
                                    TRUE, Len(log) + 1, FALSE))
    /\ freshness' = "UNKNOWN"
    /\ UNCHANGED <<approved, pending, clock>>
\* The last snapshot outlives its freshness.
SourceStale ==
    /\ freshness = "CURRENT"
    /\ freshness' = "STALE"
    /\ UNCHANGED <<approved, log, pending, clock>>

Tick ==
    /\ clock < MaxClock
    /\ clock' = clock + 1
    /\ UNCHANGED <<approved, log, pending, freshness>>

SourceSnapshots == [Component -> Value] \* what a source reports of the components
Snapshots == {[x \in Subject |-> IF x \in Component THEN v[x]
                                 ELSE IF x \in new THEN CHOOSE d \in Value : TRUE ELSE 0] :
                v \in SourceSnapshots, new \in SUBSET Foreign}
Outcomes == {<<"PASS", "SUCCESS">>, <<"PASS", "FAILURE">>, <<"FAIL", "SUCCESS">>,
             <<"INCONCLUSIVE", "UNKNOWN">>}

Reviewers ==
    \/ \E p \in Property : ApproveProperty(p)
    \/ \E ttl \in EnvelopeTTL : save_envelope(Newest(Rows("permission_envelope")), ttl)
    \/ \E x \in Subject, deps \in SUBSET Component : save_mapping(x, deps)
    \/ \E d \in DOMAIN log : revoke(d)
Operators ==
    \/ \E env, e \in 0..Len(log), c \in Config, production, complete \in BOOLEAN :
          save_state(env, c, e, production, complete)
    \/ \E after \in DOMAIN log, observed \in BOOLEAN : save_transition(after, observed)
    \/ \E c \in Config : create_release(c)
    \/ \E s, r \in DOMAIN log, prior \in 0..1 : decide(s, r, prior)
    \/ \E d \in DOMAIN log, local \in BOOLEAN : enforce(d, local)
Worker == \E p \in Property, c \in Config, o \in Outcomes : RecordEvidence(p, c, o[1], o[2])
Source ==
    \/ \E v \in Snapshots, gap, late \in BOOLEAN : persist_batch(v, gap, late)
    \/ CommitBatch \/ reconfigure \/ SourceStale

Next == Reviewers \/ Operators \/ Worker \/ Source \/ Tick

Spec == Init /\ [][Next]_vars

-----------------------------------------------------------------------------
(* What others read *)

\* gate(): the newest state, the newest decision for it, whatever its lifetime.
GateState == Newest(Rows("system_state"))
GateDecision ==
    Newest({d \in Rows("authorization_decision") : log[d].state = GateState})
GateCleared ==
    /\ GateState # 0 /\ GateDecision # 0
    /\ clearance_status(GateDecision) = "CURRENT" /\ log[GateDecision].action = "ALLOW"

\* Fault: the view looks at the decision's own state only.
ClearanceOfDecision ==
    LET d == Newest(Rows("authorization_decision"))
    IN  /\ d # 0 /\ clearance_status(d) = "CURRENT"
        /\ log[d].action = "ALLOW" /\ AllSupported(log[d].state)
\* clearance(): the newest decision, which must be for the newest state.
ClearanceCleared ==
    LET d == Newest(Rows("authorization_decision"))
    IN  /\ d # 0 /\ clearance_status(d) = "CURRENT"
        /\ log[d].state = GateState
        /\ log[d].action = "ALLOW" /\ AllSupported(GateState)

-----------------------------------------------------------------------------
(* Properties *)

\* What support of property p in state s promises, in terms of the records alone: the
\* authority reviewed last covers the state and has not lapsed; p has a success on this
\* very configuration after that review, not expired, and no failure; the source last
\* showed, by then, the dependencies of p as the state has them; and whatever it has
\* shown since is, by its own name or by the review of that name, a dependency of other
\* properties only.
Established(p, s) ==
    /\ log[s].envelope = Newest(Rows("permission_envelope")) /\ Live(log[s].envelope)
    /\ \E e \in Evidence(p, log[s].config) :
         /\ e > log[s].envelope /\ Live(e)
         /\ log[e].security = "PASS" /\ log[e].task = "SUCCESS"
    /\ \A e \in Evidence(p, log[s].config) :
         log[e].security # "FAIL" /\ log[e].task # "FAILURE"
    /\ LET w == Newest({b \in Batches : log[b].projects /\ b < s})
       IN  \A k \in Depends[p] : log[w].value[k] = Captured[log[s].config][k]
    /\ \A b \in Batches : b > s =>
         \A x \in log[b].changed :
            \E named \in {{x}, MapsTo(x)} \ {{}} : named \subseteq Reviewed \ Depends[p]

\* A property reads as supported, in any state ever recorded, only while that is
\* established, in whatever order evidence, reviews and changes were recorded, also by
\* a source batch that was being written when the state was.
SupportIsEstablished ==
    \A s \in Rows("system_state") : \A p \in approved :
        Supported(p, s) => Established(p, s)

\* Every dependency belongs to some property, so the gate never clears a state after
\* which the source has changed at all; nor one that was left for another state, nor
\* on a withdrawn decision.
GateIsSound ==
    GateCleared =>
        /\ \A p \in approved : Established(p, GateState)
        /\ \A b \in Batches : b > GateState => log[b].changed = {} /\ ~log[b].conservative
        /\ \A i \in Rows("status_event") : log[i].authorization # GateDecision
        /\ \A t \in Rows("change_event") :
             t > GateDecision /\ log[t].observed => log[t].after = GateState

\* An activation is asked for only what is established at that moment, under a
\* statement that is alive, and once per decision.
ActivationIsEstablished ==
    [][\A i \in DOMAIN log' \ DOMAIN log :
         log'[i].kind = "enforcement_request" =>
           LET d == log'[i].authorization
           IN  /\ \A p \in approved : Established(p, log[d].state)
               /\ log[d].expires > clock
               /\ \A j \in DOMAIN log : log[j].kind = "enforcement_request" =>
                    log[j].authorization # d]_vars

\* Activations of the registry form a chain: each one names the epoch the one before
\* it created, so that of two decisions taken against one epoch only one is applied.
ActivationChain ==
    \A i \in Acknowledged :
        /\ log[i].applied = 1 + Cardinality({j \in Acknowledged : j < i})
        /\ log[log[i].authorization].prior = log[i].applied - 1

\* An ALLOW that was lost to a change, to time or to a revocation does not come back:
\* later evidence, and a later review of what changed, are for a later decision.
Allowed == {d \in Rows("authorization_decision") : log[d].action = "ALLOW"}
ClearanceLossIsFinal ==
    [][\A d \in Allowed : clearance_status(d) \in {"REVOKED", "SUPERSEDED", "EXPIRED"} =>
         clearance_status(d)' # "CURRENT"]_vars

\* The two readers agree: what the operator's view calls cleared, the gate clears.
ClearedViewsAgree == ClearanceCleared => GateCleared

\* docs/SYSTEM_INTELLIGENCE.md on what a change reaches: "One unmapped subject, a source
\* gap or a connector reconfiguration keeps today's conservative meaning: every claim
\* needs review".
GapReachesEveryClaim ==
    \A s \in Rows("system_state") : \A p \in approved : \A b \in Changes :
        b > s /\ log[b].conservative => ~Supported(p, s)

-----------------------------------------------------------------------------
(* The inductive invariant behind the proofs *)

Security == {"PASS", "FAIL", "INCONCLUSIVE"}
Task     == {"SUCCESS", "FAILURE", "UNKNOWN"}
Label    == {"CURRENT", "STALE", "INVALID", "UNKNOWN"}
Changed  == SUBSET (Subject \cup {"connector_configuration"})
Rowwise(S) == UNION {[P -> S] : P \in SUBSET Property}

Record == UNION
    {[kind : {"source_batch"}, value : [Subject -> Nat], changed : Changed,
      conservative : BOOLEAN, valid : Nat, projects : BOOLEAN],
     [kind : {"evidence_record"}, property : Property, config : Config,
      security : Security, task : Task, expires : Nat],
     [kind : {"permission_envelope"}, expires : Nat],
     [kind : {"system_state"}, config : Config, envelope : Nat, evidence : Nat,
      observed : BOOLEAN, expires : Nat, complete : BOOLEAN],
     [kind : {"change_event"}, after : Nat, observed : BOOLEAN],
     [kind : {"dependency_mapping"}, subject : Subject, maps_to : SUBSET Component],
     [kind : {"release"}, config : Config, rows : Rowwise(Nat)],
     [kind : {"authorization_decision"}, state : Nat, release : Nat, prior : Nat,
      support : Rowwise(Nat \X Label \X Security \X Task \X BOOLEAN),
      action : {"ALLOW", "BLOCK", "REQUIRE_APPROVAL"}, expires : Nat],
     [kind : {"enforcement_request"}, authorization : Nat, applied : Nat],
     [kind : {"status_event"}, authorization : Nat]}

\* Every variable has its type.
TypeOK ==
    /\ approved \subseteq Property
    /\ log \in Seq(Record)
    /\ pending \in 0..Len(log)
    /\ freshness \in {"CURRENT", "STALE", "UNKNOWN"}
    /\ clock \in Nat

\* A record names earlier ones, of the kind it says; and a decision that allows was
\* taken with every property supported.
Named(i, k) == i \in DOMAIN log /\ log[i].kind = k
StateNames(s) == Named(log[s].envelope, "permission_envelope")
DecisionNames(d) ==
    /\ Named(log[d].state, "system_state") /\ log[d].state < d
    /\ log[d].action = "ALLOW" =>
          DOMAIN log[d].support # {} /\ \A p \in DOMAIN log[d].support : log[d].support[p][5]
RequestNames(i) == Named(log[i].authorization, "authorization_decision")
ReferenceInv ==
    \A i \in DOMAIN log :
        /\ log[i].kind = "system_state" => StateNames(i)
        /\ log[i].kind = "authorization_decision" => DecisionNames(i)
        /\ log[i].kind = "enforcement_request" => RequestNames(i)

\* The source's batches are a chain, whatever of it is committed: until a
\* reconfiguration each one names all that differs from the snapshot before it.
Reconfigures(b) == "connector_configuration" \in log[b].changed
BatchRows == {b \in DOMAIN log : log[b].kind = "source_batch"}
Follows(b, q) ==
    /\ q < b /\ log[q].projects
    /\ \A c \in BatchRows : q < c /\ c < b => ~log[c].projects
    /\ \A c \in BatchRows : c <= b => ~Reconfigures(c)
SourceInv ==
    /\ 1 \in DOMAIN log /\ pending # 1
    /\ log[1] = Batch(FirstSnapshot, Component, FALSE, 0, TRUE)
    /\ pending # 0 => /\ pending \in BatchRows /\ ~Reconfigures(pending)
                      /\ \A b \in BatchRows : b <= pending
    /\ \A b \in BatchRows : Reconfigures(b) => log[b].conservative
    /\ \A b, q \in BatchRows : Follows(b, q) =>
          \A x \in Subject : log[b].value[x] # log[q].value[x] => x \in log[b].changed

IInv == ReferenceInv /\ SourceInv /\ ActivationChain
=============================================================================
