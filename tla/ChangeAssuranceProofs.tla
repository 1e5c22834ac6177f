----------------------- MODULE ChangeAssuranceProofs -----------------------
(***************************************************************************)
(* Proofs about ChangeAssurance, for any properties, dependencies,         *)
(* configurations and lifetimes, and logs of any length.                   *)
(***************************************************************************)
EXTENDS ChangeAssurance, SequenceLemmas, FiniteSetTheorems

-----------------------------------------------------------------------------
(* The newest of some records *)

\* Of some of the first n numbers, the newest is the largest one, and the only such.
LEMMA NewestOf ==
  ASSUME NEW n \in Nat, NEW S \in SUBSET (1..n)
  PROVE  /\ S = {} => Newest(S) = 0
         /\ S # {} => /\ Newest(S) \in S /\ Newest(S) = Max(S)
                      /\ \A y \in S : y <= Newest(S)
         /\ Newest(S) \in S \cup {0}
         /\ \A q \in S : (\A y \in S : y <= q) => Newest(S) = q
<1>1. S # {} => Max(S) \in S /\ \A y \in S : y <= Max(S)
  BY Largest
<1>2. ASSUME NEW q \in S, \A y \in S : y <= q PROVE Max(S) = q
  <2> DEFINE m == Max(S)
  <2> HIDE DEF m
  <2>1. m \in S /\ q <= m
    BY <1>1 DEF m
  <2>2. m <= q /\ m \in 1..n /\ q \in 1..n
    BY <1>2, <2>1
  <2>3. m = q
    BY <2>1, <2>2
  <2> QED
    BY <2>3 DEF m
<1>3. S # {} => Newest(S) = Max(S)
  BY DEF Newest
<1>4. \A q \in S : (\A y \in S : y <= q) => Newest(S) = q
  BY <1>2, <1>3
<1> QED
  BY <1>1, <1>3, <1>4 DEF Newest

-----------------------------------------------------------------------------
(* Records *)

\* The fields of a record of each kind.
LEMMA Fields ==
  ASSUME TypeOK, NEW i \in DOMAIN log
  PROVE  /\ log[i].kind = "source_batch" =>
              /\ log[i].value \in [Subject -> Nat] /\ log[i].changed \in Changed
              /\ log[i].valid \in Nat
              /\ log[i].conservative \in BOOLEAN /\ log[i].projects \in BOOLEAN
         /\ log[i].kind = "evidence_record" =>
              /\ log[i].property \in Property /\ log[i].config \in Config
              /\ log[i].security \in Security /\ log[i].task \in Task
              /\ log[i].expires \in Nat
         /\ log[i].kind = "permission_envelope" => log[i].expires \in Nat
         /\ log[i].kind = "system_state" =>
              /\ log[i].config \in Config /\ log[i].envelope \in Nat
              /\ log[i].evidence \in Nat /\ log[i].expires \in Nat
         /\ log[i].kind = "dependency_mapping" => log[i].maps_to \in SUBSET Component
         /\ log[i].kind = "release" =>
              log[i].config \in Config /\ log[i].rows \in Rowwise(Nat)
         /\ log[i].kind = "authorization_decision" =>
              /\ log[i].state \in Nat /\ log[i].prior \in Nat /\ log[i].expires \in Nat
              /\ log[i].support \in Rowwise(Nat \X Label \X Security \X Task \X BOOLEAN)
         /\ log[i].kind = "enforcement_request" =>
              log[i].authorization \in Nat /\ log[i].applied \in Nat
<1>1. log[i] \in Record
  BY LenProperties DEF TypeOK
<1> QED
  BY <1>1 DEF Record

\* The rows a transaction sees, and what newest means of some of them.
LEMMA RowsOf ==
  ASSUME TypeOK
  PROVE  /\ \A k : Rows(k) \in SUBSET (1..Len(log)) /\ Len(log) \in Nat
         /\ DOMAIN log = 1..Len(log)
         /\ \A k : \A i \in Rows(k) : i \in DOMAIN log /\ log[i].kind = k
         /\ \A S \in SUBSET DOMAIN log : Newest(S) \in S \cup {0} /\ Newest(S) \in Nat
<1>1. DOMAIN log = 1..Len(log) /\ Len(log) \in Nat
  BY LenProperties DEF TypeOK
<1>2. \A S \in SUBSET DOMAIN log : Newest(S) \in S \cup {0}
  BY <1>1, NewestOf
<1> QED
  BY <1>1, <1>2 DEF Rows

\* Evidence of a property for a configuration, and the newest usable one.
LEMMA EvidenceOf ==
  ASSUME TypeOK, NEW p, NEW c
  PROVE  /\ Evidence(p, c) \in SUBSET DOMAIN log
         /\ \A e \in Evidence(p, c) : /\ log[e].kind = "evidence_record"
                                      /\ log[e].property = p /\ log[e].config = c
         /\ Selected(p, c) \in Nat
         /\ Selected(p, c) # 0 => Selected(p, c) \in Evidence(p, c) /\ Usable(Selected(p, c))
<1>1. /\ Evidence(p, c) \in SUBSET DOMAIN log
      /\ \A e \in Evidence(p, c) : /\ log[e].kind = "evidence_record"
                                   /\ log[e].property = p /\ log[e].config = c
  BY RowsOf DEF Evidence
<1> DEFINE usable == {e \in Evidence(p, c) : Usable(e)}
<1>2. usable \in SUBSET DOMAIN log
  BY <1>1
<1>3. Newest(usable) \in Nat /\ Newest(usable) \in usable \cup {0}
  <2> HIDE DEF usable
  <2> QED
    BY <1>2, RowsOf
<1>4. Selected(p, c) = Newest(usable)
  BY DEF Selected
<1> QED
  BY <1>1, <1>3, <1>4

\* What a decision records of the support of each property.
LEMMA SupportType ==
  ASSUME TypeOK, NEW s \in Rows("system_state")
  PROVE  Support(s) \in Rowwise(Nat \X Label \X Security \X Task \X BOOLEAN)
<1> SUFFICES ASSUME NEW p \in approved
             PROVE  /\ RowEvidence(p, s) \in Nat
                    /\ Applicability(p, s) \in Label
                    /\ RowSecurity(p, s) \in Security
                    /\ RowTask(p, s) \in Task
                    /\ Supported(p, s) \in BOOLEAN
  BY DEF Support, Rowwise, TypeOK
<1>1. RowEvidence(p, s) \in Nat
  BY EvidenceOf DEF RowEvidence
<1>2. Applicability(p, s) \in Label
  <2>1. freshness \in {"CURRENT", "STALE", "UNKNOWN"}
    BY DEF TypeOK
  <2>2. EvidenceLabel(p, s) \in Label
    BY DEF EvidenceLabel, Label
  <2> QED
    BY <2>1, <2>2 DEF Applicability, Label
<1> DEFINE same == IF log[s].evidence = 0 THEN {} ELSE Evidence(p, log[s].config)
<1>3. \A e \in same : log[e].security \in Security /\ log[e].task \in Task
  BY EvidenceOf, Fields
<1>4. same # {} => Max(same) \in same
  <2>1. same \in SUBSET (1..Len(log)) /\ Len(log) \in Nat
    BY EvidenceOf, RowsOf
  <2> HIDE DEF same
  <2> QED
    BY <2>1, NewestOf
<1>5. RowSecurity(p, s) \in Security
  BY <1>3, <1>4 DEF RowSecurity, Security
<1>6. RowTask(p, s) \in Task
  BY <1>3, <1>4 DEF RowTask, Task
<1>7. Supported(p, s) \in BOOLEAN
  BY DEF Supported
<1> QED
  BY <1>1, <1>2, <1>5, <1>6, <1>7

\* The statement a decision makes, and until when.
LEMMA DecisionType ==
  ASSUME TypeOK, ReferenceInv, NEW s \in Rows("system_state"), NEW r \in Rows("release"),
         NEW prior \in Nat
  PROVE  Decision(s, r, prior) \in Record
<1> DEFINE ends == {clock + DecisionTTL, log[log[s].envelope].expires}
                    \cup (IF log[s].evidence = 0 THEN {} ELSE {log[s].expires})
           until == IF Min(ends) <= clock THEN clock + 1 ELSE Min(ends)
           action == IF AllSupported(s) /\ ReleaseAllows(r) THEN "ALLOW"
                     ELSE IF \E p \in approved : \/ RowSecurity(p, s) = "FAIL"
                                                 \/ RowTask(p, s) = "FAILURE"
                     THEN "BLOCK" ELSE "REQUIRE_APPROVAL"
<1>1. ends \in SUBSET Nat /\ ends # {}
  <2>1. s \in DOMAIN log /\ log[s].kind = "system_state"
    BY RowsOf
  <2>2. log[log[s].envelope].expires \in Nat /\ log[s].expires \in Nat
    BY <2>1, Fields DEF ReferenceInv, StateNames, Named
  <2>3. clock + DecisionTTL \in Nat
    <3>1. DecisionTTL \in Nat /\ clock \in Nat
      BY ChangeAssuranceAssumption DEF TypeOK
    <3> QED
      BY <3>1
  <2> QED
    BY <2>2, <2>3
<1>2. until \in Nat
  <2>1. Min(ends) \in Nat
    <3> HIDE DEF ends
    <3> QED
      BY <1>1, Least
  <2> HIDE DEF ends
  <2> QED
    BY <2>1 DEF TypeOK
<1>3. action \in {"ALLOW", "BLOCK", "REQUIRE_APPROVAL"}
  OBVIOUS
<1>4. Decision(s, r, prior) =
        [kind |-> "authorization_decision", state |-> s, release |-> r, prior |-> prior,
         support |-> Support(s), action |-> action, expires |-> until]
  BY DEF Decision
<1>5. s \in Nat /\ r \in Nat
  BY RowsOf
<1>6. Support(s) \in Rowwise(Nat \X Label \X Security \X Task \X BOOLEAN)
  BY SupportType
<1> HIDE DEF until, action
<1>7. [kind |-> "authorization_decision", state |-> s, release |-> r, prior |-> prior,
       support |-> Support(s), action |-> action, expires |-> until] \in Record
  BY <1>2, <1>3, <1>5, <1>6 DEF Record
<1> QED
  BY <1>4, <1>7, Zenon

-----------------------------------------------------------------------------
(* What a step may write *)

\* Record r is appended, on these grounds.
AsksFor(d) ==
    /\ d \in Rows("authorization_decision")
    /\ \A i \in Rows("enforcement_request") : log[i].authorization # d
    /\ DecisionStatus(d) = "CURRENT" /\ log[d].action = "ALLOW" /\ Epoch = log[d].prior
Snapshot(r) == ~("connector_configuration" \in r.changed) /\ r.changed = Differing(r.value)
Reset(r) == "connector_configuration" \in r.changed /\ r.conservative /\ ~r.projects
Writes(r) ==
    /\ r \in Record /\ log' = Append(log, r)
    /\ r.kind # "source_batch" => pending' = pending
    /\ r.kind = "source_batch" =>
          /\ pending = 0
          /\ \/ Snapshot(r) /\ pending' = Len(log) + 1
             \/ Reset(r) /\ pending' = 0
    /\ r.kind = "system_state" => Named(r.envelope, "permission_envelope")
    /\ r.kind = "authorization_decision" =>
          /\ Named(r.state, "system_state")
          /\ r.action = "ALLOW" =>
                DOMAIN r.support # {} /\ \A p \in DOMAIN r.support : r.support[p][5]
    /\ r.kind = "enforcement_request" =>
          AsksFor(r.authorization) /\ r.applied \in {0, Epoch + 1}

\* The epoch is a number.
LEMMA EpochType ==
  ASSUME TypeOK
  PROVE  /\ Epoch \in Nat /\ Acknowledged \in SUBSET (1..Len(log))
         /\ \A i \in Acknowledged : i \in DOMAIN log /\ log[i].kind = "enforcement_request"
<1>1. /\ Acknowledged \in SUBSET (1..Len(log))
      /\ \A i \in Acknowledged : i \in DOMAIN log /\ log[i].kind = "enforcement_request"
  BY RowsOf DEF Acknowledged
<1>2. Acknowledged # {} => Max(Acknowledged) \in Acknowledged
  <2> DEFINE A == Acknowledged
  <2> HIDE DEF A
  <2>1. A \in SUBSET (1..Len(log)) /\ Len(log) \in Nat
    BY <1>1, RowsOf DEF A
  <2>2. A # {} => Max(A) \in A
    BY <2>1, NewestOf
  <2> QED
    BY <2>2 DEF A
<1>3. Epoch \in Nat
  BY <1>1, <1>2, Fields DEF Epoch
<1> QED
  BY <1>1, <1>3

\* The records reviewers, operators and workers write.
LEMMA ReviewersWrite ==
  ASSUME TypeOK, ReferenceInv, Reviewers
  PROVE  \/ log' = log /\ pending' = pending
         \/ \E r : Writes(r)
<1>1. CASE \E p \in Property : ApproveProperty(p)
  BY <1>1 DEF ApproveProperty
<1>2. ASSUME NEW ttl \in EnvelopeTTL,
             save_envelope(Newest(Rows("permission_envelope")), ttl)
      PROVE  \E r : Writes(r)
  <2> DEFINE r == [kind |-> "permission_envelope", expires |-> clock + ttl]
  <2>1. clock + ttl \in Nat
    BY ChangeAssuranceAssumption DEF TypeOK
  <2>2. r \in Record
    BY <2>1 DEF Record
  <2>3. Writes(r)
    BY <1>2, <2>2 DEF save_envelope, Add, Writes
  <2> QED
    BY <2>3
<1>3. ASSUME NEW x \in Subject, NEW deps \in SUBSET Component, save_mapping(x, deps)
      PROVE  \E r : Writes(r)
  <2> DEFINE r == [kind |-> "dependency_mapping", subject |-> x, maps_to |-> deps]
  <2>1. r \in Record
    BY DEF Record
  <2>2. Writes(r)
    BY <1>3, <2>1 DEF save_mapping, Add, Writes
  <2> QED
    BY <2>2
<1>4. ASSUME NEW d \in DOMAIN log, revoke(d) PROVE \E r : Writes(r)
  <2> DEFINE r == [kind |-> "status_event", authorization |-> d]
  <2>1. r \in Record
    BY RowsOf DEF Record
  <2>2. Writes(r)
    BY <1>4, <2>1 DEF revoke, Add, Writes
  <2> QED
    BY <2>2
<1> QED
  BY <1>1, <1>2, <1>3, <1>4 DEF Reviewers

LEMMA WorkerWrites ==
  ASSUME TypeOK, Worker
  PROVE  \E r : Writes(r)
<1>1. PICK p \in Property, c \in Config, o \in Outcomes : RecordEvidence(p, c, o[1], o[2])
  BY DEF Worker
<1> DEFINE r == [kind |-> "evidence_record", property |-> p, config |-> c,
                 security |-> o[1], task |-> o[2], expires |-> clock + EvidenceTTL]
<1>2. o[1] \in Security /\ o[2] \in Task
  BY DEF Outcomes, Security, Task
<1>3. clock + EvidenceTTL \in Nat
  <2>1. EvidenceTTL \in Nat /\ clock \in Nat
    BY ChangeAssuranceAssumption DEF TypeOK
  <2> QED
    BY <2>1
<1>4. r \in Record
  BY <1>2, <1>3 DEF Record
<1>5. Writes(r)
  BY <1>1, <1>4 DEF RecordEvidence, Add, Writes
<1> QED
  BY <1>5

LEMMA OperatorsWrite ==
  ASSUME TypeOK, ReferenceInv, Operators
  PROVE  \E r : Writes(r)
<1>1. ASSUME NEW env \in 0..Len(log), NEW e \in 0..Len(log), NEW c \in Config,
             NEW production \in BOOLEAN, NEW complete \in BOOLEAN,
             save_state(env, c, e, production, complete)
      PROVE  \E r : Writes(r)
  <2> DEFINE observed == e # 0 /\ ~production /\ log[e].security # "INCONCLUSIVE"
             ends == IF e = 0 THEN 0 ELSE log[e].expires
             r == [kind |-> "system_state", config |-> c, envelope |-> env,
                   evidence |-> e, observed |-> observed, expires |-> ends,
                   complete |-> complete]
  <2>1. env \in Nat /\ e \in Nat /\ observed \in BOOLEAN
    BY RowsOf
  <2>2. ends \in Nat
    BY <1>1, RowsOf, Fields DEF save_state, EvidenceMatches
  <2>3. log' = Append(log, r) /\ pending' = pending /\ Named(env, "permission_envelope")
    BY <1>1, RowsOf DEF save_state, Add, Named
  <2>4. r \in Record
    <3> HIDE DEF observed, ends
    <3> QED
      BY <2>1, <2>2 DEF Record
  <2>5. r.kind = "system_state" /\ r.envelope = env
    OBVIOUS
  <2> HIDE DEF r
  <2>6. Writes(r)
    BY <2>3, <2>4, <2>5 DEF Writes
  <2> QED
    BY <2>6
<1>2. ASSUME NEW after \in DOMAIN log, NEW observed \in BOOLEAN,
             save_transition(after, observed)
      PROVE  \E r : Writes(r)
  <2> DEFINE r == [kind |-> "change_event", after |-> after, observed |-> observed]
  <2>1. r \in Record
    BY RowsOf DEF Record
  <2>2. Writes(r)
    BY <1>2, <2>1 DEF save_transition, Add, Writes
  <2> QED
    BY <2>2
<1>3. ASSUME NEW c \in Config, create_release(c) PROVE \E r : Writes(r)
  <2> DEFINE rows == [p \in approved |-> Selected(p, c)]
             r == [kind |-> "release", config |-> c, rows |-> rows]
  <2>1. rows \in Rowwise(Nat)
    BY EvidenceOf DEF Rowwise, TypeOK
  <2>2. r \in Record
    <3> HIDE DEF rows
    <3> QED
      BY <2>1 DEF Record
  <2>3. log' = Append(log, r) /\ pending' = pending /\ r.kind = "release"
    BY <1>3 DEF create_release, Add
  <2> HIDE DEF r
  <2>4. Writes(r)
    BY <2>2, <2>3 DEF Writes
  <2> QED
    BY <2>4
<1>4. ASSUME NEW st \in DOMAIN log, NEW rel \in DOMAIN log, NEW prior \in 0..1,
             decide(st, rel, prior)
      PROVE  \E r : Writes(r)
  <2> DEFINE r == Decision(st, rel, prior)
  <2>1. /\ st \in Rows("system_state") /\ rel \in Rows("release") /\ prior \in Nat
        /\ log' = Append(log, r) /\ pending' = pending
    BY <1>4 DEF decide, Add
  <2>2. r \in Record
    BY <2>1, DecisionType
  <2>3. r.kind = "authorization_decision" /\ r.state = st /\ r.support = Support(st)
    BY DEF Decision
  <2>4. r.action = "ALLOW" => AllSupported(st)
    BY DEF Decision
  <2>5. Named(st, "system_state")
    BY <2>1, RowsOf DEF Named
  <2>6. DOMAIN Support(st) = approved
        /\ \A p \in approved : Support(st)[p][5] = Supported(p, st)
    BY DEF Support
  <2>7. r.action = "ALLOW" =>
          DOMAIN r.support # {} /\ \A p \in DOMAIN r.support : r.support[p][5]
    BY <2>3, <2>4, <2>6 DEF AllSupported
  <2> HIDE DEF r
  <2>8. Writes(r)
    BY <2>1, <2>2, <2>3, <2>5, <2>7 DEF Writes
  <2> QED
    BY <2>8
<1>5. ASSUME NEW d \in DOMAIN log, NEW local \in BOOLEAN, enforce(d, local)
      PROVE  \E r : Writes(r)
  <2> DEFINE applied == IF local THEN Epoch + 1 ELSE 0
             r == [kind |-> "enforcement_request", authorization |-> d,
                   applied |-> applied]
  <2>1. AsksFor(d) /\ log' = Append(log, r) /\ pending' = pending
    BY <1>5 DEF enforce, Add, AsksFor
  <2>2. applied \in {0, Epoch + 1} /\ applied \in Nat
    BY EpochType
  <2>3. r \in Record
    <3> HIDE DEF applied
    <3> QED
      BY <2>2, RowsOf DEF Record
  <2>4. r.kind = "enforcement_request" /\ r.authorization = d /\ r.applied = applied
    OBVIOUS
  <2> HIDE DEF r
  <2>5. Writes(r)
    BY <2>1, <2>2, <2>3, <2>4 DEF Writes
  <2> QED
    BY <2>5
<1> QED
  BY <1>1, <1>2, <1>3, <1>4, <1>5 DEF Operators

\* The snapshots a source sends are natural numbers by subject.
LEMMA SnapshotType == Snapshots \subseteq [Subject -> Nat]
<1> SUFFICES ASSUME NEW v \in SourceSnapshots, NEW new \in SUBSET Foreign, NEW x \in Subject
             PROVE  (IF x \in Component THEN v[x]
                     ELSE IF x \in new THEN CHOOSE d \in Value : TRUE ELSE 0) \in Nat
  BY DEF Snapshots
<1>1. (CHOOSE d \in Value : TRUE) \in Value
  BY ChangeAssuranceAssumption
<1>2. Value \subseteq Nat
  BY ChangeAssuranceAssumption
<1> QED
  BY <1>1, <1>2 DEF SourceSnapshots

\* The batches the source writes, and what it does to no record.
LEMMA SourceWrites ==
  ASSUME TypeOK, Source
  PROVE  \/ log' = log /\ pending' \in {pending, 0}
         \/ \E r : Writes(r)
<1>1. ASSUME NEW v \in Snapshots, NEW gap \in BOOLEAN, NEW late \in BOOLEAN,
             persist_batch(v, gap, late)
      PROVE  \E r : Writes(r)
  <2> DEFINE valid == IF late THEN 0 ELSE Len(log) + 1
             conservative == gap /\ Prior # 0
             projects == Prior = 0 \/ valid >= log[Prior].valid
             changed == Differing(v)
             r == Batch(v, changed, conservative, valid, projects)
  <2>1. /\ pending = 0 /\ log' = Append(log, r) /\ pending' = Len(log')
    BY <1>1 DEF persist_batch
  <2>2. valid \in Nat /\ conservative \in BOOLEAN /\ projects \in BOOLEAN
    BY RowsOf
  <2>3. changed \in Changed /\ "connector_configuration" \notin changed
    BY ChangeAssuranceAssumption DEF Differing, Changed
  <2>4. v \in [Subject -> Nat]
    BY SnapshotType
  <2>5. /\ r.kind = "source_batch" /\ r.changed = changed /\ r.value = v
    BY DEF Batch
  <2>6. r \in Record
    <3> HIDE DEF valid, conservative, projects, changed
    <3> QED
      BY <2>2, <2>3, <2>4 DEF Batch, Record
  <2> HIDE DEF r
  <2>7. pending' = Len(log) + 1
    BY <2>1, <2>6, Appended DEF TypeOK
  <2>8. Writes(r)
    BY <2>1, <2>3, <2>5, <2>6, <2>7 DEF Writes, Snapshot
  <2> QED
    BY <2>8
<1>2. ASSUME reconfigure PROVE \E r : Writes(r)
  <2>1. PICK names \in SUBSET Subject :
          /\ pending = 0 /\ pending' = 0
          /\ log' = Append(log, Batch(Nothing, names \cup {"connector_configuration"},
                                      TRUE, Len(log) + 1, FALSE))
    BY <1>2 DEF reconfigure
  <2> DEFINE changed == names \cup {"connector_configuration"}
             r == Batch(Nothing, changed, TRUE, Len(log) + 1, FALSE)
  <2>2. Nothing \in [Subject -> Nat] /\ changed \in Changed /\ Len(log) + 1 \in Nat
    BY RowsOf DEF Nothing, Changed
  <2>3. r \in Record
    <3> HIDE DEF changed
    <3> QED
      BY <2>2 DEF Batch, Record
  <2>4. /\ r.kind = "source_batch" /\ r.changed = changed
        /\ r.conservative /\ ~r.projects
    BY DEF Batch
  <2>5. log' = Append(log, r) /\ pending' = 0 /\ pending = 0
    BY <2>1
  <2> HIDE DEF r
  <2>6. Writes(r)
    BY <2>3, <2>4, <2>5 DEF Writes, Reset
  <2> QED
    BY <2>6
<1>3. CASE CommitBatch \/ SourceStale
  BY <1>3 DEF CommitBatch, SourceStale
<1> QED
  BY <1>1, <1>2, <1>3 DEF Source

\* Every step appends one record, on the grounds above, or none.
LEMMA StepWrites ==
  ASSUME TypeOK, ReferenceInv, [Next]_vars
  PROVE  \/ log' = log /\ pending' \in {pending, 0}
         \/ \E r : Writes(r)
<1>1. CASE Reviewers
  BY <1>1, ReviewersWrite
<1>2. CASE Operators
  BY <1>2, OperatorsWrite
<1>3. CASE Worker
  BY <1>3, WorkerWrites
<1>4. CASE Source
  BY <1>4, SourceWrites
<1>5. CASE Tick \/ UNCHANGED vars
  BY <1>5 DEF Tick, vars
<1> QED
  BY <1>1, <1>2, <1>3, <1>4, <1>5 DEF Next

\* Time passes and properties are approved, never the reverse.
LEMMA StepKeeps ==
  ASSUME TypeOK, [Next]_vars
  PROVE  /\ approved' \subseteq Property
         /\ freshness' \in {"CURRENT", "STALE", "UNKNOWN"}
         /\ clock' \in Nat /\ clock <= clock'
<1>1. /\ \/ approved' = approved
         \/ \E p \in Property : approved' = approved \cup {p}
      /\ \/ freshness' = freshness
         \/ freshness' \in {"CURRENT", "STALE", "UNKNOWN"}
      /\ clock' = clock \/ clock' = clock + 1
  <2>1. CASE Reviewers
    BY <2>1 DEF Reviewers, ApproveProperty, save_envelope, save_mapping, revoke, Add
  <2>2. CASE Operators
    BY <2>2 DEF Operators, save_state, save_transition, create_release, decide, enforce, Add
  <2>3. CASE Worker
    BY <2>3 DEF Worker, RecordEvidence, Add
  <2>4. CASE Source
    BY <2>4 DEF Source, persist_batch, CommitBatch, reconfigure, SourceStale
  <2>5. CASE Tick \/ UNCHANGED vars
    BY <2>5 DEF Tick, vars
  <2> QED
    BY <2>1, <2>2, <2>3, <2>4, <2>5 DEF Next
<1>2. clock \in Nat /\ approved \subseteq Property /\ freshness \in {"CURRENT", "STALE", "UNKNOWN"}
  BY DEF TypeOK
<1>3. clock' \in Nat /\ clock <= clock'
  BY <1>1, <1>2
<1> QED
  BY <1>1, <1>2, <1>3

\* What a written record leaves of the log.
LEMMA WrittenLog ==
  ASSUME TypeOK, NEW r, Writes(r)
  PROVE  /\ log' \in Seq(Record) /\ Len(log') = Len(log) + 1
         /\ Len(log) \in Nat /\ DOMAIN log = 1..Len(log)
         /\ DOMAIN log' = DOMAIN log \cup {Len(log) + 1}
         /\ \A i \in DOMAIN log : log'[i] = log[i]
         /\ log'[Len(log) + 1] = r
  BY Appended DEF Writes, TypeOK

-----------------------------------------------------------------------------
(* The invariant *)

LEMMA InvInit == Init => TypeOK /\ IInv
<1> SUFFICES ASSUME Init PROVE TypeOK /\ IInv
  OBVIOUS
<1> DEFINE first == Batch(FirstSnapshot, Component, FALSE, 0, TRUE)
<1>1. first \in Record
  <2>1. FirstSnapshot \in [Subject -> Nat]
    <3>1. \A x \in Component : Captured[Base][x] \in Nat
      BY ChangeAssuranceAssumption
    <3> QED
      BY <3>1 DEF FirstSnapshot
  <2>2. Component \in Changed
    BY DEF Changed, Subject
  <2> QED
    BY <2>1, <2>2 DEF Batch, Record
<1>2. first.kind = "source_batch" /\ first.changed = Component
  BY DEF Batch
<1> HIDE DEF first
<1>3. log = <<first>> /\ pending = 0
  BY DEF Init, first
<1>4. /\ log \in Seq(Record) /\ Len(log) = 1 /\ DOMAIN log = {1} /\ log[1] = first
  BY <1>1, <1>3
<1>5. TypeOK
  <2>1. log \in Seq(Record) /\ pending \in 0..Len(log)
    BY <1>3, <1>4
  <2>2. /\ approved \subseteq Property /\ clock \in Nat
        /\ freshness \in {"CURRENT", "STALE", "UNKNOWN"}
    BY DEF Init
  <2> QED
    BY <2>1, <2>2 DEF TypeOK
<1>6. ReferenceInv
  BY <1>2, <1>4 DEF ReferenceInv
<1>7. SourceInv
  <2>1. ~Reconfigures(1)
    BY <1>2, <1>4, ChangeAssuranceAssumption DEF Reconfigures, Subject
  <2>2. BatchRows = {1}
    BY <1>2, <1>4 DEF BatchRows
  <2>3. log[1] = Batch(FirstSnapshot, Component, FALSE, 0, TRUE)
    BY <1>4 DEF first
  <2>4. \A b, q \in BatchRows : ~Follows(b, q)
    BY <2>2 DEF Follows
  <2>5. 1 \in DOMAIN log /\ pending # 1 /\ pending = 0
    BY <1>3, <1>4
  <2>6. \A b \in BatchRows : ~Reconfigures(b)
    BY <2>1, <2>2
  <2> QED
    BY <2>3, <2>4, <2>5, <2>6 DEF SourceInv
<1>8. ActivationChain
  BY <1>2, <1>4 DEF ActivationChain, Acknowledged, Rows
<1> QED
  BY <1>5, <1>6, <1>7, <1>8 DEF IInv

\* Every step keeps every variable in its type.
LEMMA TypeStep ==
  ASSUME TypeOK, ReferenceInv, [Next]_vars
  PROVE  TypeOK'
<1>1. CASE log' = log /\ pending' \in {pending, 0}
  BY <1>1, StepKeeps DEF TypeOK
<1>2. ASSUME NEW r, Writes(r) PROVE TypeOK'
  <2>1. pending' \in {pending, 0, Len(log) + 1}
    BY <1>2 DEF Writes
  <2>2. pending' \in 0..Len(log')
    BY <1>2, <2>1, WrittenLog DEF TypeOK
  <2> QED
    BY <1>2, <2>2, WrittenLog, StepKeeps DEF TypeOK
<1> QED
  BY <1>1, <1>2, StepWrites

\* What a new record names exists, and what was named stays as it was.
LEMMA ReferenceStep ==
  ASSUME TypeOK, ReferenceInv, [Next]_vars
  PROVE  ReferenceInv'
<1>1. CASE log' = log
  BY <1>1 DEF ReferenceInv, StateNames, DecisionNames, RequestNames, Named
<1>2. ASSUME NEW r, Writes(r) PROVE ReferenceInv'
  <2>0. /\ \A i \in DOMAIN log : i \in DOMAIN log' /\ log'[i] = log[i]
        /\ \A i \in DOMAIN log' \ DOMAIN log :
             log'[i] = r /\ \A j \in DOMAIN log : j < i
    BY <1>2, WrittenLog
  <2>1. \A i, k : Named(i, k) => Named(i, k)'
    BY <2>0 DEF Named
  <2>2. ASSUME NEW i \in DOMAIN log
        PROVE  /\ log'[i].kind = "system_state" => StateNames(i)'
               /\ log'[i].kind = "authorization_decision" => DecisionNames(i)'
               /\ log'[i].kind = "enforcement_request" => RequestNames(i)'
    BY <2>0, <2>1 DEF ReferenceInv, StateNames, DecisionNames, RequestNames
  <2>3. ASSUME NEW i \in DOMAIN log' \ DOMAIN log
        PROVE  /\ log'[i].kind = "system_state" => StateNames(i)'
               /\ log'[i].kind = "authorization_decision" => DecisionNames(i)'
               /\ log'[i].kind = "enforcement_request" => RequestNames(i)'
    <3>0. log'[i] = r /\ \A j \in DOMAIN log : j < i
      BY <2>0
    <3>1. r.kind = "system_state" => StateNames(i)'
      BY <1>2, <3>0, <2>1 DEF Writes, StateNames
    <3>2. r.kind = "authorization_decision" => DecisionNames(i)'
      <4>1. Named(r.state, "system_state") => r.state < i
        BY <3>0 DEF Named
      <4> QED
        BY <1>2, <3>0, <2>1, <4>1 DEF Writes, DecisionNames
    <3>3. r.kind = "enforcement_request" => RequestNames(i)'
      <4>1. r.kind = "enforcement_request" => Named(r.authorization, "authorization_decision")
        BY <1>2, RowsOf DEF Writes, AsksFor, Named
      <4> QED
        BY <3>0, <2>1, <4>1 DEF RequestNames
    <3> QED
      BY <3>0, <3>1, <3>2, <3>3
  <2> QED
    BY <2>2, <2>3 DEF ReferenceInv
<1> QED
  BY <1>1, <1>2, StepWrites

\* A source reads what was written before it: its own batches, all committed, of
\* which the last that projects is what a new snapshot is compared with.
LEMMA KnownIs ==
  ASSUME TypeOK, pending = 0, NEW q \in BatchRows, log[q].projects,
         \A c \in BatchRows : log[c].projects => c <= q,
         \A c \in BatchRows : ~Reconfigures(c)
  PROVE  Known = log[q].value
<1>1. DOMAIN log = 1..Len(log) /\ Len(log) \in Nat
  BY RowsOf
<1>2. Batches = BatchRows
  BY <1>1 DEF Batches, Rows, BatchRows
<1>3. Configured = 0
  <2>1. {b \in Batches : "connector_configuration" \in log[b].changed} = {}
    BY <1>2 DEF Reconfigures
  <2> QED
    BY <2>1 DEF Configured, Newest
<1> DEFINE S == {b \in Batches : log[b].projects /\ b > Configured}
<1>4. /\ S \in SUBSET (1..Len(log)) /\ q \in S /\ \A y \in S : y <= q
  BY <1>1, <1>2, <1>3 DEF BatchRows
<1>5. Newest(S) = q
  <2> HIDE DEF S
  <2> QED
    BY <1>1, <1>4, NewestOf
<1>6. Prior = q
  BY <1>5 DEF Prior
<1>7. q # 0
  <2>1. q \in 1..Len(log)
    BY <1>1 DEF BatchRows
  <2> QED
    BY <1>1, <2>1
<1> QED
  BY <1>6, <1>7 DEF Known

\* The source writes one batch at a time, each against the last one that counts.
LEMMA SourceStep ==
  ASSUME TypeOK, ReferenceInv, SourceInv, [Next]_vars
  PROVE  SourceInv'
<1>1. CASE log' = log /\ pending' \in {pending, 0}
  <2>1. BatchRows' = BatchRows /\ \A b : Reconfigures(b)' <=> Reconfigures(b)
    BY <1>1 DEF BatchRows, Reconfigures
  <2>2. \A b, q : Follows(b, q)' <=> Follows(b, q)
    BY <1>1, <2>1 DEF Follows
  <2>3. pending' # 0 => /\ pending' \in BatchRows' /\ ~Reconfigures(pending)'
                        /\ \A b \in BatchRows' : b <= pending'
    <3>1. pending # 0 => /\ pending \in BatchRows /\ ~Reconfigures(pending)
                         /\ \A b \in BatchRows : b <= pending
      BY DEF SourceInv
    <3>2. CASE pending' = pending
      BY <1>1, <2>1, <3>1, <3>2 DEF Reconfigures
    <3> QED
      BY <1>1, <3>2
  <2>4. /\ 1 \in DOMAIN log' /\ pending' # 1
        /\ log'[1] = Batch(FirstSnapshot, Component, FALSE, 0, TRUE)
    <3>1. pending' # 1 /\ 1 \in DOMAIN log
      BY <1>1 DEF SourceInv
    <3>2. log[1] = Batch(FirstSnapshot, Component, FALSE, 0, TRUE)
      BY DEF SourceInv
    <3> QED
      BY <1>1, <3>1, <3>2, Zenon
  <2>5. \A b \in BatchRows' : Reconfigures(b)' => log'[b].conservative
    BY <1>1, <2>1 DEF SourceInv
  <2>6. \A b, q \in BatchRows' : Follows(b, q)' =>
          \A x \in Subject : log'[b].value[x] # log'[q].value[x] => x \in log'[b].changed
    BY <1>1, <2>1, <2>2 DEF SourceInv
  <2> QED
    BY <2>3, <2>4, <2>5, <2>6 DEF SourceInv
<1>2. ASSUME NEW r, Writes(r) PROVE SourceInv'
  <2>0. /\ \A i \in DOMAIN log : i \in DOMAIN log' /\ log'[i] = log[i]
        /\ \A i \in DOMAIN log' \ DOMAIN log :
             log'[i] = r /\ i = Len(log) + 1 /\ \A j \in DOMAIN log : j < i
        /\ DOMAIN log = 1..Len(log) /\ Len(log) \in Nat
        /\ Len(log) + 1 \in DOMAIN log' /\ log'[Len(log) + 1] = r
    BY <1>2, WrittenLog
  <2>1. BatchRows \subseteq BatchRows'
    BY <2>0 DEF BatchRows
  <2>2. ASSUME NEW b \in BatchRows', b \notin BatchRows
        PROVE  /\ r.kind = "source_batch" /\ pending = 0 /\ log'[b] = r
               /\ b = Len(log) + 1 /\ \A j \in DOMAIN log : j < b
    BY <1>2, <2>0, <2>2 DEF BatchRows, Writes
  <2>3. \A b \in BatchRows : Reconfigures(b)' <=> Reconfigures(b)
    BY <2>0 DEF BatchRows, Reconfigures
  <2>4. /\ 1 \in DOMAIN log' /\ log'[1] = Batch(FirstSnapshot, Component, FALSE, 0, TRUE)
    BY <2>0 DEF SourceInv
  <2>5. pending' # 1
    <3>1. pending' \in {pending, 0, Len(log) + 1} /\ pending # 1
      BY <1>2 DEF Writes, SourceInv
    <3>2. Len(log) + 1 # 1
      BY <2>0 DEF SourceInv
    <3> QED
      BY <3>1, <3>2
  <2>6. pending' # 0 => /\ pending' \in BatchRows' /\ ~Reconfigures(pending)'
                        /\ \A b \in BatchRows' : b <= pending'
    <3>1. CASE r.kind # "source_batch"
      <4>1. BatchRows' = BatchRows /\ pending' = pending
        BY <1>2, <2>1, <2>2, <3>1 DEF Writes
      <4>2. pending # 0 => /\ pending \in BatchRows /\ ~Reconfigures(pending)
                           /\ \A b \in BatchRows : b <= pending
        BY DEF SourceInv
      <4> QED
        BY <2>0, <4>1, <4>2 DEF Reconfigures, BatchRows
    <3>2. CASE r.kind = "source_batch" /\ pending' # 0
      <4>1. pending' = Len(log) + 1 /\ "connector_configuration" \notin r.changed
        BY <1>2, <3>2 DEF Writes, Snapshot
      <4>2. pending' \in BatchRows' /\ ~Reconfigures(pending)'
        BY <2>0, <3>2, <4>1 DEF BatchRows, Reconfigures
      <4>3. \A b \in BatchRows' : b <= Len(log) + 1
        BY <2>0 DEF BatchRows
      <4> QED
        BY <4>1, <4>2, <4>3
    <3> QED
      BY <3>1, <3>2
  <2>7. \A b \in BatchRows' : Reconfigures(b)' => log'[b].conservative
    <3>1. ASSUME NEW b \in BatchRows PROVE Reconfigures(b)' => log'[b].conservative
      BY <2>0, <2>3 DEF SourceInv, BatchRows
    <3>2. ASSUME NEW b \in BatchRows', b \notin BatchRows
          PROVE  Reconfigures(b)' => log'[b].conservative
      BY <1>2, <2>2, <3>2 DEF Writes, Snapshot, Reset, Reconfigures
    <3> QED
      BY <3>1, <3>2
  <2>8. ASSUME NEW b \in BatchRows', NEW q \in BatchRows', Follows(b, q)', NEW x \in Subject,
               log'[b].value[x] # log'[q].value[x]
        PROVE  x \in log'[b].changed
    <3>0. /\ q < b /\ log'[q].projects
          /\ \A c \in BatchRows' : q < c /\ c < b => ~log'[c].projects
          /\ \A c \in BatchRows' : c <= b => ~Reconfigures(c)'
      BY <2>8 DEF Follows
    <3>1. q \in BatchRows
      BY <2>0, <2>2, <3>0 DEF BatchRows
    <3>2. CASE b \in BatchRows
      <4>1. \A c \in BatchRows : c \in BatchRows' /\ log'[c] = log[c]
        BY <2>0, <2>1 DEF BatchRows
      <4>2. Follows(b, q)
        BY <2>3, <3>0, <3>1, <4>1 DEF Follows
      <4> QED
        BY <2>8, <3>1, <3>2, <4>1, <4>2 DEF SourceInv
    <3>3. CASE b \notin BatchRows
      <4>1. /\ pending = 0 /\ log'[b] = r /\ b = Len(log) + 1
            /\ \A j \in DOMAIN log : j < b
        BY <2>2, <3>3
      <4>2. \A c \in BatchRows : c \in BatchRows' /\ log'[c] = log[c] /\ c < b /\ c \in Nat
        BY <2>0, <2>1, <4>1 DEF BatchRows
      <4>3. \A c \in BatchRows : log[c].projects => c <= q
        <5>1. q \in Nat
          BY <3>1, <4>2
        <5> QED
          BY <3>0, <4>2, <5>1
      <4>4. \A c \in BatchRows : ~Reconfigures(c)
        <5>1. b \in Nat /\ \A c \in BatchRows : c <= b
          BY <2>0, <4>1, <4>2
        <5> QED
          BY <2>3, <3>0, <4>2, <5>1
      <4>5. Known = log[q].value
        BY <3>0, <3>1, <4>1, <4>2, <4>3, <4>4, KnownIs
      <4>6. r.changed = Differing(r.value)
        BY <1>2, <2>2, <3>0, <3>3, <4>1 DEF Writes, Snapshot, Reset, Reconfigures
      <4> QED
        BY <2>8, <3>1, <4>1, <4>2, <4>5, <4>6 DEF Differing
    <3> QED
      BY <3>2, <3>3
  <2> QED
    BY <2>4, <2>5, <2>6, <2>7, <2>8 DEF SourceInv
<1> QED
  BY <1>1, <1>2, StepWrites

\* Only a batch can be uncommitted: every other record is seen when it is written.
Seen == \A k : k # "source_batch" => Rows(k) = {i \in DOMAIN log : log[i].kind = k}
LEMMA Visible == TypeOK /\ SourceInv => Seen
<1> SUFFICES ASSUME TypeOK, SourceInv PROVE Seen
  OBVIOUS
<1>1. pending \in DOMAIN log => log[pending].kind = "source_batch"
  <2>1. pending \in DOMAIN log => pending # 0
    BY RowsOf
  <2> QED
    BY <2>1 DEF SourceInv, BatchRows
<1> QED
  BY <1>1 DEF Seen, Rows

\* Along a chain of activations the epoch counts them.
LEMMA EpochCounts ==
  ASSUME TypeOK, ActivationChain
  PROVE  IsFiniteSet(Acknowledged) /\ Epoch = Cardinality(Acknowledged)
<1> DEFINE A == Acknowledged
           m == Max(A)
<1>0. A \in SUBSET (1..Len(log)) /\ Len(log) \in Nat
  BY EpochType, RowsOf
<1>1. IsFiniteSet(A)
  <2> HIDE DEF A
  <2>1. IsFiniteSet(1..Len(log))
    BY <1>0, FS_Interval
  <2> QED
    BY <1>0, <2>1, FS_Subset
<1>2. CASE A = {}
  BY <1>1, <1>2, FS_EmptySet DEF Epoch
<1>3. CASE A # {}
  <2>1. m \in A /\ \A y \in A : y <= m
    <3> HIDE DEF A
    <3>1. /\ Newest(A) \in A /\ Newest(A) = Max(A)
          /\ \A y \in A : y <= Newest(A)
      BY <1>0, <1>3, NewestOf
    <3> QED
      BY <3>1
  <2>2. {j \in A : j < m} = A \ {m}
    <3> HIDE DEF A, m
    <3>1. \A y \in A : y \in Nat /\ y <= m /\ m \in Nat
      BY <1>0, <2>1
    <3> QED
      BY <2>1, <3>1
  <2>3. log[m].applied = 1 + Cardinality({j \in A : j < m})
    BY <2>1 DEF ActivationChain
  <2>4. Cardinality(A \ {m}) = Cardinality(A) - 1 /\ Cardinality(A) \in Nat
    <3> HIDE DEF A, m
    <3> QED
      BY <1>1, <2>1, FS_RemoveElement, FS_CardinalityType
  <2>5. Epoch = log[m].applied
    BY <1>3 DEF Epoch
  <2> HIDE DEF A, m
  <2>6. Epoch = Cardinality(A)
    BY <2>2, <2>3, <2>4, <2>5
  <2> QED
    BY <1>1, <2>6 DEF A
<1> QED
  BY <1>2, <1>3

\* An acknowledged activation names the epoch that all those before it made, and
\* makes the next one.
LEMMA ActivationStep ==
  ASSUME TypeOK, ReferenceInv, SourceInv, ActivationChain, [Next]_vars,
         TypeOK', SourceInv'
  PROVE  ActivationChain'
<1>0. /\ Acknowledged = {i \in DOMAIN log : /\ log[i].kind = "enforcement_request"
                                            /\ log[i].applied > 0}
      /\ Acknowledged' = {i \in DOMAIN log' : /\ log'[i].kind = "enforcement_request"
                                              /\ log'[i].applied > 0}
  <2>1. Seen
    BY Visible
  <2>2. (TypeOK /\ SourceInv => Seen)'
    BY Visible, PTL
  <2>3. Seen'
    BY <2>2
  <2> QED
    BY <2>1, <2>3 DEF Seen, Acknowledged
<1>1. CASE log' = log
  BY <1>0, <1>1 DEF ActivationChain
<1>2. ASSUME NEW r, Writes(r) PROVE ActivationChain'
  <2>0. /\ \A i \in DOMAIN log : i \in DOMAIN log' /\ log'[i] = log[i] /\ i \in Nat
        /\ \A i \in DOMAIN log' \ DOMAIN log :
             log'[i] = r /\ i \in Nat /\ \A j \in DOMAIN log : j < i
        /\ \A i, j \in DOMAIN log' \ DOMAIN log : i = j
    BY <1>2, WrittenLog
  <2> SUFFICES ASSUME NEW i \in Acknowledged'
               PROVE  /\ log'[i].applied = 1 + Cardinality({j \in Acknowledged' : j < i})
                      /\ log'[log'[i].authorization].prior = log'[i].applied - 1
    BY DEF ActivationChain
  <2>1. CASE i \in DOMAIN log
    <3>1. i \in Acknowledged /\ log'[i] = log[i]
      BY <1>0, <2>0, <2>1
    <3>2. {j \in Acknowledged' : j < i} = {j \in Acknowledged : j < i}
      <4>1. \A j \in DOMAIN log' : j < i => j \in DOMAIN log
        BY <2>0, <2>1
      <4> QED
        BY <1>0, <2>0, <4>1
    <3>3. log[i].authorization \in DOMAIN log
      BY <1>0, <3>1 DEF ReferenceInv, RequestNames, Named
    <3> QED
      BY <2>0, <3>1, <3>2, <3>3 DEF ActivationChain
  <2>2. CASE i \notin DOMAIN log
    <3>1. /\ log'[i] = r /\ r.kind = "enforcement_request" /\ r.applied > 0
          /\ \A j \in DOMAIN log : j < i
      BY <1>0, <2>0, <2>2
    <3>2. AsksFor(r.authorization) /\ r.applied = Epoch + 1
      BY <1>2, <3>1 DEF Writes
    <3>3. {j \in Acknowledged' : j < i} = Acknowledged
      <4>1. \A j \in DOMAIN log' : j < i => j \in DOMAIN log
        <5>1. i \in DOMAIN log' \ DOMAIN log
          BY <1>0, <2>2
        <5> QED
          BY <2>0, <5>1
      <4> QED
        BY <1>0, <2>0, <3>1, <4>1
    <3>4. /\ log[r.authorization].prior = Epoch /\ r.authorization \in DOMAIN log
      BY <3>2, RowsOf DEF AsksFor
    <3>5. Epoch = Cardinality(Acknowledged) /\ Epoch \in Nat
      BY EpochCounts, EpochType
    <3>6. log'[i].applied = 1 + Cardinality({j \in Acknowledged' : j < i})
      BY <3>1, <3>2, <3>3, <3>5
    <3>7. log'[log'[i].authorization].prior = Epoch
      BY <2>0, <3>1, <3>4
    <3> QED
      BY <3>1, <3>2, <3>5, <3>6, <3>7
  <2> QED
    BY <2>1, <2>2
<1> QED
  BY <1>1, <1>2, StepWrites

-----------------------------------------------------------------------------
(* What support means *)

\* A supported property rests on its own evidence, which is newer than the authority
\* reviewed last, usable, and without a failure beside it.
LEMMA SupportRests ==
  ASSUME TypeOK, ReferenceInv, NEW s \in Rows("system_state"), NEW p, Supported(p, s)
  PROVE  /\ log[s].envelope = Newest(Rows("permission_envelope")) /\ Live(log[s].envelope)
         /\ \E e \in Evidence(p, log[s].config) :
              /\ e > log[s].envelope /\ Live(e)
              /\ log[e].security = "PASS" /\ log[e].task = "SUCCESS"
         /\ \A e \in Evidence(p, log[s].config) :
              log[e].security # "FAIL" /\ log[e].task # "FAILURE"
<1> DEFINE c == log[s].config
<1>1. RowEvidence(p, s) # 0 /\ StateReasons(s) = {}
  BY DEF Supported, EvidenceLabel
<1>2. log[s].envelope = Newest(Rows("permission_envelope")) /\ Live(log[s].envelope)
  <2>1. "authority" \notin StateReasons(s) /\ "expired" \notin StateReasons(s)
    BY <1>1
  <2> QED
    BY <2>1 DEF StateReasons
<1>3. /\ log[s].evidence # 0 /\ Selected(p, c) # 0
      /\ ~(Selected(p, c) < log[s].envelope)
  BY <1>1 DEF RowEvidence
<1>4. Selected(p, c) \in Evidence(p, c) /\ Usable(Selected(p, c))
  BY <1>3, EvidenceOf
<1>5. Selected(p, c) > log[s].envelope
  <2>1. log[Selected(p, c)].kind = "evidence_record"
    BY <1>4, EvidenceOf
  <2>2. /\ log[log[s].envelope].kind = "permission_envelope"
        /\ log[s].envelope \in DOMAIN log
    BY RowsOf DEF ReferenceInv, StateNames, Named
  <2>3. Selected(p, c) # log[s].envelope
    BY <2>1, <2>2
  <2>4. Selected(p, c) \in Nat /\ log[s].envelope \in Nat
    BY <2>2, EvidenceOf, RowsOf
  <2> QED
    BY <1>3, <2>3, <2>4
<1>6. \A e \in Evidence(p, c) : log[e].security # "FAIL"
  BY DEF Supported, RowSecurity, FailedIn
<1>7. \A e \in Evidence(p, c) : log[e].task # "FAILURE"
  BY <1>3 DEF Supported, RowTask
<1> QED
  BY <1>2, <1>4, <1>5, <1>6, <1>7 DEF Usable

\* A change that a supported property is not reached by is reconciled, or it is not
\* known at the time of the state, and read as dependencies of other properties.
LEMMA Unreached ==
  ASSUME TypeOK, SourceInv, NEW s \in Rows("system_state"), NEW p, Affecting(p, s) = {},
         NEW b \in Changes
  PROVE  /\ Before(b, s) => Reconciled(b, s)
         /\ ~Before(b, s) => /\ ReadAs(b, s) \subseteq Reviewed
                             /\ ReadAs(b, s) \cap Depends[p] = {}
         /\ ~Reconfigures(b)
<1>1. ~Reaches(b, p, s)
  BY DEF Affecting
<1>2. /\ Before(b, s) => Reconciled(b, s)
      /\ ~Before(b, s) => /\ ReadAs(b, s) \subseteq Reviewed
                          /\ ReadAs(b, s) \cap Depends[p] = {}
  BY <1>1 DEF Reaches, Reconciled
<1>3. ~Reconfigures(b)
  <2> SUFFICES ASSUME Reconfigures(b) PROVE FALSE
    OBVIOUS
  <2>1. b \in BatchRows /\ log[b].conservative
    BY RowsOf DEF Changes, Batches, BatchRows, SourceInv
  <2>2. ReadAs(b, s) = log[b].changed /\ ~Reconciled(b, s)
    BY <2>1 DEF ReadAs, FullyMapped, Reconciled
  <2>3. "connector_configuration" \in Reviewed
    BY <1>2, <2>2 DEF Reconfigures
  <2>4. PICK q \in approved : "connector_configuration" \in Depends[q]
    BY <2>3 DEF Reviewed
  <2>5. Depends[q] \subseteq Subject
    BY ChangeAssuranceAssumption DEF TypeOK, Subject
  <2> QED
    BY <2>4, <2>5, ChangeAssuranceAssumption
<1> QED
  BY <1>2, <1>3

\* The first batch is known to every state: it shows what all components were, so
\* that the last snapshot of that time agrees with a supported state on all of them.
LEMMA FirstReconciled ==
  ASSUME TypeOK, SourceInv, NEW s \in Rows("system_state"), NEW p,
         Affecting(p, s) = {}, Component # {}
  PROVE  LET w == Watermark(s)
         IN  /\ w \in Batches /\ log[w].projects /\ Before(w, s)
             /\ \A b \in Batches : log[b].projects /\ Before(b, s) => b <= w
             /\ \A k \in Component : log[w].value[k] = Captured[log[s].config][k]
<1>1. log[1] = Batch(FirstSnapshot, Component, FALSE, 0, TRUE) /\ 1 \in DOMAIN log /\ pending # 1
  BY DEF SourceInv
<1>2. /\ log[1].kind = "source_batch" /\ log[1].changed = Component
      /\ log[1].valid = 0 /\ log[1].projects
  BY <1>1 DEF Batch
<1>3. 1 \in Changes
  BY <1>1, <1>2 DEF Changes, Batches, Rows
<1>4. s \in DOMAIN log /\ log[s].kind = "system_state" /\ DOMAIN log = 1..Len(log) /\ Len(log) \in Nat
  BY RowsOf
<1>5. Anchor(s) \in Nat
  BY <1>4, Fields DEF Anchor
<1>6. Before(1, s)
  BY <1>2, <1>4, <1>5 DEF Before
<1>7. Reconciled(1, s)
  BY <1>3, <1>6, Unreached
<1> DEFINE W == {b \in Batches : log[b].projects /\ Before(b, s)}
<1>8. Watermark(s) = Newest(W)
  BY DEF Watermark
<1>9. W \in SUBSET (1..Len(log))
  BY RowsOf DEF Batches
<1>10. Newest(W) # 0 /\ \A k \in Component : log[Newest(W)].value[k] = Captured[log[s].config][k]
  BY <1>2, <1>7, <1>8 DEF Reconciled
<1>11. Newest(W) \in W /\ \A y \in W : y <= Newest(W)
  <2> HIDE DEF W
  <2> QED
    BY <1>4, <1>9, <1>10, NewestOf
<1> QED
  BY <1>8, <1>10, <1>11

\* Between two committed snapshots that differ in a subject there is a committed batch
\* that names it, when no reconfiguration came before it.
LEMMA DifferenceIsNamed ==
  ASSUME TypeOK, SourceInv, NEW k \in Subject,
         NEW v \in Batches, log[v].projects,
         NEW w \in Batches, log[w].projects, v <= w,
         log[w].value[k] # log[v].value[k],
         \A c \in Batches : c <= w => ~Reconfigures(c)
  PROVE  \E b \in Batches : v < b /\ b <= w /\ log[b].projects /\ k \in log[b].changed
<1>0. Batches \in SUBSET (1..Len(log)) /\ Len(log) \in Nat /\ Batches \subseteq BatchRows
  BY RowsOf DEF Batches, BatchRows
<1> DEFINE S == {b \in Batches : /\ log[b].projects /\ v < b /\ b <= w
                                 /\ log[b].value[k] # log[v].value[k]}
<1>1. v \in Nat /\ w \in Nat /\ v < w
  BY <1>0
<1>2. S \in SUBSET Nat /\ S # {}
  <2>1. w \in S
    BY <1>1
  <2>2. Batches \subseteq Nat
    BY <1>0
  <2> QED
    BY <2>1, <2>2
<1>3. PICK b \in S : \A y \in S : b <= y
  <2> HIDE DEF S
  <2> QED
    BY <1>2, Least
<1> DEFINE T == {q \in Batches : log[q].projects /\ q < b}
<1>4. T \in SUBSET (1..Len(log)) /\ v \in T
  BY <1>0, <1>3
<1>5. PICK q \in T : \A y \in T : y <= q
  <2> HIDE DEF T, S
  <2> QED
    BY <1>0, <1>4, NewestOf
<1>6. log[q].value[k] = log[v].value[k]
  <2>1. q \in Nat /\ b \in Nat /\ v <= q /\ q < b /\ q \in Batches /\ log[q].projects
    BY <1>0, <1>3, <1>4, <1>5
  <2>2. CASE q = v
    BY <2>2
  <2>3. CASE q # v
    <3>1. v < q /\ q <= w
      BY <1>1, <1>3, <2>1, <2>3
    <3>2. q \notin S
      BY <1>3, <2>1
    <3> QED
      BY <2>1, <3>1, <3>2
  <2> QED
    BY <2>2, <2>3
<1>7. Follows(b, q)
  <2>0. b \in Nat /\ q \in Nat /\ b \in Batches /\ q < b /\ log[q].projects
    BY <1>0, <1>3, <1>5
  <2>1. \A c \in BatchRows : c \in Batches \/ (c = pending /\ pending # 0)
    <3>1. \A c \in BatchRows : c # 0
      BY RowsOf DEF BatchRows
    <3> QED
      BY <3>1 DEF Batches, Rows, BatchRows
  <2>2. ASSUME NEW c \in BatchRows, q < c, c < b PROVE ~log[c].projects
    <3>0. c \in Nat
      BY RowsOf DEF BatchRows
    <3>1. CASE c \in Batches
      BY <1>5, <2>0, <2>2, <3>0, <3>1
    <3>2. CASE c = pending /\ pending # 0
      <4>1. b <= c
        BY <1>0, <2>0, <3>2 DEF SourceInv
      <4> QED
        BY <2>0, <2>2, <3>0, <4>1
    <3> QED
      BY <2>1, <3>1, <3>2
  <2>3. ASSUME NEW c \in BatchRows, c <= b PROVE ~Reconfigures(c)
    <3>0. c \in Nat /\ c <= w
      <4>1. c \in Nat
        BY RowsOf DEF BatchRows
      <4> QED
        BY <1>1, <1>3, <2>0, <2>3, <4>1
    <3>1. CASE c \in Batches
      BY <3>0, <3>1
    <3>2. CASE c = pending /\ pending # 0
      BY <3>2 DEF SourceInv
    <3> QED
      BY <2>1, <3>1, <3>2
  <2> QED
    BY <2>0, <2>2, <2>3 DEF Follows
<1>8. k \in log[b].changed
  <2>1. b \in BatchRows /\ q \in BatchRows /\ log[b].value[k] # log[q].value[k]
    BY <1>0, <1>3, <1>5, <1>6
  <2> HIDE DEF S, T
  <2> QED
    BY <1>7, <2>1 DEF SourceInv
<1> QED
  BY <1>3, <1>8

\* The last snapshot before a supported state shows the dependencies as the state has
\* them, whatever was recorded between the evidence and the state.
LEMMA SnapshotStands ==
  ASSUME TypeOK, SourceInv, NEW s \in Rows("system_state"), NEW p \in approved,
         Affecting(p, s) = {}, NEW k \in Depends[p]
  PROVE  LET w == Newest({b \in Batches : log[b].projects /\ b < s})
         IN  log[w].value[k] = Captured[log[s].config][k]
<1>0. k \in Component /\ k \in Subject /\ Component # {}
  BY ChangeAssuranceAssumption DEF TypeOK, Subject
<1>1. PICK v \in Batches :
        /\ log[v].projects /\ Before(v, s)
        /\ \A b \in Batches : log[b].projects /\ Before(b, s) => b <= v
        /\ log[v].value[k] = Captured[log[s].config][k]
  BY <1>0, FirstReconciled
<1>2. /\ s \in DOMAIN log /\ log[s].kind = "system_state"
      /\ DOMAIN log = 1..Len(log) /\ Len(log) \in Nat
      /\ Batches \in SUBSET (1..Len(log))
      /\ \A b \in Batches : log[b].kind = "source_batch" /\ b # s
  BY RowsOf DEF Batches
<1> DEFINE W == {b \in Batches : log[b].projects /\ b < s}
           w == Newest(W)
<1>3. v \in W
  <2>1. v \in Nat /\ s \in Nat /\ v # s /\ v <= s
    BY <1>1, <1>2 DEF Before
  <2> QED
    BY <1>1, <2>1
<1>4. w \in W /\ v <= w
  <2>1. W \in SUBSET (1..Len(log))
    BY <1>2
  <2> HIDE DEF W
  <2> QED
    BY <1>2, <1>3, <2>1, NewestOf
<1>5. /\ w \in Batches /\ log[w].projects /\ w < s
      /\ w \in Nat /\ v \in Nat /\ s \in Nat
  <2>1. w \in Batches /\ log[w].projects /\ w < s
    BY <1>4
  <2>2. Batches \subseteq Nat /\ s \in Nat
    BY <1>2
  <2> HIDE DEF w
  <2> QED
    BY <2>1, <2>2
<1> HIDE DEF w
<1>6. SUFFICES ASSUME log[w].value[k] # log[v].value[k] PROVE FALSE
  BY <1>1 DEF w
<1>7. \A c \in Batches : ~Reconfigures(c)
  <2>1. \A c \in Batches : Reconfigures(c) => c \in Changes
    BY DEF Changes, Reconfigures
  <2> QED
    BY <2>1, Unreached
<1>8. PICK b \in Batches : v < b /\ b <= w /\ log[b].projects /\ k \in log[b].changed
  BY <1>0, <1>1, <1>4, <1>5, <1>6, <1>7, DifferenceIsNamed
<1>9. b \in Nat /\ b < s
  <2>1. b \in Nat
    BY <1>2
  <2> QED
    BY <1>5, <1>8, <2>1
<1>10. ~Before(b, s)
  BY <1>1, <1>5, <1>8, <1>9
<1>11. b \in Changes
  BY <1>8 DEF Changes
<1>12. ReadAs(b, s) = log[b].changed
  BY <1>5, <1>9 DEF ReadAs
<1> QED
  BY <1>8, <1>10, <1>11, <1>12, Unreached

\* What the source has shown since a supported state is, by name or by review, a
\* dependency of other properties only.
LEMMA LaterIsElsewhere ==
  ASSUME TypeOK, SourceInv, NEW s \in Rows("system_state"), NEW p,
         Affecting(p, s) = {}, NEW b \in Batches, b > s, NEW x \in log[b].changed
  PROVE  \E named \in {{x}, MapsTo(x)} \ {{}} : named \subseteq Reviewed \ Depends[p]
<1>1. b \in Changes
  BY DEF Changes
<1>2. ~Before(b, s)
  <2>1. b \in Nat /\ s \in Nat
    BY RowsOf DEF Batches
  <2> QED
    BY <2>1 DEF Before
<1>3. ReadAs(b, s) \subseteq Reviewed \ Depends[p]
  BY <1>1, <1>2, Unreached
<1>4. CASE FullyMapped(b)
  <2>1. MapsTo(x) # {} /\ MapsTo(x) \subseteq ReadAs(b, s)
    BY <1>4 DEF FullyMapped, ReadAs
  <2> QED
    BY <1>3, <2>1
<1>5. CASE ~FullyMapped(b)
  <2>1. {x} \subseteq ReadAs(b, s) /\ {x} # {}
    BY <1>5 DEF ReadAs
  <2>2. {x} \in {{x}, MapsTo(x)} \ {{}}
    BY <2>1
  <2> QED
    BY <1>3, <2>1, <2>2
<1> QED
  BY <1>4, <1>5

\* Support is established.
LEMMA SupportSound ==
  ASSUME TypeOK, IInv, NEW s \in Rows("system_state"), NEW p \in approved, Supported(p, s)
  PROVE  Established(p, s)
<1>1. ReferenceInv /\ SourceInv /\ Affecting(p, s) = {}
  BY DEF IInv, Supported
<1> QED
  BY <1>1, SupportRests, SnapshotStands, LaterIsElsewhere DEF Established

\* When every property of the system is supported, the source has not changed at all
\* since the state: what changes is a dependency of some property or of none.
LEMMA WholeScope ==
  ASSUME TypeOK, SourceInv, NEW s \in Rows("system_state"), AllSupported(s),
         NEW b \in Batches, b > s
  PROVE  log[b].changed = {} /\ ~log[b].conservative
<1>0. PICK p \in approved : Supported(p, s)
  BY DEF AllSupported
<1>1. \A q \in approved : Affecting(q, s) = {}
  BY DEF AllSupported, Supported
<1> SUFFICES ASSUME b \in Changes PROVE FALSE
  BY Fields, RowsOf DEF Changes, Batches
<1>2. ~Before(b, s)
  <2>1. b \in Nat /\ s \in Nat
    BY RowsOf DEF Batches
  <2> QED
    BY <2>1 DEF Before
<1>3. /\ ReadAs(b, s) \subseteq Reviewed
      /\ \A q \in approved : ReadAs(b, s) \cap Depends[q] = {}
  BY <1>0, <1>1, <1>2, Unreached
<1>4. ReadAs(b, s) = {}
  BY <1>3 DEF Reviewed
<1>5. Reaches(b, p, s)
  BY <1>2, <1>4 DEF Reaches, Reconciled
<1> QED
  BY <1>1, <1>5 DEF Affecting

\* A decision that allows and is current: every property of the system is supported now.
LEMMA CurrentIsSupported ==
  ASSUME TypeOK, ReferenceInv, NEW d \in Rows("authorization_decision"),
         clearance_status(d) = "CURRENT", log[d].action = "ALLOW"
  PROVE  AllSupported(log[d].state)
<1>1. DecisionNames(d)
  BY RowsOf DEF ReferenceInv
<1>2. Support(log[d].state) = log[d].support
  BY DEF clearance_status
<1>3. /\ approved # {}
      /\ \A p \in approved : Support(log[d].state)[p][5]
  BY <1>1, <1>2 DEF DecisionNames, Support
<1> QED
  BY <1>3 DEF AllSupported, Support

\* Whoever holds a current statement that allows: its state is a visible one, every
\* property is supported in it and established, and the source has not changed since.
Covered(d) ==
    LET s == log[d].state
    IN  /\ s \in Rows("system_state") /\ AllSupported(s)
        /\ \A p \in approved : Established(p, s)
        /\ \A b \in Batches : b > s => log[b].changed = {} /\ ~log[b].conservative
CurrentIsCovered ==
    \A d \in Rows("authorization_decision") :
        clearance_status(d) = "CURRENT" /\ log[d].action = "ALLOW" => Covered(d)
LEMMA CurrentCovered == TypeOK /\ IInv => CurrentIsCovered
<1> SUFFICES ASSUME TypeOK, IInv, NEW d \in Rows("authorization_decision"),
                    clearance_status(d) = "CURRENT", log[d].action = "ALLOW"
             PROVE  Covered(d)
  BY DEF CurrentIsCovered
<1> DEFINE s == log[d].state
<1>1. ReferenceInv /\ SourceInv
  BY DEF IInv
<1>2. AllSupported(s)
  BY <1>1, CurrentIsSupported
<1>3. s \in Rows("system_state")
  <2>1. DecisionNames(d) /\ Seen
    BY <1>1, RowsOf, Visible DEF ReferenceInv
  <2> QED
    BY <2>1 DEF DecisionNames, Named, Seen
<1>4. \A p \in approved : Supported(p, s)
  BY <1>2 DEF AllSupported
<1>5. \A p \in approved : Established(p, s)
  BY <1>3, <1>4, SupportSound
<1>6. \A b \in Batches : b > s => log[b].changed = {} /\ ~log[b].conservative
  BY <1>1, <1>2, <1>3, WholeScope
<1> QED
  BY <1>2, <1>3, <1>5, <1>6 DEF Covered

\* What the gate clears.
LEMMA GateSound ==
  ASSUME TypeOK, IInv
  PROVE  GateIsSound
<1> SUFFICES ASSUME GateCleared PROVE GateIsSound
  BY DEF GateIsSound
<1> DEFINE d == GateDecision
           D == {i \in Rows("authorization_decision") : log[i].state = GateState}
<1>1. d \in D
  <2>1. D \in SUBSET DOMAIN log
    BY RowsOf
  <2>2. Newest(D) \in D \cup {0}
    <3> HIDE DEF D
    <3> QED
      BY <2>1, RowsOf
  <2>3. d # 0 /\ d = Newest(D)
    BY DEF GateCleared, GateDecision
  <2> HIDE DEF D, d
  <2> QED
    BY <2>2, <2>3
<1>2. /\ d \in Rows("authorization_decision") /\ log[d].state = GateState
      /\ clearance_status(d) = "CURRENT" /\ log[d].action = "ALLOW"
  BY <1>1 DEF GateCleared
<1>3. Covered(d)
  BY <1>2, CurrentCovered DEF CurrentIsCovered
<1>4. ~Revoked(d) /\ ~OtherStateObserved(d)
  BY <1>2 DEF clearance_status
<1> HIDE DEF d, D
<1>5. /\ \A p \in approved : Established(p, GateState)
      /\ \A b \in Batches : b > GateState => log[b].changed = {} /\ ~log[b].conservative
  BY <1>2, <1>3, Zenon DEF Covered
<1>6. \A i \in Rows("status_event") : log[i].authorization # d
  BY <1>4 DEF Revoked
<1>7. \A t \in Rows("change_event") : t > d /\ log[t].observed => log[t].after = GateState
  BY <1>2, <1>4 DEF OtherStateObserved
<1> QED
  BY <1>5, <1>6, <1>7 DEF GateIsSound, d

\* The newest decision of all, when it is for the newest state, is the gate's.
LEMMA ViewsAgree ==
  ASSUME TypeOK, ReferenceInv
  PROVE  ClearedViewsAgree
<1> SUFFICES ASSUME ClearanceCleared PROVE GateCleared
  BY DEF ClearedViewsAgree
<1> DEFINE A == Rows("authorization_decision")
           D == {i \in A : log[i].state = GateState}
           d == Newest(A)
<1>0. A \in SUBSET (1..Len(log)) /\ D \in SUBSET (1..Len(log)) /\ Len(log) \in Nat
  BY RowsOf
<1>1. /\ d # 0 /\ clearance_status(d) = "CURRENT" /\ log[d].action = "ALLOW"
      /\ log[d].state = GateState
  BY DEF ClearanceCleared
<1>2. d \in A /\ \A y \in A : y <= d
  <2> HIDE DEF A
  <2> QED
    BY <1>0, <1>1, NewestOf
<1>3. GateState # 0
  <2>1. Named(log[d].state, "system_state")
    BY <1>2, RowsOf DEF ReferenceInv, DecisionNames
  <2> QED
    BY <1>1, <2>1, RowsOf DEF Named
<1>4. d \in D /\ \A y \in D : y <= d
  BY <1>1, <1>2
<1> HIDE DEF d
<1>5. Newest(D) = d
  <2> HIDE DEF D
  <2> QED
    BY <1>0, <1>4, NewestOf
<1>6. GateDecision = d
  BY <1>5 DEF GateDecision
<1> QED
  BY <1>1, <1>3, <1>6 DEF GateCleared

\* What is asked of a target.
LEMMA AsksForCovered ==
  ASSUME TypeOK, IInv, [Next]_vars,
         NEW i \in DOMAIN log' \ DOMAIN log, log'[i].kind = "enforcement_request"
  PROVE  LET d == log'[i].authorization
         IN  /\ \A p \in approved : Established(p, log[d].state)
             /\ log[d].expires > clock
             /\ \A j \in DOMAIN log : log[j].kind = "enforcement_request" =>
                  log[j].authorization # d
<1>0. ReferenceInv /\ SourceInv
  BY DEF IInv
<1>1. PICK r : Writes(r)
  BY <1>0, StepWrites
<1>2. log'[i] = r
  BY <1>1, WrittenLog
<1> DEFINE d == r.authorization
<1>3. AsksFor(d)
  BY <1>1, <1>2 DEF Writes
<1>4. /\ d \in Rows("authorization_decision") /\ log[d].action = "ALLOW"
      /\ Live(d) /\ clearance_status(d) = "CURRENT"
  BY <1>3 DEF AsksFor, DecisionStatus
<1>5. \A p \in approved : Established(p, log[d].state)
  BY <1>4, CurrentCovered DEF CurrentIsCovered, Covered
<1>6. \A j \in DOMAIN log : log[j].kind = "enforcement_request" => log[j].authorization # d
  <2>1. Seen
    BY <1>0, Visible
  <2> QED
    BY <1>3, <2>1 DEF AsksFor, Seen
<1> QED
  BY <1>2, <1>4, <1>5, <1>6 DEF Live

\* What a transaction saw, every later one sees.
LEMMA RowsGrow ==
  ASSUME TypeOK, ReferenceInv, [Next]_vars
  PROVE  /\ \A k : \A i \in Rows(k) : i \in Rows(k)' /\ log'[i] = log[i]
         /\ \A i \in DOMAIN log : i \in DOMAIN log' /\ log'[i] = log[i]
<1>0. DOMAIN log = 1..Len(log) /\ Len(log) \in Nat
  BY RowsOf
<1>1. CASE log' = log /\ pending' \in {pending, 0}
  BY <1>0, <1>1 DEF Rows
<1>2. ASSUME NEW r, Writes(r)
      PROVE  /\ \A i \in DOMAIN log : i \in DOMAIN log' /\ log'[i] = log[i]
             /\ \A i \in DOMAIN log : i # pending => i # pending'
  <2>1. pending' \in {pending, 0, Len(log) + 1}
    BY <1>2 DEF Writes
  <2> QED
    BY <1>0, <1>2, <2>1, WrittenLog
<1> QED
  BY <1>1, <1>2, StepWrites DEF Rows

\* A statement that allowed and was withdrawn, overtaken or outlived stays so.
LEMMA LossIsFinal ==
  ASSUME TypeOK, IInv, [Next]_vars, TypeOK', IInv', NEW d \in Allowed,
         clearance_status(d) \in {"REVOKED", "SUPERSEDED", "EXPIRED"}
  PROVE  clearance_status(d)' # "CURRENT"
<1>0. ReferenceInv
  BY DEF IInv
<1> DEFINE s == log[d].state
<1>1. /\ d \in Rows("authorization_decision") /\ log[d].action = "ALLOW"
      /\ d \in DOMAIN log /\ log[d].kind = "authorization_decision"
  BY RowsOf DEF Allowed
<1>2. /\ s \in DOMAIN log /\ log[s].kind = "system_state" /\ s < d
      /\ log[s].envelope \in DOMAIN log
  BY <1>0, <1>1 DEF ReferenceInv, DecisionNames, StateNames, Named
<1>3. /\ \A k : \A i \in Rows(k) : i \in Rows(k)' /\ log'[i] = log[i]
      /\ \A i \in DOMAIN log : i \in DOMAIN log' /\ log'[i] = log[i]
  BY <1>0, RowsGrow
<1>4. log'[d] = log[d] /\ log'[s] = log[s] /\ log'[log[s].envelope] = log[log[s].envelope]
  BY <1>1, <1>2, <1>3
<1> HIDE DEF s
<1>5. CASE Revoked(d)
  <2>1. Revoked(d)'
    BY <1>3, <1>5 DEF Revoked
  <2> QED
    BY <2>1 DEF clearance_status
<1>6. CASE OtherStateObserved(d)
  <2>1. OtherStateObserved(d)'
    BY <1>3, <1>4, <1>6 DEF OtherStateObserved
  <2> QED
    BY <2>1 DEF clearance_status
<1>7. CASE LapsedState(s)
  <2>1. /\ clock \in Nat /\ clock' \in Nat /\ clock <= clock'
        /\ log[s].expires \in Nat /\ log[log[s].envelope].expires \in Nat
    BY <1>0, <1>2, StepKeeps, Fields DEF TypeOK, ReferenceInv, StateNames, Named
  <2>2. ~Live(log[s].envelope) => ~(log'[log'[s].envelope].expires > clock')
    BY <1>4, <2>1 DEF Live
  <2>3. log[s].expires <= clock => log'[s].expires <= clock'
    BY <1>4, <2>1
  <2>4. LapsedState(log[d].state)'
    BY <1>4, <1>7, <2>2, <2>3 DEF LapsedState, Live, s
  <2> QED
    BY <2>4 DEF clearance_status
<1>8. CASE Overtaken(d)
  <2>1. PICK b \in Changes : b > d
    BY <1>8 DEF Overtaken, Affecting
  <2>2. b \in Batches /\ (log[b].changed # {} \/ log[b].conservative)
    BY <2>1 DEF Changes
  <2>3. b \in Batches' /\ log'[b] = log[b]
    BY <1>3, <2>2 DEF Batches
  <2>4. b > s
    <3>1. b \in Nat /\ d \in Nat /\ s \in Nat
      BY <1>1, <1>2, <2>2, RowsOf DEF Batches
    <3> QED
      BY <1>2, <2>1, <3>1
  <2>5. (TypeOK /\ IInv => CurrentIsCovered)'
    BY CurrentCovered, PTL
  <2>6. ASSUME clearance_status(d)' = "CURRENT" PROVE Covered(d)'
    BY <1>1, <1>3, <1>4, <2>5, <2>6 DEF CurrentIsCovered
  <2>7. ~Covered(d)'
    BY <1>4, <2>2, <2>3, <2>4 DEF Covered, s
  <2> QED
    BY <2>6, <2>7
<1> QED
  BY <1>5, <1>6, <1>7, <1>8 DEF clearance_status, s

-----------------------------------------------------------------------------
(* The theorems *)

\* Every variable keeps its type, every reference its target, and the source's
\* batches their chain.
THEOREM Invariance == Spec => [](TypeOK /\ IInv)
<1>1. TypeOK /\ IInv /\ [Next]_vars => (TypeOK /\ IInv)'
  BY TypeStep, ReferenceStep, SourceStep, ActivationStep DEF IInv
<1> QED
  BY InvInit, <1>1, PTL DEF Spec

\* A property that reads as supported, in any state, is established by the records.
THEOREM SupportIsEstablishedAlways == Spec => []SupportIsEstablished
<1>1. TypeOK /\ IInv => SupportIsEstablished
  BY SupportSound DEF SupportIsEstablished
<1> QED
  BY <1>1, Invariance, PTL

\* The gate clears only a state that is established as a whole, and still the last one.
THEOREM GateIsSoundAlways == Spec => []GateIsSound
<1>1. TypeOK /\ IInv => GateIsSound
  BY GateSound
<1> QED
  BY <1>1, Invariance, PTL

\* What the operator's view calls cleared, the gate clears.
THEOREM ClearedViewsAgreeAlways == Spec => []ClearedViewsAgree
<1>1. TypeOK /\ IInv => ClearedViewsAgree
  BY ViewsAgree DEF IInv
<1> QED
  BY <1>1, Invariance, PTL

\* Activations form a chain of epochs.
THEOREM ActivationChainAlways == Spec => []ActivationChain
<1>1. IInv => ActivationChain
  BY DEF IInv
<1> QED
  BY <1>1, Invariance, PTL

\* An activation is asked for what is established then, alive, and once.
THEOREM ActivationIsEstablishedAlways == Spec => ActivationIsEstablished
<1>1. TypeOK /\ IInv /\ [Next]_vars =>
        [\A i \in DOMAIN log' \ DOMAIN log :
           log'[i].kind = "enforcement_request" =>
             LET d == log'[i].authorization
             IN  /\ \A p \in approved : Established(p, log[d].state)
                 /\ log[d].expires > clock
                 /\ \A j \in DOMAIN log : log[j].kind = "enforcement_request" =>
                      log[j].authorization # d]_vars
  BY AsksForCovered
<1> QED
  BY <1>1, Invariance, PTL DEF Spec, ActivationIsEstablished

\* An ALLOW that was lost does not come back.
THEOREM ClearanceLossIsFinalAlways == Spec => ClearanceLossIsFinal
<1>1. TypeOK /\ IInv /\ [Next]_vars /\ (TypeOK /\ IInv)' =>
        [\A d \in Allowed : clearance_status(d) \in {"REVOKED", "SUPERSEDED", "EXPIRED"} =>
           clearance_status(d)' # "CURRENT"]_vars
  BY LossIsFinal
<1> QED
  BY <1>1, Invariance, PTL DEF Spec, ClearanceLossIsFinal
=============================================================================
