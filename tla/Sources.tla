------------------------------ MODULE Sources ------------------------------
(***************************************************************************)
(* One connector installation (connectors/__init__.py, connector_api.py):  *)
(* its configurations, the batches it delivers by import, push or poll,    *)
(* the changes and the health it records, and what installation_health     *)
(* reads from them.  Every handler holds the installation's row from its   *)
(* first statement to its commit, also while collect waits for the source, *)
(* and is one action.                                                      *)
(***************************************************************************)
EXTENDS Integers, Sequences, FiniteSetsExt

CONSTANTS
    Component, Value,   \* what a source reports: positive digests of components
    Position,           \* [sequence, cursor, previous]: where a sender says a batch belongs
    Lifetime,           \* freshness_seconds of the role
    Validity,           \* lifetimes given to a configuration
    MaxRecords,         \* of batches and configurations
    MaxHealth, MaxSourceTime

ASSUME SourcesAssumption ==
    /\ Lifetime \in Int /\ Validity \subseteq Int
    /\ MaxSourceTime \in Nat

VARIABLES
    mode,           \* IMPORT, PUSH or POLL
    configuration,  \* connector_configuration records, the newest last
    batch,          \* source_batch records
    change,         \* source_change records
    health,         \* source_health records
    time

svars == <<mode, configuration, batch, change, health, time>>

Absent == [k \in Component |-> 0]
Unplaced == [sequence |-> 0, cursor |-> 0, previous |-> 0]

\* create_installation.
SourcesInit ==
    /\ mode \in {"IMPORT", "PUSH", "POLL"}
    /\ \E ttl \in Validity : configuration = <<[active |-> TRUE, expires |-> ttl]>>
    /\ batch = <<>> /\ change = <<>> /\ health = <<>>
    /\ time = 0

Current == Len(configuration)
\* authorize.
MayDeliver == configuration[Current].active /\ configuration[Current].expires > time

\* previous_batch: the last batch that projects, whatever its configuration.
Projecting == {i \in DOMAIN batch : batch[i].projects}
PriorBatch == IF Projecting = {} THEN 0 ELSE Max(Projecting)
SameConfig == PriorBatch # 0 /\ batch[PriorBatch].config = Current
Old == batch[PriorBatch]

Reordered(valid, at) ==
    /\ SameConfig
    /\ \/ valid < Old.valid
       \/ at.sequence # 0 /\ Old.place.sequence # 0 /\ at.sequence <= Old.place.sequence
Gap(at) ==
    /\ SameConfig
    /\ \/ Old.place.sequence # 0 /\ at.sequence > Old.place.sequence + 1
       \/ at.previous # 0 /\ at.previous # Old.place.cursor
       \/ Old.place.cursor # 0 /\ at.previous = 0
       \/ Old.place.sequence # 0 /\ at.sequence = 0
\* Fault: the next batch in sequence ends a gap.
ContinuityOfBatch(reconciled, complete, valid, at) ==
    IF reconciled /\ complete /\ ~Reordered(valid, at) THEN "SNAPSHOT_RECONCILED"
    ELSE IF Reordered(valid, at) THEN Old.continuity
    ELSE IF Gap(at) THEN "CURSOR_GAP"
    ELSE IF ~complete THEN "PARTIAL"
    ELSE IF mode = "IMPORT" THEN "IMPORTED_SNAPSHOT" ELSE "UNKNOWN"
Continuity(reconciled, complete, valid, at) ==
    IF reconciled /\ complete /\ ~Reordered(valid, at) THEN "SNAPSHOT_RECONCILED"
    ELSE IF Reordered(valid, at) THEN Old.continuity
    ELSE IF Gap(at) \/ (SameConfig /\ Old.continuity = "CURSOR_GAP") THEN "CURSOR_GAP"
    ELSE IF ~complete THEN "PARTIAL"
    ELSE IF mode = "IMPORT" THEN "IMPORTED_SNAPSHOT" ELSE "UNKNOWN"

\* A partial observation adds to what is known and removes nothing.
OldComponents == IF SameConfig THEN Old.components ELSE Absent
Merged(reported, complete) ==
    IF complete THEN reported
    ELSE [k \in Component |-> IF reported[k] # 0 THEN reported[k] ELSE OldComponents[k]]
\* Fault: a component that is no longer reported is not a change.
ChangedOfReported(components) ==
    {k \in Component : components[k] # 0 /\ components[k] # OldComponents[k]}
ChangedComponents(components) == {k \in Component : components[k] # OldComponents[k]}

Health(status, projects) ==
    IF projects THEN Append(health, [status |-> status, at |-> time, of |-> Len(batch)])
    ELSE health
persist_batch(reported, complete, valid, at, reconciled) ==
    LET components == Merged(reported, complete)
        late == Reordered(valid, at)
        continuity == Continuity(reconciled, complete, valid, at)
        names == ChangedComponents(components)
    IN  /\ Len(batch) + Current < MaxRecords
        /\ batch' = Append(batch, [config |-> Current, valid |-> valid, place |-> at,
                                   complete |-> complete, components |-> components,
                                   projects |-> ~late, continuity |-> continuity])
        /\ change' = IF names # {} \/ Gap(at)
                     THEN Append(change, [names |-> names, after |-> Len(batch) + 1,
                                          kind |-> IF Gap(at) THEN "SOURCE_GAP"
                                                   ELSE "COMPONENT_CHANGE"])
                     ELSE change
        /\ health' = Health(IF continuity = "SNAPSHOT_RECONCILED" THEN "CURRENT"
                            ELSE continuity, ~late)
        /\ UNCHANGED <<mode, configuration, time>>

\* An event that was recorded before is answered from its record (replay), or refused:
\* no step.
ingest(reported, complete, valid, at) ==
    /\ mode # "POLL" /\ MayDeliver
    /\ valid <= time
    /\ persist_batch(reported, complete, valid, at, FALSE)

\* record_failure.
Failed(code) == Append(health, [status |-> code, at |-> time, of |-> Len(batch)])
Failures == {"PARTIAL", "INVALID_RESPONSE", "UNAUTHORIZED", "RATE_LIMITED", "UNAVAILABLE"}
\* What one read can say.  A ref is read twice and whole or not at all; Cloud Run always
\* has its four components, and may be reconciling; a catalog's tools come and go.
Reports == [Component -> Value \cup {0}]
github_snapshot == [reported : [Component -> Value], complete : {TRUE}]
cloud_run_snapshot == [reported : [Component -> Value], complete : BOOLEAN]
collect_mcp == [reported : Reports, complete : BOOLEAN]
imported_snapshot == [reported : Reports, complete : BOOLEAN]
Collected == github_snapshot \cup cloud_run_snapshot \cup collect_mcp

\* One collection per interval: no health record yet at this time.
CollectAllowed ==
    /\ mode = "POLL" /\ MayDeliver
    /\ \A h \in DOMAIN health : health[h].at < time
collect_source(reported, complete) ==
    /\ CollectAllowed
    /\ persist_batch(reported, complete, time, Unplaced, TRUE)
collect_failure(code) ==
    /\ CollectAllowed
    /\ Len(health) < MaxHealth
    /\ health' = Failed(code)
    /\ UNCHANGED <<mode, configuration, batch, change, time>>

\* reconfigure names what the last delivered batch held, projecting or not.
reconfigure(active, ttl) ==
    /\ Len(batch) + Current < MaxRecords
    /\ configuration' = Append(configuration, [active |-> active, expires |-> time + ttl])
    /\ change' = Append(change,
         [names |-> IF batch = <<>> THEN {}
                    ELSE {k \in Component : batch[Len(batch)].components[k] # 0},
          after |-> Len(batch), kind |-> "CONNECTOR_CONFIGURATION"])
    /\ health' = Failed("CONFIGURATION_CHANGED")
    /\ UNCHANGED <<mode, batch, time>>

SourcesTick ==
    /\ time < MaxSourceTime
    /\ time' = time + 1
    /\ UNCHANGED <<mode, configuration, batch, change, health>>

SourcesNext ==
    \/ \E snapshot \in imported_snapshot, v \in 0..MaxSourceTime, at \in Position :
          ingest(snapshot.reported, snapshot.complete, v, at)
    \/ \E snapshot \in Collected : collect_source(snapshot.reported, snapshot.complete)
    \/ \E code \in Failures : collect_failure(code)
    \/ \E active \in BOOLEAN, ttl \in Validity : reconfigure(active, ttl)
    \/ SourcesTick

SourcesSpec == SourcesInit /\ [][SourcesNext]_svars

-----------------------------------------------------------------------------
(* installation_health *)

Unreliable == {"CONFIGURATION_CHANGED", "UNAUTHORIZED", "UNAVAILABLE", "PARTIAL",
               "INVALID_RESPONSE", "RATE_LIMITED", "CURSOR_GAP"}
LastStatus == IF health = <<>> THEN "DECLARED" ELSE health[Len(health)].status
Freshness ==
    IF ~MayDeliver \/ ~SameConfig THEN "UNKNOWN"
    ELSE IF Old.valid + Lifetime <= time THEN "STALE"
    ELSE IF LastStatus \in Unreliable THEN "UNKNOWN" ELSE "CURRENT"

-----------------------------------------------------------------------------
(* Properties *)

\* Whatever becomes of deliveries (late, partial, repeated, out of sequence, under
\* another configuration), what two batches that project say differently of a component
\* was announced in between: by its name, or as a reconfiguration, which no claim survives.
DifferencesAreAnnounced ==
    \A i, j \in Projecting : i < j =>
        \A k \in Component : batch[i].components[k] # batch[j].components[k] =>
            \E c \in DOMAIN change :
                /\ change[c].after \in i..j
                /\ k \in change[c].names \/ change[c].kind = "CONNECTOR_CONFIGURATION"

\* A source reads as current only if, under the authorization in force, its newest
\* observation in source time is complete and young, nothing failed after it, and every
\* hole in its history was closed by a snapshot the server collected itself.
FreshnessIsEarned ==
    Freshness = "CURRENT" =>
        LET mine == {i \in Projecting : batch[i].config = Current}
            holes == {change[c].after : c \in {d \in DOMAIN change :
                                                  change[d].kind = "SOURCE_GAP"}}
        IN  /\ MayDeliver /\ mine # {}
            /\ \A i \in mine : batch[i].valid <= Old.valid
            /\ Old.complete /\ Old.valid + Lifetime > time
            /\ \A h \in DOMAIN health :
                 health[h].of >= PriorBatch => health[h].status \notin Failures
            /\ \A g \in holes \cap mine :
                 \E i \in mine : i >= g /\ batch[i].continuity = "SNAPSHOT_RECONCILED"

-----------------------------------------------------------------------------
(* The inductive invariant behind the proofs *)

Continuities == {"SNAPSHOT_RECONCILED", "CURSOR_GAP", "PARTIAL", "IMPORTED_SNAPSHOT", "UNKNOWN"}
BatchRecord ==
    [config : Nat, valid : Nat, place : Position \cup {Unplaced}, complete : BOOLEAN,
     components : Reports, projects : BOOLEAN, continuity : Continuities]
ChangeRecord ==
    [names : SUBSET Component, after : Nat,
     kind : {"SOURCE_GAP", "COMPONENT_CHANGE", "CONNECTOR_CONFIGURATION"}]
Statuses == Failures \cup Continuities \cup {"CURRENT", "CONFIGURATION_CHANGED"}
HealthRecord == [status : Statuses, at : Nat, of : Nat]
SourceTypes ==
    /\ mode \in {"IMPORT", "PUSH", "POLL"}
    /\ configuration \in Seq([active : BOOLEAN, expires : Int]) /\ Current > 0
    /\ batch \in Seq(BatchRecord)
    /\ change \in Seq(ChangeRecord)
    /\ health \in Seq(HealthRecord)
    /\ time \in Nat

\* A batch of a configuration that is no longer in force lies before a reconfiguration.
Reconfigured(i) ==
    \E c \in DOMAIN change : /\ change[c].kind = "CONNECTOR_CONFIGURATION"
                             /\ change[c].after \in i..Len(batch)
ConfigInv ==
    /\ \A i \in DOMAIN batch : batch[i].config <= Current
    /\ \A i \in DOMAIN batch : batch[i].config < Current => Reconfigured(i)
    /\ \A i, j \in DOMAIN batch : i <= j => batch[i].config <= batch[j].config
    /\ \A c \in DOMAIN change : change[c].after <= Len(batch)

\* What projects under one configuration comes in the order of the source's time.
OrderInv ==
    \A i, j \in Projecting :
        i <= j /\ batch[i].config = batch[j].config => batch[i].valid <= batch[j].valid

\* As long as the last health record is not a bad one, it is that of the prior batch.
Whole == {"SNAPSHOT_RECONCILED", "IMPORTED_SNAPSHOT", "UNKNOWN"}
StatusFrom(i) ==
    IF batch[i].continuity = "SNAPSHOT_RECONCILED" THEN "CURRENT" ELSE batch[i].continuity
StatusInv ==
    /\ \A i \in Projecting : batch[i].continuity \in Whole => batch[i].complete
    /\ \A h \in DOMAIN health : health[h].of <= Len(batch)
    /\ Projecting # {} =>
         /\ health # <<>>
         /\ LastStatus \notin Unreliable =>
              /\ LastStatus = StatusFrom(PriorBatch)
              /\ \A h \in DOMAIN health : health[h].of < PriorBatch

\* A hole stays in the prior batch's continuity until a snapshot of the server closes it.
Closed(g) ==
    \E i \in Projecting : /\ i >= g /\ batch[i].config = batch[g].config
                          /\ batch[i].continuity = "SNAPSHOT_RECONCILED"
HoleInv ==
    \A c \in DOMAIN change :
        LET g == change[c].after
        IN  (/\ change[c].kind = "SOURCE_GAP" /\ g \in Projecting
             /\ batch[PriorBatch].config = batch[g].config) =>
               Closed(g) \/ batch[PriorBatch].continuity = "CURSOR_GAP"

SourceInv ==
    /\ SourceTypes /\ ConfigInv /\ OrderInv /\ StatusInv /\ HoleInv
    /\ DifferencesAreAnnounced
=============================================================================
