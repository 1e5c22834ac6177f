------------------------------- MODULE Intake -------------------------------
(***************************************************************************)
(* What is read of customers' sources: tool catalogs of MCP servers, page  *)
(* by page while the server may change (mcp_discovery.py), and documents   *)
(* that are imported, normalized to a partial fingerprint and reviewed     *)
(* (intake.py, telemetry_intake.py, composition_intake.py,                 *)
(* integration_intake_api.py).                                             *)
(*                                                                         *)
(* A document is modelled by the facts it states: a sequence of events,    *)
(* each with the components it reports, a bill of materials with its graph *)
(* or a scanner's report.  Formats differ in which facts they can state.   *)
(***************************************************************************)
EXTENDS Integers, SequencesExt, FiniteSetsExt

CONSTANTS
    Tool,        \* a sequence: the server lists tools in this order
    Version,     \* contents of a tool, positive numbers
    PageSize, MaxPages,
    Slot,        \* what a component can be about
    RequestKey,  \* idempotency keys
    Document,    \* what is imported
    MaxCatalogs, MaxServerChanges

ASSUME IntakeAssumption == PageSize \in Nat \ {0} /\ Len(Tool) \in Nat
\* The events of a trace, each with the digests that it reports.
TraceEvent == [id : Int, ordered : BOOLEAN, supported : BOOLEAN, reports : [Slot -> Int]]
ASSUME TraceAssumption ==
    \A doc \in Document : doc.kind = "trace" => doc.events \in Seq(TraceEvent)

VARIABLES
    server,    \* what the server lists: a version for each tool, or 0
    moved,     \* how often it changed
    discovery, \* the pages read so far, and what the server listed meanwhile
    catalogs,  \* the captured catalogs, the newest last
    intakes,   \* integration_intake records by idempotency key
    reviews    \* fingerprint_review records by idempotency key

ivars == <<server, moved, discovery, catalogs, intakes, reviews>>

-----------------------------------------------------------------------------
(* discover_mcp_tools and diff_mcp_tools *)

Tools == 1..Len(Tool)
NotDiscovering == [page |-> 0, after |-> 0, found |-> [t \in Tools |-> 0], seen |-> [t \in Tools |-> {}]]

\* A server whose cursor names the last tool of a page.
Page(after) ==
    LET rest == {t \in Tools : t > after /\ server[t] # 0}
    IN  {t \in rest : Cardinality({u \in rest : u < t}) < PageSize}
Rest(after) == {t \in Tools : t > after /\ server[t] # 0} \ Page(after)

\* capture_mcp_tools; what was listed meanwhile is kept for the properties.
Catalog(found, seen, complete) == [tools |-> found, seen |-> seen, complete |-> complete]

ServerChanges(t, v) ==
    /\ moved < MaxServerChanges
    /\ server[t] # v
    /\ server' = [server EXCEPT ![t] = v]
    /\ moved' = moved + 1
    /\ discovery' = IF discovery.page = 0 THEN discovery
                    ELSE [discovery EXCEPT !.seen[t] = @ \cup {v}]
    /\ UNCHANGED <<catalogs, intakes, reviews>>

Begin == [NotDiscovering EXCEPT !.seen = [t \in Tools |-> {server[t]}]]
\* Fault: what was read up to the page limit is taken for the catalog.
LastPageOrLimit(d) == Rest(d.after) = {} \/ d.page + 1 = MaxPages
\* The catalog is complete when the server gives no further cursor.
LastPage(d) == Rest(d.after) = {}
\* One tools/list request; the first one starts a discovery.
ReadPage ==
    LET d == IF discovery.page = 0 THEN Begin ELSE discovery
        found == [t \in Tools |-> IF t \in Page(d.after) THEN server[t] ELSE d.found[t]]
    IN  /\ Len(catalogs) < MaxCatalogs
        /\ d.page < MaxPages
        /\ IF LastPage(d)
           THEN /\ catalogs' = Append(catalogs, Catalog(found, d.seen, TRUE))
                /\ discovery' = NotDiscovering
           ELSE /\ discovery' = [page |-> d.page + 1, after |-> Max(Page(d.after)),
                                 found |-> found, seen |-> d.seen]
                /\ UNCHANGED catalogs
        /\ UNCHANGED <<server, moved, intakes, reviews>>
\* The page limit, or any error: nothing is captured.
AbandonDiscovery ==
    /\ discovery.page > 0
    /\ discovery' = NotDiscovering
    /\ UNCHANGED <<server, moved, catalogs, intakes, reviews>>
\* One result submitted by hand does not claim to be all of them.
SubmitPage ==
    /\ discovery.page = 0 /\ Len(catalogs) < MaxCatalogs
    /\ LET page == Page(0)
       IN  catalogs' = Append(catalogs,
             Catalog([t \in Tools |-> IF t \in page THEN server[t] ELSE 0], Begin.seen,
                     FALSE))
    /\ UNCHANGED <<server, moved, discovery, intakes, reviews>>

DiffKind(old, new, t) ==
    CASE old.tools[t] = new.tools[t] -> "UNCHANGED"
      [] old.tools[t] = 0 /\ new.tools[t] # 0 ->
           IF old.complete THEN "ADDED" ELSE "PREVIOUSLY_UNOBSERVED"
      [] old.tools[t] # 0 /\ new.tools[t] = 0 ->
           IF new.complete THEN "REMOVED" ELSE "NOT_OBSERVED"
      [] OTHER -> "CHANGED"
DiffStatus(old, new) ==
    IF ~old.complete \/ ~new.complete THEN "UNKNOWN"
    ELSE IF \E t \in Tools : DiffKind(old, new, t) # "UNCHANGED" THEN "CHANGED"
    ELSE "UNCHANGED"

-----------------------------------------------------------------------------
(* Normalization *)

\* Of an event: the digest it reports of each slot, 0 when it says the component is
\* there but not what it is, -1 when it says nothing of it.
Silent == -1
Unknown == [digest |-> 0, provenance |-> "UNKNOWN"]
Reported(d) == [digest |-> d, provenance |-> IF d = 0 THEN "UNKNOWN" ELSE "OBSERVED"]

\* Fault: the last report wins.
LastReport(known, new) == Reported(new)
\* component(): two reports that differ define no candidate, whatever comes after.
Agreed(known, new) ==
    IF known = Reported(Silent) \/ known = Reported(new) THEN Reported(new) ELSE Unknown

\* Events of kinds the parser does not support are left out before they are looked at.  For
\* one of the others that is repeated, or ends before it starts, the import is refused.
\* (OTLP also refuses repeated spans of kinds that it leaves out.)
Acceptable(doc) ==
    doc.kind = "trace" =>
        LET supported == {i \in DOMAIN doc.events : doc.events[i].supported}
        IN  /\ \A i, j \in supported : doc.events[i].id = doc.events[j].id => i = j
            /\ \A i \in supported : doc.events[i].ordered
Counts(e, s) == e.supported /\ e.reports[s] # Silent
\* _Projection, for spans, agent exports and hooks: what is known of a slot after so
\* many events, and in the end.
Known(events, s) ==
    LET known[n \in 0..Len(events)] ==
          IF n = 0 THEN Reported(Silent)
          ELSE IF Counts(events[n], s) THEN Agreed(known[n - 1], events[n].reports[s])
          ELSE known[n - 1]
    IN  known
Projected(events) == [s \in Slot |-> Known(events, s)[Len(events)]]

\* normalize_cyclonedx: components are declared; those without an entry in the graph, and
\* references that nothing resolves, leave what is covered unknown.
Unresolved(bom) == (DOMAIN bom.graph \cup UNION {bom.graph[r] : r \in DOMAIN bom.graph}) \ bom.objects
MissingGraph(bom) == bom.objects \ DOMAIN bom.graph
Covered(bom) == bom.complete /\ Unresolved(bom) = {} /\ MissingGraph(bom) = {}
Composed(bom) ==
    [s \in Slot |-> IF s \in bom.objects THEN [digest |-> 1, provenance |-> "DECLARED"]
                    ELSE IF s \in Unresolved(bom) THEN Unknown ELSE Reported(Silent)]

\* normalize_sarif: unverified findings, and nothing of the system's components.
Findings == [s \in Slot |-> Reported(Silent)]

Normalized(doc) ==
    CASE doc.kind = "bom" -> [facts |-> Composed(doc), covered |-> Covered(doc)]
      [] doc.kind = "trace" -> [facts |-> Projected(doc.events), covered |-> FALSE]
      [] doc.kind = "sarif" -> [facts |-> Findings, covered |-> FALSE]
Present(facts) == {s \in Slot : facts[s] # Reported(Silent)}

-----------------------------------------------------------------------------
(* create_intake and approve_fingerprint; both hold the account's row *)

create_intake(key, doc) ==
    /\ key \notin DOMAIN intakes
    /\ Acceptable(doc)
    /\ intakes' = [k \in DOMAIN intakes \cup {key} |->
                     IF k = key THEN [doc |-> doc, facts |-> Normalized(doc).facts,
                                      covered |-> Normalized(doc).covered]
                     ELSE intakes[k]]
    /\ UNCHANGED <<server, moved, discovery, catalogs, reviews>>

\* What a reviewer may sign: every imported component with its content; what was
\* missing stays missing.
Retains(fingerprint, facts) ==
    \A s \in Present(facts) :
        /\ fingerprint[s] # Reported(Silent)
        /\ fingerprint[s].digest = facts[s].digest
        /\ facts[s].provenance = "UNKNOWN" => fingerprint[s].provenance = "UNKNOWN"
Declared(c) == IF c.provenance = "OBSERVED" THEN [c EXCEPT !.provenance = "DECLARED"] ELSE c
Fingerprints ==
    [Slot -> {Reported(Silent), Unknown} \cup
             [digest : {1, 2}, provenance : {"OBSERVED", "DECLARED"}]]
approve_fingerprint(key, of, fingerprint) ==
    /\ key \notin DOMAIN reviews
    /\ of \in DOMAIN intakes
    /\ Present(intakes[of].facts) # {}
    /\ Retains(fingerprint, intakes[of].facts)
    /\ reviews' = [k \in DOMAIN reviews \cup {key} |->
                     IF k = key THEN [of |-> of, facts |-> [s \in Slot |-> Declared(fingerprint[s])]]
                     ELSE reviews[k]]
    /\ UNCHANGED <<server, moved, discovery, catalogs, intakes>>

IntakeInit ==
    /\ server \in [Tools -> {0, 1}] /\ moved = 0
    /\ discovery = NotDiscovering /\ catalogs = <<>>
    /\ intakes = <<>> /\ reviews = <<>>
Discovering ==
    \/ \E t \in Tools, v \in Version \cup {0} : ServerChanges(t, v)
    \/ ReadPage \/ AbandonDiscovery \/ SubmitPage
Importing ==
    \/ \E key \in RequestKey, doc \in Document : create_intake(key, doc)
    \/ \E key, of \in RequestKey, fingerprint \in Fingerprints :
          approve_fingerprint(key, of, fingerprint)
IntakeNext == Discovering \/ Importing

IntakeSpec == IntakeInit /\ [][IntakeNext]_ivars

-----------------------------------------------------------------------------
(* Properties *)

\* A comparison of two catalogs says of a server that changes while it is read only what
\* was so: REMOVED and ADDED of a tool that was not listed at some time of the second, of
\* the first reading; UNCHANGED when each tool had the same content at some time of both.
ComparisonIsTrue ==
    \A i, j \in DOMAIN catalogs : i < j =>
        LET old == catalogs[i]
            new == catalogs[j]
        IN  \A t \in Tools :
              /\ DiffKind(old, new, t) = "REMOVED" => 0 \in new.seen[t]
              /\ DiffKind(old, new, t) = "ADDED" => 0 \in old.seen[t]
              /\ DiffStatus(old, new) = "UNCHANGED" => old.seen[t] \cap new.seen[t] # {}

\* A reviewed fingerprint has no observed fact, and states the content of a component
\* that events name only if every one of them that names it states that content, in
\* whatever order the source reported them.
ReviewNeverPromotes ==
    \A r \in DOMAIN reviews :
        LET doc == intakes[reviews[r].of].doc
        IN  \A s \in Slot :
              /\ reviews[r].facts[s].provenance # "OBSERVED"
              /\ (doc.kind = "trace" /\ reviews[r].facts[s].provenance # "UNKNOWN") =>
                   \A i \in DOMAIN doc.events :
                      doc.events[i].supported /\ doc.events[i].reports[s] # Silent =>
                        doc.events[i].reports[s] = reviews[r].facts[s].digest

-----------------------------------------------------------------------------
(* The inductive invariant behind the proof about catalogs *)

Contents == Version \cup {0, 1}
Listing == [Tools -> Contents]
Listings == [Tools -> SUBSET Contents]
CatalogTypes ==
    /\ server \in Listing
    /\ discovery \in [page : Nat, after : Nat, found : Listing, seen : Listings]
    /\ catalogs \in Seq([tools : Listing, seen : Listings, complete : BOOLEAN])

\* What the pages before the cursor said was so when they were read; nothing is known
\* of the tools after it, and what is listed now counts as seen.
DiscoveryInv ==
    discovery.page > 0 =>
        \A t \in Tools :
            /\ server[t] \in discovery.seen[t]
            /\ IF t <= discovery.after THEN discovery.found[t] \in discovery.seen[t]
               ELSE discovery.found[t] = 0
CatalogInv ==
    \A i \in DOMAIN catalogs : catalogs[i].complete =>
        \A t \in Tools : catalogs[i].tools[t] \in catalogs[i].seen[t]

IntakeInv == CatalogTypes /\ DiscoveryInv /\ CatalogInv

\* What the proof about reviews needs: an imported trace keeps what was projected of it,
\* and a review declares a fingerprint that retains what was imported.
TraceInv ==
    \A k \in DOMAIN intakes :
        intakes[k].doc.kind = "trace" =>
            intakes[k].doc \in Document /\ intakes[k].facts = Projected(intakes[k].doc.events)
ReviewInv ==
    \A r \in DOMAIN reviews :
        /\ reviews[r].of \in DOMAIN intakes
        /\ \E fingerprint \in Fingerprints :
              /\ Retains(fingerprint, intakes[reviews[r].of].facts)
              /\ reviews[r].facts = [s \in Slot |-> Declared(fingerprint[s])]
=============================================================================
