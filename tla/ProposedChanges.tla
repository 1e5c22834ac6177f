--------------------------- MODULE ProposedChanges ---------------------------
(***************************************************************************)
(* What would this change break?  Declared agent definitions and tool      *)
(* catalogs (agent_definitions.py, connectors/collectors.py), the direction *)
(* in which a change moves authority and the claims it reaches             *)
(* (source_semantics.py, assurance_intelligence.py), asked of a proposed    *)
(* definition without applying it (proposed_changes.py).                    *)
(*                                                                         *)
(* A definition has one agent, the tools "pay" and "read", an approval for  *)
(* "pay" and a server.  An authorization block maps paths to leaves: lists, *)
(* or texts such as "true".                                                 *)
(***************************************************************************)
EXTENDS Integers, FiniteSets, Sequences, SequencesExt

CONSTANTS
    Definition,  \* agent definitions and MCP catalogs that are observed or proposed
    Revisited,   \* bound: those of a second observation, and the past that is replayed
    Mapping,     \* reviewed mappings: subjects to claim dependencies
    MaxLeaves    \* MAX_LEAVES

\* A catalog of which no authorization was captured declares no approval.
ASSUME DefinitionAssumption ==
    \A d \in Definition :
        /\ d.format \in {"manifest", "crewai", "claude_subagent", "claude_settings", "mcp_json",
                         "langgraph", "mcp"}
        /\ d.format = "mcp" /\ ~d.captured => d.approval = "absent"

VARIABLES
    connector,   \* of the installation: mcp or agent_definition
    observed,    \* the source's newest batch
    mapping,     \* the reviewed mapping in force
    assessment   \* the one proposed_change_assessment of the idempotency key

changeVars == <<connector, observed, mapping, assessment>>

ToolNames == {"pay", "read"}
Nothing == [format |-> "none"]
Expanded == "AUTHORITY_EXPANDED"
Contracted == "AUTHORITY_CONTRACTED"
Equivalent == "AUTHORITY_EQUIVALENT"
UnknownImpact == "UNKNOWN_IMPACT"

List(items) == [text |-> "list", items |-> items]
Text(text) == [text |-> text, items |-> {}]

-----------------------------------------------------------------------------
(* ADAPTERS: the authorization block that a definition declares.            *)

\* Paths in the order of their text, under their last segments.
Paths == <<"agents", "allow_delegation", "denied_tools", "agent_tools", "servers",
           "allow", "default_mode", "deny", "tools", "approval_required">>
With(block, path, value) == IF value = "absent" THEN block
                            ELSE [p \in DOMAIN block \cup {path} |->
                                      IF p = path THEN Text(value) ELSE block[p]]
Empty == [p \in {} |-> Text("")]
\* A tool that only an agent's requires_approval names, or none at all.
ToolConditions(d, block) ==
    IF d.approval = "absent" THEN With(block, "tools", "empty")
    ELSE With(block, "approval_required", d.approval)

manifest(d) ==
    ToolConditions(d,
        IF ~d.agent THEN With(Empty, "agents", "empty")
        ELSE With([p \in {"denied_tools", "agent_tools"} |->
                       List(IF p = "agent_tools" THEN d.tools ELSE d.denied)],
                  "allow_delegation", d.delegation))
crewai(d) ==
    IF ~d.agent THEN With(Empty, "agents", "empty")
    ELSE With([p \in {"agent_tools"} |-> List(d.tools)], "allow_delegation", d.delegation)
\* Omitted tools are inherited, never an empty list.
claude_subagent(d) ==
    [p \in {"agent_tools"} |-> IF d.inherits THEN Text("INHERITED_ALL") ELSE List(d.tools)]
claude_settings(d) ==
    With([p \in {"allow", "deny"} |-> List(IF p = "allow" THEN d.tools ELSE d.denied)],
         "default_mode", d.mode)
mcp_json(d) == [p \in {"servers"} |-> List(d.servers)]
\* collectors.py: an MCP catalog may carry a declared authorization block.
catalog(d) == ToolConditions(d, Empty)

Captured(d) == d.format # "langgraph" /\ (d.format = "mcp" => d.captured)
Authorization(d) ==
    CASE d.format = "manifest" -> manifest(d)
      [] d.format = "crewai" -> crewai(d)
      [] d.format = "claude_subagent" -> claude_subagent(d)
      [] d.format = "claude_settings" -> claude_settings(d)
      [] d.format = "mcp_json" -> mcp_json(d)
      [] d.format = "mcp" -> catalog(d)

\* bounded_authorization: the first leaves of the walk, and that there were more.
Leaves(block) == SelectSeq(Paths, LAMBDA p : p \in DOMAIN block)
Truncated(block) == Cardinality(DOMAIN block) > MaxLeaves
Bounded(block) ==
    IF ~Truncated(block) THEN block
    ELSE LET kept == {Leaves(block)[i] : i \in 1..MaxLeaves}
         IN [p \in kept \cup {"__bounded__"} |->
                IF p = "__bounded__" THEN Text("true") ELSE block[p]]

-----------------------------------------------------------------------------
(* snapshot_of, as_batch: components and facts                              *)

\* Names and digests of the components; a catalog's own component covers all of it.
Components(d) ==
    CASE d.format = "langgraph" -> [k \in {"graph"} |-> <<1>>]
      [] d.format = "mcp" ->
           [k \in {"mcp"} \cup d.exposed \cup (IF d.captured THEN {"permissions"} ELSE {}) |->
               IF k = "mcp" THEN <<d.exposed, d.contract, d.captured, d.approval>>
               ELSE IF k = "permissions" THEN <<Authorization(d)>>
               ELSE IF k = "pay" THEN <<d.contract>> ELSE <<1>>]
      [] OTHER ->
           [k \in {"permissions"} \cup (IF d.host = 0 THEN {} ELSE {"mcp"}) |->
               IF k = "mcp" THEN <<d.host>> ELSE <<Authorization(d)>>]

Complete(d) == d.format # "langgraph" /\ (d.format = "mcp" => d.complete)
\* A partial snapshot adds components and removes none; its facts are its own.
AsBatch(d, prior) ==
    [definition |-> d,
     components |-> IF Complete(d) \/ prior = Nothing THEN Components(d)
                    ELSE [k \in DOMAIN Components(d) \cup DOMAIN prior.components |->
                             IF k \in DOMAIN Components(d) THEN Components(d)[k]
                             ELSE prior.components[k]]]

-----------------------------------------------------------------------------
(* classify_condition: the direction of one fact                            *)

\* _restriction: what a text says of a restriction or a grant.
Requires(block, path) == path \in DOMAIN block /\ block[path].text \in {"true", "required"}
Lifted(block, path) == path \in DOMAIN block /\ block[path].text \in {"false", "optional"}
Items(block, path) == IF path \in DOMAIN block THEN block[path].items ELSE {}
Comparable(block, path) == path \in DOMAIN block => block[path].text = "list"
Modes == <<"plan", "default", "acceptEdits", "bypassPermissions">>

Restriction(b, a, p) ==
    IF Requires(b, p) /\ (Lifted(a, p) \/ p \notin DOMAIN a) THEN Expanded
    ELSE IF Requires(a, p) /\ (Lifted(b, p) \/ p \notin DOMAIN b) THEN Contracted ELSE UnknownImpact
Allowance(b, a, p) ==
    IF ~Comparable(b, p) \/ ~Comparable(a, p) THEN UnknownImpact
    ELSE IF Items(a, p) \ Items(b, p) # {} THEN Expanded
    ELSE IF Items(b, p) \ Items(a, p) # {} THEN Contracted ELSE Equivalent
\* A variant that differs from the code: a denial that was added hides one that was removed.
DenialAddedFirst(b, a, p) ==
    IF ~Comparable(b, p) \/ ~Comparable(a, p) THEN UnknownImpact
    ELSE IF Items(a, p) \ Items(b, p) # {} THEN Contracted
    ELSE IF Items(b, p) \ Items(a, p) # {} THEN Expanded ELSE Equivalent
Denial(b, a, p) ==
    IF ~Comparable(b, p) \/ ~Comparable(a, p) THEN UnknownImpact
    ELSE IF Items(b, p) \ Items(a, p) # {} THEN Expanded
    ELSE IF Items(a, p) \ Items(b, p) # {} THEN Contracted ELSE Equivalent
Grant(b, a, p) ==
    IF Requires(a, p) /\ Lifted(b, p) THEN Expanded
    ELSE IF Lifted(a, p) /\ Requires(b, p) THEN Contracted ELSE UnknownImpact
Mode(b, a, p) ==
    IF \A block \in {b, a} : p \in DOMAIN block /\ Contains(Modes, block[p].text)
    THEN LET i == CHOOSE n \in 1..4 : Modes[n] = b[p].text
             j == CHOOSE n \in 1..4 : Modes[n] = a[p].text
         IN IF j > i THEN Expanded ELSE Contracted
    ELSE UnknownImpact
Direction(b, a, p) ==
    CASE p = "approval_required" -> Restriction(b, a, p)
      [] p \in {"agent_tools", "allow", "servers", "tools"} -> Allowance(b, a, p)
      [] p \in {"denied_tools", "deny"} -> Denial(b, a, p)
      [] p = "allow_delegation" -> Grant(b, a, p)
      [] p = "default_mode" -> Mode(b, a, p)
      [] OTHER -> UnknownImpact

Combine(directions) ==
    IF Expanded \in directions THEN Expanded
    ELSE IF UnknownImpact \in directions THEN UnknownImpact
    ELSE IF Contracted \in directions THEN Contracted ELSE Equivalent

-----------------------------------------------------------------------------
(* authorization_diff, interface_diff                                       *)

Exposed(d) == IF d.format = "mcp" THEN d.exposed ELSE {}
Introduced(b, a) == Exposed(a) \ Exposed(b)
Withdrawn(b, a) == IF Complete(a) THEN Exposed(b) \ Exposed(a) ELSE {}
Recontracted(b, a) ==
    IF "pay" \in Exposed(b) \cap Exposed(a) THEN b.contract # a.contract ELSE FALSE

InterfaceDiff(b, a) ==
    (IF Introduced(b, a) # {} THEN {Expanded} ELSE {})
    \cup (IF Withdrawn(b, a) # {} THEN {Contracted} ELSE {})
    \cup (IF Recontracted(b, a) THEN {UnknownImpact} ELSE {})

Moved(b, a) ==
    {p \in DOMAIN b \cup DOMAIN a : ~(p \in DOMAIN b /\ p \in DOMAIN a /\ b[p] = a[p])}
\* The approval's subject is the tool "pay"; conditions come and go with their interface.
MovedDirection(b, a, x, y, p) ==
    IF p = "approval_required" /\ "pay" \in Introduced(b, a) /\ p \notin DOMAIN x THEN Equivalent
    ELSE IF p = "approval_required" /\ "pay" \in Withdrawn(b, a) /\ p \notin DOMAIN y THEN Equivalent
    ELSE Direction(x, y, p)
\* The paths that moved with their directions; one-sided capture has no path of its own.
AuthorizationDiff(b, a) ==
    IF ~Captured(b) /\ ~Captured(a) THEN {}
    ELSE IF ~Captured(b) \/ ~Captured(a) THEN {<<"authorization", UnknownImpact>>}
    ELSE LET x == Bounded(Authorization(b))
             y == Bounded(Authorization(a))
         IN {<<p, MovedDirection(b, a, x, y, p)>> : p \in Moved(x, y)}
Unexplainable(b, a) == ~Captured(b) /\ ~Captured(a) /\ InterfaceDiff(b, a) = {}
Classification(b, a) ==
    IF Unexplainable(b, a) THEN UnknownImpact
    ELSE Combine({d[2] : d \in AuthorizationDiff(b, a)} \cup InterfaceDiff(b, a))

-----------------------------------------------------------------------------
(* explain_source_change, scope_change, reached_claims                      *)

MovedComponents(b, a) ==
    {k \in DOMAIN b.components \cup DOMAIN a.components :
        ~(k \in DOMAIN b.components /\ k \in DOMAIN a.components
          /\ b.components[k] = a.components[k])}

\* What a changed component is called; {} when it cannot be named.
PathsMoved(b, a) == {d[1] : d \in AuthorizationDiff(b, a)}
CarriedElsewhere(b, a) ==
    PathsMoved(b.definition, a.definition) # {} \/ MovedComponents(b, a) \cap ToolNames # {}
Subjects(b, a) ==
    UNION {IF k = "permissions" THEN PathsMoved(b.definition, a.definition) \ {"authorization"}
           ELSE IF k = "mcp" THEN {} ELSE {k} : k \in MovedComponents(b, a)}
Unexplained(b, a) ==
    {k \in MovedComponents(b, a) :
        \/ k = "permissions" /\ PathsMoved(b.definition, a.definition) \cap {"authorization"} # {}
        \/ k = "permissions" /\ PathsMoved(b.definition, a.definition) = {}
        \/ k = "mcp" /\ ~CarriedElsewhere(b, a)}

FullyMapped(b, a, map) ==
    Unexplained(b, a) = {} /\ Subjects(b, a) # {} /\ Subjects(b, a) \subseteq DOMAIN map
\* Two claims, each named as its one reviewed dependency; what is not scoped reaches both.
Claims == {"first", "second"}
Reached(b, a, map) ==
    LET dependencies == {map[s] : s \in Subjects(b, a)}
    IN IF FullyMapped(b, a, map) THEN IF dependencies \subseteq Claims THEN dependencies ELSE Claims
       ELSE Claims

Evaluate(b, a, map) ==
    [before |-> b, after |-> a, map |-> map,
     effect |-> IF b = Nothing THEN "NO_BASELINE"
                ELSE IF MovedComponents(b, a) = {} THEN "NO_CHANGE"
                ELSE IF Reached(b, a, map) # {} THEN "WOULD_REQUIRE_REPROOF" ELSE "NO_CLAIM_AFFECTED",
     classification |-> IF b = Nothing THEN UnknownImpact
                        ELSE IF MovedComponents(b, a) = {} THEN Equivalent
                        ELSE Classification(b.definition, a.definition),
     reached |-> IF b = Nothing THEN {}
                 ELSE IF MovedComponents(b, a) = {} THEN {} ELSE Reached(b, a, map)]

-----------------------------------------------------------------------------

Readable == {d \in Definition : (d.format = "mcp") = (connector = "mcp")}

ProposedInit ==
    /\ connector \in {"mcp", "agent_definition"}
    /\ observed = Nothing
    /\ mapping \in Mapping
    /\ assessment = Nothing

\* ingest; an assessment never changes what is current, nor the reverse.
Observe(d) ==
    /\ assessment = Nothing
    /\ observed # Nothing => d \in Revisited /\ observed.definition \notin Revisited
    /\ observed' = AsBatch(d, observed)
    /\ UNCHANGED <<connector, mapping, assessment>>

Propose(d) ==
    /\ assessment = Nothing
    /\ assessment' = Evaluate(observed, AsBatch(d, observed), mapping)
    /\ UNCHANGED <<connector, observed, mapping>>

\* Two revisions of the past, judged by today's mapping.
Replay(d, e) ==
    /\ assessment = Nothing /\ observed = Nothing
    /\ LET first == AsBatch(d, Nothing)
       IN assessment' = Evaluate(first, AsBatch(e, first), mapping)
    /\ UNCHANGED <<connector, observed, mapping>>

ProposedNext ==
    \/ \E d \in Readable : Observe(d) \/ Propose(d)
    \/ \E d \in Readable \cap Revisited, e \in Readable : Replay(d, e)

ProposedSpec == ProposedInit /\ [][ProposedNext]_changeVars

-----------------------------------------------------------------------------
(* Properties                                                               *)

\* What a definition declares that the agent may do, when a grant that it leaves open is,
\* or is not, given by the framework.
Uses(d) ==
    IF d.format = "claude_subagent" THEN (IF d.inherits THEN ToolNames ELSE d.tools)
    ELSE IF d.format = "mcp" THEN d.exposed
    ELSE IF d.format = "manifest" THEN (IF d.agent THEN d.tools \ d.denied ELSE {})
    ELSE IF d.format = "crewai" THEN (IF d.agent THEN d.tools ELSE {})
    ELSE IF d.format = "claude_settings" THEN d.tools \ d.denied ELSE {}
Unattended(d) ==
    IF d.format \in {"manifest", "mcp"} THEN "pay" \in Uses(d) /\ d.approval \notin {"true", "required"}
    ELSE "pay" \in Uses(d)
Delegates(d, default) ==
    IF d.format \in {"manifest", "crewai"}
    THEN d.agent /\ (d.delegation = "true" \/ (d.delegation = "absent" /\ default)) ELSE FALSE
ModesOf(d) ==
    IF d.format = "claude_settings" /\ Contains(Modes, d.mode)
    THEN {Modes[n] : n \in 1..(CHOOSE m \in 1..4 : Modes[m] = d.mode)} ELSE {}
HasAgent(d) == IF d.format \in {"manifest", "crewai"} THEN d.agent ELSE FALSE
Contained(d, e) ==
    /\ Uses(d) \subseteq Uses(e) /\ ModesOf(d) \subseteq ModesOf(e)
    /\ Unattended(d) => Unattended(e)
    /\ \A default \in IF HasAgent(e) THEN BOOLEAN ELSE {FALSE} : Delegates(d, default) => Delegates(e, default)

Compared == IF assessment = Nothing THEN FALSE ELSE assessment.before # Nothing

\* An assessment that calls authority contracted or equivalent compares with a definition
\* that allowed at least as much: no combination of lists, denials, approvals, grants and
\* modes, within a format or across two of them, hides an expansion.  (combine: "EXPANDED
\* unless it is provably contained".)  Two blocks that were both cut off at the bound are
\* left out: their hidden leaves are never compared; so is the open grant of an agent that
\* appears without tools, or with another format.
ContainedUnlessExpanded ==
    (/\ Compared
     /\ assessment.classification \in {Contracted, Equivalent}) =>
        LET b == assessment.before.definition
            a == assessment.after.definition
        IN \/ Captured(b) /\ Captured(a) /\ Truncated(Authorization(b)) /\ Truncated(Authorization(a))
           \/ Contained(a, b)

\* A claim is said to hold on only if every component that changed is named and mapped to
\* other claims' dependencies.  A server of an agent definition that moves together with
\* the permissions is left out: it gets no name and is forgotten.
UnreachedIsMapped ==
    Compared =>
    \A claim \in Claims \ assessment.reached :
        LET b == assessment.before
            a == assessment.after
            Spared(name) == name \in DOMAIN assessment.map /\ assessment.map[name] # claim
        IN \A k \in MovedComponents(b, a) :
              \/ k # "permissions" /\ Spared(k)
              \/ k = "permissions" /\ \A p \in PathsMoved(b.definition, a.definition) : Spared(p)
              \/ k = "mcp" /\ CarriedElsewhere(b, a)

\* What a dry run plays down, it plays down rightly.
DryRunIsConservative == ContainedUnlessExpanded /\ UnreachedIsMapped

-----------------------------------------------------------------------------
(* The inductive invariant behind the proof: what is compared are batches,  *)
(* with all components of their definitions and, when they are complete,    *)
(* with no other, and an assessment is what evaluate computes of them.      *)

IsBatch(o) ==
    /\ o.definition \in Definition /\ (o.definition.format = "mcp") = (connector = "mcp")
    /\ \A k \in DOMAIN Components(o.definition) :
          k \in DOMAIN o.components /\ o.components[k] = Components(o.definition)[k]
    /\ Complete(o.definition) => o.components = Components(o.definition)
ProposedInv ==
    /\ observed # Nothing => IsBatch(observed)
    /\ assessment # Nothing =>
          /\ assessment = Evaluate(assessment.before, assessment.after, assessment.map)
          /\ IsBatch(assessment.after)
          /\ assessment.before # Nothing => IsBatch(assessment.before)
=============================================================================
