--------------------------- MODULE ValidityProofs ---------------------------
(***************************************************************************)
(* What a change leaves as it was.  Validity: for every set of components, *)
(* finite or not, and every pair of fingerprints, what the worklist has    *)
(* reached when it is empty is the least set closed under the dependencies *)
(* of both, and a judgement of STILL_VALID means that nothing in such a    *)
(* set is affected.  ProposedChanges: for every pair of definitions, what  *)
(* a dry run calls harmless allows nothing new.                            *)
(***************************************************************************)
EXTENDS Validity, ProposedChanges, TLAPS

\* The two ways of collecting the dependencies of a key agree.
LEMMA SameDependencies ==
    ASSUME NEW k
    PROVE  DependsOn(k) = Dependencies(k)
<1>1. CASE k \in DOMAIN old
  <2>1. CASE k \in DOMAIN new
    <3>1. {g \in {old, new} : k \in DOMAIN g} = {old, new}
      BY <1>1, <2>1
    <3> QED BY <3>1, <1>1, <2>1 DEF DependsOn, Dependencies
  <2>2. CASE k \notin DOMAIN new
    <3>1. {g \in {old, new} : k \in DOMAIN g} = {old}
      BY <1>1, <2>2
    <3> QED BY <3>1, <1>1, <2>2 DEF DependsOn, Dependencies
  <2> QED BY <2>1, <2>2
<1>2. CASE k \notin DOMAIN old
  <2>1. CASE k \in DOMAIN new
    <3>1. {g \in {old, new} : k \in DOMAIN g} = {new}
      BY <1>2, <2>1
    <3> QED BY <3>1, <1>2, <2>1 DEF DependsOn, Dependencies
  <2>2. CASE k \notin DOMAIN new
    <3>1. {g \in {old, new} : k \in DOMAIN g} = {}
      BY <1>2, <2>2
    <3> QED BY <3>1, <1>2, <2>2 DEF DependsOn, Dependencies
  <2> QED BY <2>1, <2>2
<1> QED BY <1>1, <1>2

\* The components of the arguments, taken apart once for the proofs below.
LEMMA InputParts ==
    ASSUME input \in Call
    PROVE  /\ DOMAIN old \subseteq Component /\ DOMAIN new \subseteq Component
           /\ Bound \subseteq Component
           /\ \A k \in DOMAIN old : old[k].dependencies \subseteq Component
           /\ \A k \in DOMAIN new : new[k].dependencies \subseteq Component
<1>2. old \in Fingerprint /\ new \in Fingerprint /\ scope \in Scope
  BY DEF Call, old, new, scope
<1>3. ASSUME NEW f \in Fingerprint
      PROVE  /\ DOMAIN f \subseteq Component
             /\ \A k \in DOMAIN f : f[k].dependencies \subseteq Component
  <2>1. PICK C \in SUBSET Component : f \in [C -> Entry]
    BY DEF Fingerprint
  <2> QED BY <2>1 DEF Entry
<1>4. Bound \subseteq Component
  <2>1. scope.bindings \in UNION {[C -> SUBSET Digest] : C \in SUBSET Component}
    BY <1>2 DEF Scope
  <2>2. PICK C \in SUBSET Component : scope.bindings \in [C -> SUBSET Digest]
    BY <2>1
  <2> QED BY <2>2 DEF Bound
<1> QED BY <1>2, <1>3, <1>4

\* Roots and dependencies are components.
LEMMA WithinComponents ==
    ASSUME input \in Call
    PROVE  /\ Roots \subseteq Component
           /\ \A k : Dependencies(k) \subseteq Component
BY InputParts DEF Roots, Listed, Dependencies

LEMMA TypeInit == ValidityInit => CallsTyped
BY WithinComponents DEF ValidityInit, CallsTyped

LEMMA TypeStep == CallsTyped /\ [ValidityNext]_validityVars => CallsTyped'
<1> SUFFICES ASSUME CallsTyped, [ValidityNext]_validityVars PROVE CallsTyped'
  OBVIOUS
<1>1. ASSUME NEW k \in pending, Visit(k) PROVE CallsTyped'
  BY <1>1, WithinComponents DEF CallsTyped, Visit
<1>2. CASE Judge
  BY <1>2 DEF CallsTyped, Judge
<1>3. CASE UNCHANGED validityVars
  BY <1>3 DEF CallsTyped, validityVars
<1> QED BY <1>1, <1>2, <1>3 DEF ValidityNext

-----------------------------------------------------------------------------
LEMMA InvInit == ValidityInit => ScanInv /\ JudgedInv
BY DEF ValidityInit, ScanInv, JudgedInv, Closed

\* A turn of the loop keeps the scan's invariant.
LEMMA VisitStep ==
    ASSUME ScanInv, NEW k \in pending, Visit(k)
    PROVE  ScanInv'
<1>1. UNCHANGED input
  BY DEF Visit
<1>2. Roots' = Roots /\ Listed' = Listed /\ \A j : Dependencies(j)' = Dependencies(j)
  BY <1>1 DEF Roots, Listed, Bound, Dependencies, old, new, scope
<1>3. \A S : Closed(S)' = Closed(S)
  BY <1>1, <1>2 DEF Closed, DependsOn, old, new
<1>4. (Roots \subseteq reachable \cup pending)'
  BY <1>2 DEF Visit, ScanInv
<1>5. (\A j \in reachable : Dependencies(j) \subseteq reachable \cup pending)'
  <2> SUFFICES ASSUME NEW j \in reachable'
               PROVE  Dependencies(j) \subseteq reachable' \cup pending'
    BY <1>2
  <2>1. CASE j = k
    BY <2>1 DEF Visit
  <2>2. CASE j \in reachable
    BY <2>2 DEF Visit, ScanInv
  <2> QED BY <2>1, <2>2 DEF Visit
<1>6. (\A S \in SUBSET Component : Closed(S) => reachable \cup pending \subseteq S)'
  <2> SUFFICES ASSUME NEW S \in SUBSET Component, Closed(S)
               PROVE  reachable' \cup pending' \subseteq S
    BY <1>3
  <2>1. reachable \cup pending \subseteq S
    BY DEF ScanInv
  <2>2. Dependencies(k) \subseteq S
    BY <2>1, SameDependencies DEF Closed
  <2> QED BY <2>1, <2>2 DEF Visit
<1>7. (dangling <=> \E j \in reachable : j \notin Listed)'
  BY <1>2 DEF Visit, ScanInv
<1> QED BY <1>4, <1>5, <1>6, <1>7 DEF ScanInv

\* What the arguments and the visited keys determine does not change without them.
LEMMA Frame ==
    ASSUME UNCHANGED <<input, reachable, dangling>>
    PROVE  /\ Roots' = Roots /\ Listed' = Listed
           /\ \A k : Dependencies(k)' = Dependencies(k)
           /\ \A S : Closed(S)' = Closed(S)
           /\ Affected' = Affected /\ Unknown' = Unknown
<1>1. old' = old /\ new' = new /\ scope' = scope
  BY DEF old, new, scope
<1>2. Roots' = Roots /\ Listed' = Listed /\ \A k : Dependencies(k)' = Dependencies(k)
  BY <1>1 DEF Roots, Listed, Bound, Dependencies
<1>3. \A S : Closed(S)' = Closed(S)
  BY <1>1, <1>2 DEF Closed, DependsOn
<1>4. Affected' = Affected
  BY <1>1 DEF Affected, Changed, SameContent, Compatible, Listed, Bound
<1>5. Unknown' = Unknown
  BY <1>1 DEF Unknown, Unjudgeable, Unreviewed
<1> QED BY <1>2, <1>3, <1>4, <1>5

LEMMA InvStep == ScanInv /\ JudgedInv /\ [ValidityNext]_validityVars => ScanInv' /\ JudgedInv'
<1> SUFFICES ASSUME ScanInv, JudgedInv, [ValidityNext]_validityVars PROVE ScanInv' /\ JudgedInv'
  OBVIOUS
<1>1. ASSUME NEW k \in pending, Visit(k) PROVE ScanInv' /\ JudgedInv'
  <2>1. status = "open" /\ status' = "open"
    BY <1>1 DEF Visit, JudgedInv
  <2> QED BY <1>1, <2>1, VisitStep DEF JudgedInv
<1>2. ASSUME UNCHANGED <<input, pending, reachable, dangling>> PROVE ScanInv'
  BY <1>2, Frame DEF ScanInv
<1>3. CASE Judge
  <2>1. ScanInv'
    BY <1>2, <1>3 DEF Judge
  <2>2. Affected' = Affected /\ Unknown' = Unknown
    BY <1>3, Frame DEF Judge
  <2>3. status' = "STILL_VALID" => Affected = {} /\ ~Unknown
    BY <1>3 DEF Judge
  <2> QED BY <1>3, <2>1, <2>2, <2>3 DEF Judge, JudgedInv
<1>4. CASE UNCHANGED validityVars
  <2>1. Affected' = Affected /\ Unknown' = Unknown
    BY <1>4, Frame DEF validityVars
  <2> QED BY <1>2, <1>4, <2>1 DEF validityVars, JudgedInv
<1> QED BY <1>1, <1>3, <1>4 DEF ValidityNext

\* The inductive invariant holds in every reachable state.
THEOREM Invariance == ValiditySpec => [](CallsTyped /\ ScanInv /\ JudgedInv)
<1>1. ValidityInit => CallsTyped /\ ScanInv /\ JudgedInv
  BY TypeInit, InvInit
<1>2. CallsTyped /\ ScanInv /\ JudgedInv /\ [ValidityNext]_validityVars => (CallsTyped /\ ScanInv /\ JudgedInv)'
  BY TypeStep, InvStep
<1> QED BY <1>1, <1>2, PTL DEF ValiditySpec

\* invalidate() follows the dependencies to the least closed set, in any order of the
\* visits and for every pair of fingerprints.
THEOREM ReachesTheClosureAlways == ValiditySpec => []ReachesTheClosure
<1>1. CallsTyped /\ ScanInv /\ JudgedInv => ReachesTheClosure
  BY SameDependencies DEF ScanInv, ReachesTheClosure, Closed
<1> QED BY <1>1, Invariance, PTL

\* When nothing is pending, what was reached is the surface.
LEMMA ReachedIsSurface ==
    ASSUME CallsTyped, ScanInv, pending = {}
    PROVE  reachable = Surface
<1>1. Closed(reachable) /\ reachable \in SUBSET Component
  BY SameDependencies DEF CallsTyped, ScanInv, Closed
<1>2. \A S \in SUBSET Component : Closed(S) => reachable \subseteq S
  BY DEF ScanInv
<1> QED BY <1>1, <1>2 DEF Surface

\* The worklist implements a judgement in one step: its answer depends on the arguments
\* only, not on the order in which it visits.
THEOREM JudgedAtOnceAlways == ValiditySpec => status = "open" /\ JudgedAtOnce
<1>1. ValidityInit => status = "open"
  BY DEF ValidityInit
<1>2. CallsTyped /\ ScanInv /\ [ValidityNext]_validityVars =>
        [status = "open" /\ status' = Judgement /\ UNCHANGED input]_<<input, status>>
  <2> SUFFICES ASSUME CallsTyped, ScanInv, [ValidityNext]_validityVars
               PROVE  [status = "open" /\ status' = Judgement /\ UNCHANGED input]_<<input, status>>
    OBVIOUS
  <2>1. ASSUME NEW k \in pending, Visit(k) PROVE UNCHANGED <<input, status>>
    BY <2>1 DEF Visit
  <2>2. ASSUME Judge PROVE status = "open" /\ status' = Judgement /\ UNCHANGED input
    <3>1. reachable = Surface
      BY <2>2, ReachedIsSurface DEF Judge
    <3>2. Affected # {} <=> \E k \in Changed \cap Surface : ~Compatible(k)
      BY <3>1 DEF Affected
    <3>3. Unknown <=> ~ Surface \subseteq Listed \/ Unjudgeable \/ Unreviewed(Surface)
      BY <3>1 DEF Unknown, ScanInv
    <3> QED BY <2>2, <3>2, <3>3 DEF Judge, Judgement
  <2>3. CASE UNCHANGED validityVars
    BY <2>3 DEF validityVars
  <2> QED BY <2>1, <2>2, <2>3 DEF ValidityNext
<1> QED BY <1>1, <1>2, Invariance, PTL DEF ValiditySpec, JudgedAtOnce

\* A judgement of STILL_VALID is sound: the surface of the evidence is unaffected.
THEOREM ReuseIsSoundAlways == ValiditySpec => []ReuseIsSound
<1>1. CallsTyped /\ ScanInv /\ JudgedInv => ReuseIsSound
  <2> SUFFICES ASSUME CallsTyped, ScanInv, JudgedInv, status = "STILL_VALID"
               PROVE  /\ 0 <= input.age /\ input.age <= scope.maxAge
                      /\ scope.authority # "PROPOSED"
                      /\ \E S \in SUBSET Component :
                           Closed(S) /\ \A k \in S : Unaffected(k)
    BY DEF ReuseIsSound
  <2>1. pending = {} /\ Affected = {} /\ ~Unknown
    BY DEF JudgedInv
  <2>2. 0 <= input.age /\ input.age <= scope.maxAge
    <3>1. input.age \in Int /\ scope.maxAge \in Nat
      BY DEF CallsTyped, Call, scope, Scope
    <3> QED BY <2>1, <3>1 DEF Unknown, Unjudgeable, Unreviewed
  <2>3. Closed(reachable)
    BY <2>1, SameDependencies DEF ScanInv, Closed
  <2>4. ASSUME NEW k \in reachable PROVE Unaffected(k)
    <3>1. k \in Listed /\ \A j \in DOMAIN old : old[j].known
      BY <2>1 DEF ScanInv, Unknown, Unjudgeable
    <3>2. \A j \in DOMAIN new : new[j].known
      BY <2>1 DEF Unknown, Unjudgeable, Unreviewed
    <3>3. CASE SameContent(k)
      BY <3>1, <3>2, <3>3 DEF SameContent, Unaffected
    <3>4. CASE ~SameContent(k)
      <4>1. Compatible(k)
        BY <2>1, <3>1, <3>4 DEF Affected, Changed
      <4> QED BY <3>1, <3>2, <4>1 DEF Compatible, Unaffected
    <3> QED BY <3>3, <3>4
  <2>5. reachable \in SUBSET Component
    BY DEF CallsTyped
  <2> QED BY <2>1, <2>2, <2>3, <2>4, <2>5 DEF Unknown, Unjudgeable, Unreviewed
<1> QED BY <1>1, Invariance, PTL

\* The variant of the loop: a turn visits a key for the first time, or only takes one
\* from the list.
THEOREM EveryTurnAdvancesAlways == ValiditySpec => EveryTurnAdvances
<1> DEFINE Advances ==
      status' = "open" =>
         \/ reachable \subseteq reachable' /\ reachable # reachable'
         \/ reachable = reachable' /\ pending' \subseteq pending /\ pending # pending'
<1>1. ASSUME ScanInv, [ValidityNext]_validityVars PROVE [Advances]_validityVars
  <2>1. ASSUME NEW k \in pending, Visit(k) PROVE Advances
    <3>1. reachable' = reachable \cup {k}
          /\ pending' = (pending \ {k}) \cup (Dependencies(k) \ reachable')
      BY <2>1 DEF Visit
    <3>2. CASE k \notin reachable
      BY <3>1, <3>2
    <3>3. CASE k \in reachable
      <4>1. Dependencies(k) \subseteq reachable \cup pending
        BY <1>1, <3>3 DEF ScanInv
      <4>2. reachable' = reachable /\ pending' \subseteq pending /\ k \notin pending'
        BY <3>1, <3>3, <4>1
      <4> QED BY <2>1, <4>2
    <3> QED BY <3>2, <3>3
  <2>2. CASE Judge
    BY <2>2 DEF Judge
  <2>3. CASE UNCHANGED validityVars
    BY <2>3
  <2> QED BY <1>1, <2>1, <2>2, <2>3 DEF ValidityNext
<1>2. ValiditySpec => []ScanInv
  BY Invariance, PTL
<1> QED BY <1>1, <1>2, PTL DEF ValiditySpec, EveryTurnAdvances

-----------------------------------------------------------------------------
(* ProposedChanges: the authorization blocks of the formats                 *)

Formats == {"manifest", "crewai", "claude_subagent", "claude_settings", "mcp_json", "langgraph", "mcp"}

\* The blocks of two agents' formats before a delegation and conditions are added.
LEMMA AgentBlocks ==
    ASSUME NEW tools, NEW denied
    PROVE  LET block == [p \in {"denied_tools", "agent_tools"} |->
                            List(IF p = "agent_tools" THEN tools ELSE denied)]
           IN  /\ DOMAIN block = {"denied_tools", "agent_tools"}
               /\ block["agent_tools"] = List(tools) /\ block["denied_tools"] = List(denied)
OBVIOUS

\* What a tool's approval adds to a block.
LEMMA ConditionFacts ==
    ASSUME NEW d, NEW block, DOMAIN block \subseteq {"agents", "allow_delegation", "denied_tools", "agent_tools"}
    PROVE  /\ \A p \in {"agents", "allow_delegation", "denied_tools", "agent_tools"} :
                /\ p \in DOMAIN ToolConditions(d, block) <=> p \in DOMAIN block
                /\ p \in DOMAIN block => ToolConditions(d, block)[p] = block[p]
           /\ DOMAIN ToolConditions(d, block) \subseteq
                DOMAIN block \cup {"tools", "approval_required"}
           /\ "approval_required" \in DOMAIN ToolConditions(d, block) <=> d.approval # "absent"
           /\ d.approval # "absent" => ToolConditions(d, block)["approval_required"] = Text(d.approval)
<1>1. CASE d.approval = "absent"
  <2>1. /\ DOMAIN With(block, "tools", "empty") = DOMAIN block \cup {"tools"}
        /\ \A p \in DOMAIN block : p # "tools" => With(block, "tools", "empty")[p] = block[p]
    BY DEF With
  <2>2. ToolConditions(d, block) = With(block, "tools", "empty")
    BY <1>1 DEF ToolConditions
  <2> QED BY <1>1, <2>1, <2>2
<1>2. CASE d.approval # "absent"
  <2>1. /\ DOMAIN With(block, "approval_required", d.approval) = DOMAIN block \cup {"approval_required"}
        /\ \A p \in DOMAIN block :
             p # "approval_required" => With(block, "approval_required", d.approval)[p] = block[p]
        /\ With(block, "approval_required", d.approval)["approval_required"] = Text(d.approval)
    BY <1>2 DEF With
  <2>2. ToolConditions(d, block) = With(block, "approval_required", d.approval)
    BY <1>2 DEF ToolConditions
  <2> QED BY <1>2, <2>1, <2>2
<1> QED BY <1>1, <1>2

\* Which paths a block has and what stands there, format by format.
HasTools(d) == d.format = "claude_subagent" \/ (d.format \in {"manifest", "crewai"} /\ d.agent)
Agentless(d) == d.format \in {"manifest", "crewai"} /\ ~d.agent
Leaf(block, path, present, value) ==
    /\ path \in DOMAIN block <=> present
    /\ present => block[path] = value
BlockOf(d, block) ==
    /\ Leaf(block, "agents", Agentless(d), Text("empty"))
    /\ Leaf(block, "agent_tools", HasTools(d),
            IF d.format = "claude_subagent" /\ d.inherits THEN Text("INHERITED_ALL") ELSE List(d.tools))
    /\ Leaf(block, "denied_tools", d.format = "manifest" /\ d.agent, List(d.denied))
    /\ Leaf(block, "allow_delegation",
            d.format \in {"manifest", "crewai"} /\ d.agent /\ d.delegation # "absent", Text(d.delegation))
    /\ Leaf(block, "allow", d.format = "claude_settings", List(d.tools))
    /\ Leaf(block, "deny", d.format = "claude_settings", List(d.denied))
    /\ Leaf(block, "default_mode", d.format = "claude_settings" /\ d.mode # "absent", Text(d.mode))
    /\ Leaf(block, "approval_required",
            d.format \in {"manifest", "mcp"} /\ d.approval # "absent", Text(d.approval))
    /\ "__bounded__" \notin DOMAIN block

LEMMA BlockFacts ==
    ASSUME NEW d, d.format \in Formats, Captured(d)
    PROVE  BlockOf(d, Authorization(d))
<1> USE DEF BlockOf, Leaf, HasTools, Agentless
<1>1. CASE d.format = "manifest"
  <2>1. Authorization(d) = manifest(d)
    BY <1>1 DEF Authorization
  <2>2. DOMAIN Empty = {}
    BY DEF Empty
  <2>3. CASE ~d.agent
    <3>1. PICK block : block = With(Empty, "agents", "empty")
      OBVIOUS
    <3>2. DOMAIN block = {"agents"} /\ block["agents"] = Text("empty")
      BY <2>2, <3>1 DEF With
    <3>3. Authorization(d) = ToolConditions(d, block)
      BY <2>1, <2>3, <3>1 DEF manifest
    <3> QED BY <1>1, <2>3, <3>2, <3>3, ConditionFacts
  <2>4. CASE d.agent
    <3>1. PICK lists : lists = [p \in {"denied_tools", "agent_tools"} |->
                                   List(IF p = "agent_tools" THEN d.tools ELSE d.denied)]
      OBVIOUS
    <3>2. /\ DOMAIN lists = {"denied_tools", "agent_tools"}
          /\ lists["agent_tools"] = List(d.tools) /\ lists["denied_tools"] = List(d.denied)
      BY <3>1, AgentBlocks
    <3>3. PICK block : block = With(lists, "allow_delegation", d.delegation)
      OBVIOUS
    <3>4. /\ DOMAIN block = IF d.delegation = "absent" THEN {"denied_tools", "agent_tools"}
                            ELSE {"denied_tools", "agent_tools", "allow_delegation"}
          /\ block["agent_tools"] = List(d.tools) /\ block["denied_tools"] = List(d.denied)
          /\ d.delegation # "absent" => block["allow_delegation"] = Text(d.delegation)
      BY <3>2, <3>3 DEF With
    <3>5. Authorization(d) = ToolConditions(d, block)
      BY <2>1, <2>4, <3>1, <3>3 DEF manifest
    <3> QED BY <1>1, <2>4, <3>4, <3>5, ConditionFacts
  <2> QED BY <2>3, <2>4
<1>2. CASE d.format = "crewai"
  <2>1. Authorization(d) = crewai(d)
    BY <1>2 DEF Authorization
  <2>2. DOMAIN Empty = {}
    BY DEF Empty
  <2>3. CASE ~d.agent
    <3>1. PICK block : block = With(Empty, "agents", "empty")
      OBVIOUS
    <3>2. DOMAIN block = {"agents"} /\ block["agents"] = Text("empty")
      BY <2>2, <3>1 DEF With
    <3>3. Authorization(d) = block
      BY <2>1, <2>3, <3>1 DEF crewai
    <3> QED BY <1>2, <2>3, <3>2, <3>3
  <2>4. CASE d.agent
    <3>1. PICK lists : lists = [p \in {"agent_tools"} |-> List(d.tools)]
      OBVIOUS
    <3>2. DOMAIN lists = {"agent_tools"} /\ lists["agent_tools"] = List(d.tools)
      BY <3>1
    <3>3. PICK block : block = With(lists, "allow_delegation", d.delegation)
      OBVIOUS
    <3>4. /\ DOMAIN block = IF d.delegation = "absent" THEN {"agent_tools"}
                            ELSE {"agent_tools", "allow_delegation"}
          /\ block["agent_tools"] = List(d.tools)
          /\ d.delegation # "absent" => block["allow_delegation"] = Text(d.delegation)
      BY <3>2, <3>3 DEF With
    <3>5. Authorization(d) = block
      BY <2>1, <2>4, <3>1, <3>3 DEF crewai
    <3> QED BY <1>2, <2>4, <3>4, <3>5
  <2> QED BY <2>3, <2>4
<1>3. CASE d.format = "claude_subagent"
  <2>1. Authorization(d) = claude_subagent(d)
    BY <1>3 DEF Authorization
  <2>2. /\ DOMAIN claude_subagent(d) = {"agent_tools"}
        /\ claude_subagent(d)["agent_tools"] =
             IF d.inherits THEN Text("INHERITED_ALL") ELSE List(d.tools)
    BY DEF claude_subagent
  <2> QED BY <1>3, <2>1, <2>2
<1>4. CASE d.format = "claude_settings"
  <2>1. Authorization(d) = claude_settings(d)
    BY <1>4 DEF Authorization
  <2>2. PICK lists : lists = [p \in {"allow", "deny"} |-> List(IF p = "allow" THEN d.tools ELSE d.denied)]
    OBVIOUS
  <2>3. /\ DOMAIN lists = {"allow", "deny"}
        /\ lists["allow"] = List(d.tools) /\ lists["deny"] = List(d.denied)
    BY <2>2
  <2>4. PICK block : block = With(lists, "default_mode", d.mode)
    OBVIOUS
  <2>5. /\ DOMAIN block = IF d.mode = "absent" THEN {"allow", "deny"}
                          ELSE {"allow", "deny", "default_mode"}
        /\ block["allow"] = List(d.tools) /\ block["deny"] = List(d.denied)
        /\ d.mode # "absent" => block["default_mode"] = Text(d.mode)
    BY <2>3, <2>4 DEF With
  <2>6. Authorization(d) = block
    BY <2>1, <2>2, <2>4 DEF claude_settings
  <2> QED BY <1>4, <2>5, <2>6
<1>5. CASE d.format = "mcp_json"
  <2>1. Authorization(d) = mcp_json(d)
    BY <1>5 DEF Authorization
  <2>2. DOMAIN mcp_json(d) = {"servers"}
    BY DEF mcp_json
  <2> QED BY <1>5, <2>1, <2>2
<1>6. CASE d.format = "mcp"
  <2>1. Authorization(d) = catalog(d)
    BY <1>6 DEF Authorization
  <2>2. catalog(d) = ToolConditions(d, Empty) /\ DOMAIN Empty = {}
    BY DEF catalog, Empty
  <2> QED BY <1>6, <2>1, <2>2, ConditionFacts
<1> QED BY <1>1, <1>2, <1>3, <1>4, <1>5, <1>6 DEF Formats, Captured

-----------------------------------------------------------------------------
(* ProposedChanges: what a direction that is neither an expansion nor       *)
(* unknown says of the two leaves                                           *)

Unmoved(x, y, p) ==
    /\ p \in DOMAIN x <=> p \in DOMAIN y
    /\ p \in DOMAIN x => x[p] = y[p]
Compares(x, y, p) == Comparable(x, p) /\ Comparable(y, p)
ModeAt(block, p) == CHOOSE n \in 1..4 : Modes[n] = block[p].text
Restrained(x, y, b, a) ==
    /\ \A p \in {"agents", "__bounded__"} : Unmoved(x, y, p)
    /\ \A p \in {"agent_tools", "allow"} :
         Unmoved(x, y, p) \/ (Compares(x, y, p) /\ Items(y, p) \subseteq Items(x, p))
    /\ \A p \in {"denied_tools", "deny"} :
         Unmoved(x, y, p) \/ (Compares(x, y, p) /\ Items(x, p) \subseteq Items(y, p))
    /\ \/ Unmoved(x, y, "allow_delegation")
       \/ Lifted(y, "allow_delegation") /\ Requires(x, "allow_delegation")
    /\ \/ Unmoved(x, y, "default_mode")
       \/ /\ \A block \in {x, y} :
               "default_mode" \in DOMAIN block /\ Contains(Modes, block["default_mode"].text)
          /\ ~(ModeAt(y, "default_mode") > ModeAt(x, "default_mode"))
    /\ \/ Unmoved(x, y, "approval_required")
       \/ /\ Requires(y, "approval_required")
          /\ Lifted(x, "approval_required") \/ "approval_required" \notin DOMAIN x
       \/ "pay" \in Introduced(b, a)
       \/ "pay" \in Withdrawn(b, a) /\ "approval_required" \notin DOMAIN y

LEMMA DirectionsAreDistinct ==
    /\ Expanded # UnknownImpact /\ Contracted # Expanded /\ Contracted # UnknownImpact
    /\ Equivalent # Expanded /\ Equivalent # UnknownImpact
BY DEF Expanded, UnknownImpact, Contracted, Equivalent

LEMMA HarmlessDirections ==
    ASSUME NEW b, NEW a, NEW x, NEW y,
           \A p \in Moved(x, y) : MovedDirection(b, a, x, y, p) \notin {Expanded, UnknownImpact}
    PROVE  Restrained(x, y, b, a)
<1>1. \A p : Unmoved(x, y, p) \/ MovedDirection(b, a, x, y, p) \notin {Expanded, UnknownImpact}
  BY DEF Unmoved, Moved
<1>2. \A p : p # "approval_required" => MovedDirection(b, a, x, y, p) = Direction(x, y, p)
  BY DEF MovedDirection
<1>3. \A p \in {"agents", "__bounded__"} : Unmoved(x, y, p)
  BY <1>1, <1>2 DEF Direction
<1>4. ASSUME NEW p \in {"agent_tools", "allow"}, ~Unmoved(x, y, p)
      PROVE  Compares(x, y, p) /\ Items(y, p) \subseteq Items(x, p)
  <2>1. Direction(x, y, p) = Allowance(x, y, p)
    BY DEF Direction
  <2>2. Allowance(x, y, p) \notin {Expanded, UnknownImpact}
    BY <1>1, <1>2, <1>4, <2>1
  <2> QED BY <2>2 DEF Allowance, Compares
<1>5. ASSUME NEW p \in {"denied_tools", "deny"}, ~Unmoved(x, y, p)
      PROVE  Compares(x, y, p) /\ Items(x, p) \subseteq Items(y, p)
  <2>1. Direction(x, y, p) = Denial(x, y, p)
    BY DEF Direction
  <2>2. Denial(x, y, p) \notin {Expanded, UnknownImpact}
    BY <1>1, <1>2, <1>5, <2>1
  <2> QED BY <2>2 DEF Denial, Compares
<1>6. ASSUME ~Unmoved(x, y, "allow_delegation")
      PROVE  Lifted(y, "allow_delegation") /\ Requires(x, "allow_delegation")
  <2>1. Direction(x, y, "allow_delegation") = Grant(x, y, "allow_delegation")
    BY DEF Direction
  <2>2. Grant(x, y, "allow_delegation") \notin {Expanded, UnknownImpact}
    BY <1>1, <1>2, <1>6, <2>1
  <2> QED BY <2>2 DEF Grant
<1>7. ASSUME ~Unmoved(x, y, "default_mode")
      PROVE  /\ \A block \in {x, y} :
                  "default_mode" \in DOMAIN block /\ Contains(Modes, block["default_mode"].text)
             /\ ~(ModeAt(y, "default_mode") > ModeAt(x, "default_mode"))
  <2>1. Direction(x, y, "default_mode") = Mode(x, y, "default_mode")
    BY DEF Direction
  <2>2. Mode(x, y, "default_mode") \notin {Expanded, UnknownImpact}
    BY <1>1, <1>2, <1>7, <2>1
  <2> QED BY <2>2 DEF Mode, ModeAt
<1>8. ASSUME ~Unmoved(x, y, "approval_required")
      PROVE  \/ /\ Requires(y, "approval_required")
                /\ Lifted(x, "approval_required") \/ "approval_required" \notin DOMAIN x
             \/ "pay" \in Introduced(b, a)
             \/ "pay" \in Withdrawn(b, a) /\ "approval_required" \notin DOMAIN y
  <2>1. Direction(x, y, "approval_required") = Restriction(x, y, "approval_required")
    BY DEF Direction
  <2>2. \/ "pay" \in Introduced(b, a)
        \/ "pay" \in Withdrawn(b, a) /\ "approval_required" \notin DOMAIN y
        \/ Restriction(x, y, "approval_required") \notin {Expanded, UnknownImpact}
    BY <1>1, <1>8, <2>1 DEF MovedDirection
  <2> QED BY <2>2 DEF Restriction
<1> QED BY <1>3, <1>4, <1>5, <1>6, <1>7, <1>8 DEF Restrained

\* combine: a change that is called contracted or equivalent has no harmful part.
LEMMA Combined ==
    ASSUME NEW directions, Combine(directions) \in {Contracted, Equivalent}
    PROVE  Expanded \notin directions /\ UnknownImpact \notin directions
BY DirectionsAreDistinct DEF Combine

\* Of two captured definitions, not both cut off, that are judged so.
LEMMA JudgedHarmless ==
    ASSUME NEW b, NEW a, b.format \in Formats, a.format \in Formats,
           Classification(b, a) \in {Contracted, Equivalent},
           ~(Captured(b) /\ Captured(a) /\ Truncated(Authorization(b)) /\ Truncated(Authorization(a)))
    PROVE  /\ Introduced(b, a) = {}
           /\ Captured(b) <=> Captured(a)
           /\ Captured(b) => Restrained(Authorization(b), Authorization(a), b, a)
<1> DEFINE directions == {d[2] : d \in AuthorizationDiff(b, a)} \cup InterfaceDiff(b, a)
<1>1. ~Unexplainable(b, a) /\ Combine(directions) \in {Contracted, Equivalent}
  BY DirectionsAreDistinct DEF Classification
<1>2. Expanded \notin directions /\ UnknownImpact \notin directions
  <2> HIDE DEF directions
  <2> QED BY <1>1, Combined
<1>3. Introduced(b, a) = {}
  BY <1>2 DEF InterfaceDiff
<1>4. Captured(b) <=> Captured(a)
  <2> SUFFICES ASSUME ~(Captured(b) <=> Captured(a)) PROVE FALSE
    OBVIOUS
  <2>1. AuthorizationDiff(b, a) = {<<"authorization", UnknownImpact>>}
    BY DEF AuthorizationDiff
  <2>2. <<"authorization", UnknownImpact>>[2] \in {d[2] : d \in AuthorizationDiff(b, a)}
    BY <2>1
  <2> QED BY <1>2, <2>2
<1>5. ASSUME Captured(b) PROVE Restrained(Authorization(b), Authorization(a), b, a)
  <2> DEFINE x == Bounded(Authorization(b))
             y == Bounded(Authorization(a))
  <2>1. AuthorizationDiff(b, a) = {<<p, MovedDirection(b, a, x, y, p)>> : p \in Moved(x, y)}
    BY <1>4, <1>5 DEF AuthorizationDiff
  <2>2. \A p \in Moved(x, y) : MovedDirection(b, a, x, y, p) \in directions
    <3> SUFFICES ASSUME NEW p \in Moved(x, y) PROVE MovedDirection(b, a, x, y, p) \in directions
      OBVIOUS
    <3> HIDE DEF x, y
    <3>1. <<p, MovedDirection(b, a, x, y, p)>> \in AuthorizationDiff(b, a)
      BY <2>1
    <3>2. <<p, MovedDirection(b, a, x, y, p)>>[2] \in {d[2] : d \in AuthorizationDiff(b, a)}
      BY <3>1
    <3> QED BY <3>2
  <2>3. Restrained(x, y, b, a)
    <3> HIDE DEF x, y, directions
    <3> QED BY <1>2, <2>2, HarmlessDirections
  <2>4. Unmoved(x, y, "__bounded__")
    BY <2>3 DEF Restrained
  <2>5. \A d \in {b, a} : "__bounded__" \in DOMAIN Bounded(Authorization(d)) <=> Truncated(Authorization(d))
    <3> SUFFICES ASSUME NEW d \in {b, a}
                 PROVE  "__bounded__" \in DOMAIN Bounded(Authorization(d)) <=> Truncated(Authorization(d))
      OBVIOUS
    <3>1. "__bounded__" \notin DOMAIN Authorization(d)
      BY <1>4, <1>5, BlockFacts DEF BlockOf
    <3> QED BY <3>1 DEF Bounded
  <2>6. ~Truncated(Authorization(b)) /\ ~Truncated(Authorization(a))
    BY <1>4, <1>5, <2>4, <2>5 DEF Unmoved
  <2>7. x = Authorization(b) /\ y = Authorization(a)
    BY <2>6 DEF Bounded
  <2> QED BY <2>3, <2>7
<1> QED BY <1>3, <1>4, <1>5

-----------------------------------------------------------------------------
(* ProposedChanges: what that means for what the agent may do               *)

LEMMA LeafShapes ==
    /\ \A items : List(items).text = "list" /\ List(items).items = items
    /\ \A text : Text(text).text = text /\ Text(text).items = {}
BY DEF List, Text

\* Lists that are not widened and denials that are not narrowed leave no new tool.
LEMMA NoNewTool ==
    ASSUME NEW b, NEW a, NEW x, NEW y, b.format \in Formats, a.format \in Formats,
           b.format = "mcp" <=> a.format = "mcp", Introduced(b, a) = {},
           BlockOf(b, x), BlockOf(a, y), Restrained(x, y, b, a)
    PROVE  Uses(a) \subseteq Uses(b)
<1>1. CASE a.format = "mcp"
  BY <1>1 DEF Uses, Introduced, Exposed
<1>2. ASSUME HasTools(a)
      PROVE  \/ HasTools(b) /\ x["agent_tools"] = y["agent_tools"]
             \/ /\ ~(a.format = "claude_subagent" /\ a.inherits)
                /\ HasTools(b) => ~(b.format = "claude_subagent" /\ b.inherits) /\ a.tools \subseteq b.tools
                /\ ~HasTools(b) => a.tools = {}
  <2>1. "agent_tools" \in DOMAIN y /\ ("agent_tools" \in DOMAIN x <=> HasTools(b))
    BY <1>2 DEF BlockOf, Leaf
  <2>2. CASE Unmoved(x, y, "agent_tools")
    BY <2>1, <2>2 DEF Unmoved
  <2>3. CASE Compares(x, y, "agent_tools") /\ Items(y, "agent_tools") \subseteq Items(x, "agent_tools")
    <3>1. y["agent_tools"].text = "list" /\ (HasTools(b) => x["agent_tools"].text = "list")
      BY <2>1, <2>3 DEF Compares, Comparable
    <3>2. ~(a.format = "claude_subagent" /\ a.inherits) /\ y["agent_tools"] = List(a.tools)
      BY <1>2, <3>1, LeafShapes DEF BlockOf, Leaf
    <3>3. HasTools(b) => ~(b.format = "claude_subagent" /\ b.inherits) /\ x["agent_tools"] = List(b.tools)
      BY <3>1, LeafShapes DEF BlockOf, Leaf
    <3>4. Items(y, "agent_tools") = a.tools
      BY <2>1, <3>2, LeafShapes DEF Items
    <3>5. Items(x, "agent_tools") = IF HasTools(b) THEN b.tools ELSE {}
      BY <2>1, <3>3, LeafShapes DEF Items
    <3> QED BY <2>3, <3>2, <3>3, <3>4, <3>5
  <2> QED BY <2>2, <2>3 DEF Restrained
<1>3. ASSUME HasTools(a), HasTools(b), x["agent_tools"] = y["agent_tools"]
      PROVE  \/ /\ a.format = "claude_subagent" /\ a.inherits
                /\ b.format = "claude_subagent" /\ b.inherits
             \/ /\ ~(a.format = "claude_subagent" /\ a.inherits)
                /\ ~(b.format = "claude_subagent" /\ b.inherits)
                /\ a.tools = b.tools
  BY <1>3, LeafShapes DEF BlockOf, Leaf
<1>4. ASSUME b.format = "manifest", b.agent
      PROVE  IF a.format = "manifest" /\ a.agent THEN b.denied \subseteq a.denied ELSE b.denied = {}
  <2>1. "denied_tools" \in DOMAIN x /\ x["denied_tools"] = List(b.denied)
    BY <1>4 DEF BlockOf, Leaf
  <2>2. Items(x, "denied_tools") = b.denied
    BY <2>1, LeafShapes DEF Items
  <2>3. Items(y, "denied_tools") = IF a.format = "manifest" /\ a.agent THEN a.denied ELSE {}
    BY LeafShapes DEF Items, BlockOf, Leaf
  <2>4. CASE Unmoved(x, y, "denied_tools")
    <3>1. Items(x, "denied_tools") = Items(y, "denied_tools")
      BY <2>4 DEF Unmoved, Items
    <3> QED BY <2>2, <2>3, <3>1
  <2>5. CASE Items(x, "denied_tools") \subseteq Items(y, "denied_tools")
    BY <2>2, <2>3, <2>5
  <2> QED BY <2>4, <2>5 DEF Restrained
<1>5. ASSUME HasTools(a), HasTools(b) PROVE Uses(a) \subseteq Uses(b)
  <2>1. \/ /\ a.format = "claude_subagent" /\ a.inherits
           /\ b.format = "claude_subagent" /\ b.inherits
        \/ /\ ~(a.format = "claude_subagent" /\ a.inherits)
           /\ ~(b.format = "claude_subagent" /\ b.inherits)
           /\ a.tools \subseteq b.tools
    BY <1>2, <1>3, <1>5
  <2>2. CASE /\ a.format = "claude_subagent" /\ a.inherits
             /\ b.format = "claude_subagent" /\ b.inherits
    BY <2>2 DEF Uses
  <2>3. CASE /\ ~(a.format = "claude_subagent" /\ a.inherits)
             /\ ~(b.format = "claude_subagent" /\ b.inherits)
             /\ a.tools \subseteq b.tools
    <3>1. Uses(a) = IF a.format = "manifest" THEN a.tools \ a.denied ELSE a.tools
      BY <1>5, <2>3 DEF Uses, HasTools
    <3>2. Uses(b) = IF b.format = "manifest" THEN b.tools \ b.denied ELSE b.tools
      BY <1>5, <2>3 DEF Uses, HasTools
    <3>3. a.format = "manifest" => a.agent
      BY <1>5 DEF HasTools
    <3>4. b.format = "manifest" => b.agent
      BY <1>5 DEF HasTools
    <3> QED BY <1>4, <2>3, <3>1, <3>2, <3>3, <3>4
  <2> QED BY <2>1, <2>2, <2>3
<1>6. ASSUME HasTools(a), ~HasTools(b) PROVE Uses(a) \subseteq Uses(b)
  <2>1. a.tools = {} /\ ~(a.format = "claude_subagent" /\ a.inherits)
    BY <1>2, <1>6
  <2>2. Uses(a) = {}
    BY <1>6, <2>1 DEF Uses, HasTools
  <2> QED BY <2>2
<1>7. CASE a.format = "claude_settings"
  <2>1. /\ "allow" \in DOMAIN y /\ y["allow"] = List(a.tools)
        /\ "deny" \in DOMAIN y /\ y["deny"] = List(a.denied)
    BY <1>7 DEF BlockOf, Leaf
  <2>2. Items(y, "allow") = a.tools /\ Items(y, "deny") = a.denied
    BY <2>1, LeafShapes DEF Items
  <2>3. /\ Items(x, "allow") = IF b.format = "claude_settings" THEN b.tools ELSE {}
        /\ Items(x, "deny") = IF b.format = "claude_settings" THEN b.denied ELSE {}
    BY LeafShapes DEF Items, BlockOf, Leaf
  <2>4. Items(y, "allow") \subseteq Items(x, "allow")
    <3>1. CASE Unmoved(x, y, "allow")
      BY <3>1 DEF Unmoved, Items
    <3> QED BY <3>1 DEF Restrained
  <2>5. Items(x, "deny") \subseteq Items(y, "deny")
    <3>1. CASE Unmoved(x, y, "deny")
      BY <3>1 DEF Unmoved, Items
    <3> QED BY <3>1 DEF Restrained
  <2>6. Uses(a) = a.tools \ a.denied
    BY <1>7 DEF Uses
  <2>7. b.format = "claude_settings" => Uses(b) = b.tools \ b.denied
    BY DEF Uses
  <2> QED BY <2>2, <2>3, <2>4, <2>5, <2>6, <2>7
<1>8. CASE a.format # "mcp" /\ a.format # "claude_settings" /\ ~HasTools(a)
  <2>1. Uses(a) = {}
    BY <1>8 DEF Uses, HasTools
  <2> QED BY <2>1
<1> QED BY <1>1, <1>5, <1>6, <1>7, <1>8

\* A mode of at most the earlier one's place allows no more.
LEMMA NoNewMode ==
    ASSUME NEW b, NEW a, NEW x, NEW y, BlockOf(b, x), BlockOf(a, y), Restrained(x, y, b, a)
    PROVE  ModesOf(a) \subseteq ModesOf(b)
<1> SUFFICES ASSUME a.format = "claude_settings", Contains(Modes, a.mode)
             PROVE  ModesOf(a) \subseteq ModesOf(b)
  BY DEF ModesOf
<1>1. Len(Modes) = 4
  BY DEF Modes
<1>2. \A m : Contains(Modes, m) <=> \E i \in 1..4 : Modes[i] = m
  BY <1>1 DEF Contains
<1>3. a.mode # "absent"
  <2>1. \A i \in 1..4 : Modes[i] # "absent"
    BY DEF Modes
  <2> QED BY <1>2, <2>1
<1>4. "default_mode" \in DOMAIN y /\ y["default_mode"].text = a.mode
  BY <1>3, LeafShapes DEF BlockOf, Leaf
<1>5. /\ "default_mode" \in DOMAIN x /\ Contains(Modes, x["default_mode"].text)
      /\ ~(ModeAt(y, "default_mode") > ModeAt(x, "default_mode"))
  <2>1. CASE Unmoved(x, y, "default_mode")
    <3>1. "default_mode" \in DOMAIN x /\ x["default_mode"].text = y["default_mode"].text
      BY <1>4, <2>1 DEF Unmoved
    <3>2. ModeAt(y, "default_mode") = ModeAt(x, "default_mode")
      BY <3>1 DEF ModeAt
    <3>3. PICK i \in 1..4 : Modes[i] = y["default_mode"].text
      BY <1>2, <1>4
    <3>4. ModeAt(y, "default_mode") \in 1..4
      BY <3>3, Zenon DEF ModeAt
    <3> QED BY <1>4, <3>1, <3>2, <3>4
  <2>2. CASE /\ \A block \in {x, y} :
                  "default_mode" \in DOMAIN block /\ Contains(Modes, block["default_mode"].text)
             /\ ~(ModeAt(y, "default_mode") > ModeAt(x, "default_mode"))
    BY <2>2
  <2> QED BY <2>1, <2>2 DEF Restrained
<1>6. b.format = "claude_settings" /\ x["default_mode"].text = b.mode
  BY <1>5, LeafShapes DEF BlockOf, Leaf
<1>7. \A block \in {x, y} : ModeAt(block, "default_mode") \in 1..4
  <2> SUFFICES ASSUME NEW block \in {x, y} PROVE ModeAt(block, "default_mode") \in 1..4
    OBVIOUS
  <2>1. PICK i \in 1..4 : Modes[i] = block["default_mode"].text
    BY <1>2, <1>4, <1>5
  <2> QED BY <2>1, Zenon DEF ModeAt
<1>8. /\ ModesOf(a) = {Modes[n] : n \in 1..ModeAt(y, "default_mode")}
      /\ ModesOf(b) = {Modes[n] : n \in 1..ModeAt(x, "default_mode")}
  <2>1. ModesOf(a) = {Modes[n] : n \in 1..ModeAt(y, "default_mode")}
    BY <1>4, Zenon DEF ModesOf, ModeAt
  <2>2. ModesOf(b) = {Modes[n] : n \in 1..ModeAt(x, "default_mode")}
    BY <1>5, <1>6, Zenon DEF ModesOf, ModeAt
  <2> QED BY <2>1, <2>2
<1>9. 1..ModeAt(y, "default_mode") \subseteq 1..ModeAt(x, "default_mode")
  BY <1>5, <1>7
<1> QED BY <1>8, <1>9

\* A grant that is given, or left open to the framework, was so before.
LEMMA NoNewGrant ==
    ASSUME NEW b, NEW a, NEW x, NEW y, BlockOf(b, x), BlockOf(a, y), Restrained(x, y, b, a),
           NEW default \in IF HasAgent(b) THEN BOOLEAN ELSE {FALSE}, Delegates(a, default)
    PROVE  Delegates(b, default)
<1>1. /\ a.format \in {"manifest", "crewai"} /\ a.agent
      /\ a.delegation = "true" \/ (a.delegation = "absent" /\ default)
  BY DEF Delegates
<1>2. CASE a.delegation = "true"
  <2>1. "allow_delegation" \in DOMAIN y /\ y["allow_delegation"].text = "true"
    BY <1>1, <1>2, LeafShapes DEF BlockOf, Leaf
  <2>2. Unmoved(x, y, "allow_delegation")
    BY <2>1 DEF Restrained, Lifted
  <2>3. "allow_delegation" \in DOMAIN x /\ x["allow_delegation"].text = "true"
    BY <2>1, <2>2 DEF Unmoved
  <2>4. b.format \in {"manifest", "crewai"} /\ b.agent /\ b.delegation = "true"
    BY <2>3, LeafShapes DEF BlockOf, Leaf
  <2> QED BY <2>4 DEF Delegates
<1>3. CASE a.delegation = "absent" /\ default
  <2>1. "allow_delegation" \notin DOMAIN y
    BY <1>3 DEF BlockOf, Leaf
  <2>2. Unmoved(x, y, "allow_delegation")
    BY <2>1 DEF Restrained, Lifted
  <2>3. "allow_delegation" \notin DOMAIN x
    BY <2>1, <2>2 DEF Unmoved
  <2>4. HasAgent(b)
    BY <1>3
  <2>5. b.format \in {"manifest", "crewai"} /\ b.agent
    BY <2>4 DEF HasAgent
  <2>6. b.delegation = "absent"
    BY <2>3, <2>5 DEF BlockOf, Leaf
  <2> QED BY <1>3, <2>5, <2>6 DEF Delegates
<1> QED BY <1>1, <1>2, <1>3

\* What is used without approval was so before.
LEMMA NoNewFreedom ==
    ASSUME NEW b, NEW a, NEW x, NEW y, BlockOf(b, x), BlockOf(a, y), Restrained(x, y, b, a),
           b.format = "mcp" <=> a.format = "mcp", Introduced(b, a) = {},
           Uses(a) \subseteq Uses(b), Unattended(a)
    PROVE  Unattended(b)
<1>1. "pay" \in Uses(a) /\ "pay" \in Uses(b)
  BY DEF Unattended
<1>2. SUFFICES ASSUME b.format \in {"manifest", "mcp"}, b.approval \in {"true", "required"}
               PROVE  FALSE
  BY <1>1 DEF Unattended
<1>3. "approval_required" \in DOMAIN x /\ x["approval_required"].text \in {"true", "required"}
  BY <1>2, LeafShapes DEF BlockOf, Leaf
<1>4. ASSUME "approval_required" \in DOMAIN y, y["approval_required"].text \in {"true", "required"}
      PROVE  FALSE
  <2>1. a.format \in {"manifest", "mcp"} /\ a.approval \in {"true", "required"}
    BY <1>4, LeafShapes DEF BlockOf, Leaf
  <2> QED BY <2>1 DEF Unattended
<1>5. CASE Unmoved(x, y, "approval_required")
  BY <1>3, <1>4, <1>5 DEF Unmoved
<1>6. CASE Requires(y, "approval_required")
  BY <1>4, <1>6 DEF Requires
<1>7. CASE "pay" \in Withdrawn(b, a)
  <2>1. "pay" \in Exposed(b) /\ "pay" \notin Exposed(a)
    BY <1>7 DEF Withdrawn
  <2>2. a.format = "mcp"
    BY <2>1 DEF Exposed
  <2> QED BY <1>1, <2>1, <2>2 DEF Exposed, Uses
<1> QED BY <1>5, <1>6, <1>7 DEF Restrained

LEMMA CapturedContained ==
    ASSUME NEW b, NEW a, b.format \in Formats, a.format \in Formats,
           b.format = "mcp" <=> a.format = "mcp", Introduced(b, a) = {}, Captured(b), Captured(a),
           Restrained(Authorization(b), Authorization(a), b, a)
    PROVE  Contained(a, b)
<1>1. BlockOf(b, Authorization(b)) /\ BlockOf(a, Authorization(a))
  BY BlockFacts
<1>2. Uses(a) \subseteq Uses(b)
  BY <1>1, NoNewTool
<1>3. ModesOf(a) \subseteq ModesOf(b)
  BY <1>1, NoNewMode
<1>4. Unattended(a) => Unattended(b)
  BY <1>1, <1>2, NoNewFreedom
<1>5. \A default \in IF HasAgent(b) THEN BOOLEAN ELSE {FALSE} : Delegates(a, default) => Delegates(b, default)
  BY <1>1, NoNewGrant
<1> QED BY <1>2, <1>3, <1>4, <1>5 DEF Contained

\* Catalogs that expose no more and, if an approval was declared, declare it too.
LEMMA CatalogContained ==
    ASSUME NEW b, NEW a, b.format = "mcp", a.format = "mcp", Introduced(b, a) = {},
           b.approval = a.approval
    PROVE  Contained(a, b)
<1>1. Uses(a) \subseteq Uses(b)
  BY DEF Uses, Introduced, Exposed
<1>2. ModesOf(a) = {} /\ \A default : ~Delegates(a, default)
  BY DEF ModesOf, Delegates
<1>3. Unattended(a) => Unattended(b)
  BY <1>1 DEF Unattended
<1> QED BY <1>1, <1>2, <1>3 DEF Contained

\* A graph of which nothing is captured declares nothing to be contained.
LEMMA NothingDeclared ==
    ASSUME NEW b, NEW a, a.format = "langgraph"
    PROVE  Contained(a, b)
<1>1. Uses(a) = {} /\ ModesOf(a) = {} /\ ~Unattended(a) /\ \A default : ~Delegates(a, default)
  BY DEF Uses, ModesOf, Unattended, Delegates
<1> QED BY <1>1 DEF Contained

-----------------------------------------------------------------------------
(* ProposedChanges: assessments compare batches                             *)

\* A snapshot has all components of its definition, whatever was known before.
LEMMA SnapshotIsBatch ==
    ASSUME NEW d \in Definition, NEW prior, (d.format = "mcp") = (connector = "mcp")
    PROVE  IsBatch(AsBatch(d, prior))
<1>1. AsBatch(d, prior).definition = d
  BY DEF AsBatch
<1>2. CASE Complete(d) \/ prior = Nothing
  <2>1. AsBatch(d, prior).components = Components(d)
    BY <1>2 DEF AsBatch
  <2> QED BY <1>1, <2>1 DEF IsBatch
<1>3. CASE ~Complete(d) /\ prior # Nothing
  <2>1. AsBatch(d, prior).components =
          [k \in DOMAIN Components(d) \cup DOMAIN prior.components |->
              IF k \in DOMAIN Components(d) THEN Components(d)[k] ELSE prior.components[k]]
    BY <1>3 DEF AsBatch
  <2>2. \A k \in DOMAIN Components(d) :
          /\ k \in DOMAIN AsBatch(d, prior).components
          /\ AsBatch(d, prior).components[k] = Components(d)[k]
    <3> HIDE DEF Components
    <3> QED BY <2>1
  <2> QED BY <1>1, <1>3, <2>2 DEF IsBatch
<1> QED BY <1>2, <1>3

LEMMA EvaluateFields ==
    ASSUME NEW b, NEW a, NEW map
    PROVE  LET e == Evaluate(b, a, map)
           IN  e.before = b /\ e.after = a /\ e.map = map /\ e = Evaluate(e.before, e.after, e.map)
BY DEF Evaluate

LEMMA ProposedInitially == ProposedInit => ProposedInv
BY DEF ProposedInit, ProposedInv

LEMMA ProposedStep == ProposedInv /\ [ProposedNext]_changeVars => ProposedInv'
<1> SUFFICES ASSUME ProposedInv, [ProposedNext]_changeVars PROVE ProposedInv'
  OBVIOUS
<1>1. ASSUME NEW d \in Readable, Observe(d) PROVE ProposedInv'
  <2>1. observed' = AsBatch(d, observed) /\ assessment' = Nothing /\ connector' = connector
    BY <1>1 DEF Observe
  <2>2. IsBatch(AsBatch(d, observed))
    BY SnapshotIsBatch DEF Readable
  <2>3. IsBatch(observed)'
    BY <2>1, <2>2 DEF IsBatch
  <2> QED BY <2>1, <2>3 DEF ProposedInv
<1>2. ASSUME NEW b, NEW a, b # Nothing => IsBatch(b), IsBatch(a),
             assessment' = Evaluate(b, a, mapping), observed' = observed, connector' = connector
      PROVE  ProposedInv'
  <2>1. /\ assessment'.before = b /\ assessment'.after = a
        /\ assessment' = Evaluate(assessment'.before, assessment'.after, assessment'.map)
    BY <1>2, EvaluateFields
  <2>2. observed # Nothing => IsBatch(observed)
    BY DEF ProposedInv
  <2>3. (observed # Nothing => IsBatch(observed))'
    BY <1>2, <2>2 DEF IsBatch
  <2>4. IsBatch(assessment.after)'
    BY <1>2, <2>1 DEF IsBatch
  <2>5. (assessment.before # Nothing => IsBatch(assessment.before))'
    BY <1>2, <2>1 DEF IsBatch
  <2> QED BY <2>1, <2>3, <2>4, <2>5 DEF ProposedInv
<1>3. ASSUME NEW d \in Readable, Propose(d) PROVE ProposedInv'
  <2>1. /\ assessment' = Evaluate(observed, AsBatch(d, observed), mapping)
        /\ observed' = observed /\ connector' = connector
    BY <1>3 DEF Propose
  <2>2. IsBatch(AsBatch(d, observed)) /\ (observed # Nothing => IsBatch(observed))
    BY SnapshotIsBatch DEF Readable, ProposedInv
  <2> QED BY <1>2, <2>1, <2>2
<1>4. ASSUME NEW d \in Readable, NEW e \in Readable, Replay(d, e) PROVE ProposedInv'
  <2>1. /\ assessment' = Evaluate(AsBatch(d, Nothing), AsBatch(e, AsBatch(d, Nothing)), mapping)
        /\ observed' = observed /\ connector' = connector
    BY <1>4 DEF Replay
  <2>2. IsBatch(AsBatch(d, Nothing)) /\ IsBatch(AsBatch(e, AsBatch(d, Nothing)))
    BY SnapshotIsBatch DEF Readable
  <2> QED BY <1>2, <2>1, <2>2
<1>5. CASE UNCHANGED changeVars
  BY <1>5 DEF changeVars, ProposedInv, IsBatch
<1> QED BY <1>1, <1>3, <1>4, <1>5 DEF ProposedNext

LEMMA BatchFormats ==
    ASSUME NEW o, IsBatch(o)
    PROVE  o.definition.format \in Formats
BY DefinitionAssumption DEF IsBatch, Formats

\* Batches with the same components declare the same of what an agent may do.
LEMMA SameComponents ==
    ASSUME NEW b, NEW a, IsBatch(b), IsBatch(a), MovedComponents(b, a) = {}
    PROVE  Contained(a.definition, b.definition)
<1> DEFINE d == b.definition
           e == a.definition
<1>1. d.format \in Formats /\ e.format \in Formats /\ (d.format = "mcp" <=> e.format = "mcp")
  BY BatchFormats DEF IsBatch
<1>2. \A k \in DOMAIN b.components \cup DOMAIN a.components :
        /\ k \in DOMAIN b.components /\ k \in DOMAIN a.components
        /\ b.components[k] = a.components[k]
  BY DEF MovedComponents
<1>3. \A k : k \in DOMAIN Components(d) /\ k \in DOMAIN Components(e) =>
               Components(d)[k] = Components(e)[k]
  BY <1>2 DEF IsBatch
<1>4. CASE e.format = "langgraph"
  BY <1>4, NothingDeclared
<1>5. CASE e.format = "mcp"
  <2>1. \A c \in {d, e} : /\ "mcp" \in DOMAIN Components(c)
                          /\ Components(c)["mcp"] = <<c.exposed, c.contract, c.captured, c.approval>>
    BY <1>1, <1>5 DEF Components
  <2>2. d.exposed = e.exposed /\ d.approval = e.approval
    BY <1>3, <2>1
  <2>3. Introduced(d, e) = {}
    BY <1>1, <1>5, <2>2 DEF Introduced, Exposed
  <2> QED BY <1>1, <1>5, <2>2, <2>3, CatalogContained
<1>6. CASE e.format # "langgraph" /\ e.format # "mcp"
  <2>1. a.components = Components(e)
    BY <1>6 DEF IsBatch, Complete
  <2>2. /\ "permissions" \in DOMAIN Components(e) /\ "graph" \notin DOMAIN Components(e)
        /\ Components(e)["permissions"] = <<Authorization(e)>>
    BY <1>6 DEF Components
  <2>3. d.format # "langgraph"
    <3> SUFFICES ASSUME d.format = "langgraph" PROVE FALSE
      OBVIOUS
    <3>1. "graph" \in DOMAIN Components(d)
      BY DEF Components
    <3>2. "graph" \in DOMAIN b.components
      BY <3>1 DEF IsBatch
    <3> QED BY <1>2, <2>1, <2>2, <3>2
  <2>4. /\ "permissions" \in DOMAIN Components(d)
        /\ Components(d)["permissions"] = <<Authorization(d)>>
    BY <1>1, <1>6, <2>3 DEF Components
  <2>5. Authorization(d) = Authorization(e)
    <3>1. <<Authorization(d)>> = <<Authorization(e)>>
      BY <1>3, <2>2, <2>4
    <3> QED BY <3>1
  <2>6. Restrained(Authorization(d), Authorization(e), d, e)
    BY <2>5 DEF Restrained, Unmoved
  <2>7. Introduced(d, e) = {}
    BY <1>6 DEF Introduced, Exposed
  <2>8. Captured(d) /\ Captured(e)
    BY <1>1, <1>6, <2>3 DEF Captured
  <2> QED BY <1>1, <1>6, <2>6, <2>7, <2>8, CapturedContained
<1> QED BY <1>4, <1>5, <1>6

LEMMA ContainedByInvariant == ProposedInv => ContainedUnlessExpanded
<1> SUFFICES ASSUME ProposedInv, Compared, assessment.classification \in {Contracted, Equivalent},
                    ~(/\ Captured(assessment.before.definition)
                      /\ Captured(assessment.after.definition)
                      /\ Truncated(Authorization(assessment.before.definition))
                      /\ Truncated(Authorization(assessment.after.definition)))
             PROVE  Contained(assessment.after.definition, assessment.before.definition)
  BY DEF ContainedUnlessExpanded
<1>1. PICK b, a, map : b = assessment.before /\ a = assessment.after /\ map = assessment.map
  OBVIOUS
<1>2. /\ b # Nothing /\ IsBatch(b) /\ IsBatch(a)
      /\ assessment = Evaluate(b, a, map)
  BY <1>1 DEF ProposedInv, Compared
<1>3. assessment.classification = IF MovedComponents(b, a) = {} THEN Equivalent
                                  ELSE Classification(b.definition, a.definition)
  BY <1>2 DEF Evaluate
<1>4. CASE MovedComponents(b, a) = {}
  BY <1>1, <1>2, <1>4, SameComponents
<1>5. CASE MovedComponents(b, a) # {}
  <2> DEFINE d == b.definition
             e == a.definition
  <2>1. /\ d.format \in Formats /\ e.format \in Formats
        /\ d.format = "mcp" <=> e.format = "mcp"
    BY <1>2, BatchFormats DEF IsBatch
  <2>2. Classification(d, e) \in {Contracted, Equivalent}
    BY <1>3, <1>5
  <2>3. /\ Introduced(d, e) = {}
        /\ Captured(d) <=> Captured(e)
        /\ Captured(d) => Restrained(Authorization(d), Authorization(e), d, e)
    BY <1>1, <2>1, <2>2, JudgedHarmless
  <2>4. CASE Captured(d)
    BY <1>1, <2>1, <2>3, <2>4, CapturedContained
  <2>5. CASE ~Captured(d)
    <3>1. CASE e.format = "langgraph"
      BY <1>1, <3>1, NothingDeclared
    <3>2. CASE e.format # "langgraph"
      <4>1. e.format = "mcp" /\ ~e.captured /\ d.format = "mcp" /\ ~d.captured
        BY <2>1, <2>3, <2>5, <3>2 DEF Captured
      <4>2. d \in Definition /\ e \in Definition
        BY <1>2 DEF IsBatch
      <4>3. d.approval = e.approval
        BY <4>1, <4>2, DefinitionAssumption
      <4> QED BY <1>1, <2>3, <4>1, <4>3, CatalogContained
    <3> QED BY <3>1, <3>2
  <2> QED BY <2>4, <2>5
<1> QED BY <1>4, <1>5

LEMMA SparedByInvariant == ProposedInv => UnreachedIsMapped
<1> SUFFICES ASSUME ProposedInv, Compared
             PROVE  UnreachedIsMapped
  BY DEF UnreachedIsMapped
<1>1. PICK b, a, map : b = assessment.before /\ a = assessment.after /\ map = assessment.map
  OBVIOUS
<1>2. b # Nothing /\ assessment = Evaluate(b, a, map)
  BY <1>1 DEF ProposedInv, Compared
<1>3. assessment.reached = IF MovedComponents(b, a) = {} THEN {} ELSE Reached(b, a, map)
  BY <1>2 DEF Evaluate
<1> DEFINE Spared(name, claim) == name \in DOMAIN map /\ map[name] # claim
<1>4. ASSUME NEW claim \in Claims \ assessment.reached, NEW k \in MovedComponents(b, a)
      PROVE  \/ k # "permissions" /\ Spared(k, claim)
             \/ k = "permissions" /\ \A p \in PathsMoved(b.definition, a.definition) : Spared(p, claim)
             \/ k = "mcp" /\ CarriedElsewhere(b, a)
  <2> DEFINE dependencies == {map[s] : s \in Subjects(b, a)}
  <2>1. claim \in Claims /\ claim \notin Reached(b, a, map)
    BY <1>3, <1>4
  <2>2. FullyMapped(b, a, map) /\ claim \notin dependencies
    BY <2>1 DEF Reached
  <2>3. \A s \in Subjects(b, a) : Spared(s, claim)
    BY <2>2 DEF FullyMapped
  <2>4. k \notin Unexplained(b, a)
    BY <2>2 DEF FullyMapped
  <2>5. CASE k = "permissions"
    <3>1. PathsMoved(b.definition, a.definition) \cap {"authorization"} = {}
      BY <1>4, <2>4, <2>5 DEF Unexplained
    <3>2. PathsMoved(b.definition, a.definition) \ {"authorization"} \subseteq Subjects(b, a)
      BY <1>4, <2>5 DEF Subjects
    <3> QED BY <2>3, <2>5, <3>1, <3>2
  <2>6. CASE k = "mcp"
    BY <1>4, <2>4, <2>6 DEF Unexplained
  <2>7. CASE k # "permissions" /\ k # "mcp"
    <3>1. k \in Subjects(b, a)
      BY <1>4, <2>7 DEF Subjects
    <3> QED BY <2>3, <2>7, <3>1
  <2> QED BY <2>5, <2>6, <2>7
<1> QED BY <1>1, <1>4 DEF UnreachedIsMapped

\* For any definitions and catalogs, any bound of leaves and any reviewed mapping: what a
\* dry run calls contracted or equivalent allows no more than before, and what changed is
\* named and mapped to other claims where it does not reach a claim: evaluate.  Not covered
\* are two blocks that are both cut off at the bound, a server of an agent definition that
\* moves with its permissions, and the open grant of an agent that appears without tools
\* or in another format.
THEOREM DryRunIsConservativeAlways == ProposedSpec => []DryRunIsConservative
<1>1. ProposedInv => DryRunIsConservative
  BY ContainedByInvariant, SparedByInvariant DEF DryRunIsConservative
<1> QED BY <1>1, ProposedInitially, ProposedStep, PTL DEF ProposedSpec
=============================================================================
