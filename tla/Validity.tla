------------------------------ MODULE Validity ------------------------------
(***************************************************************************)
(* invalidate() (core/validity.py): does evidence established for one      *)
(* fingerprint still apply to another one?  A worklist follows the         *)
(* dependencies of both fingerprints from the components the proof scope   *)
(* binds; what it reaches is compared and judged.                          *)
(*                                                                         *)
(* A fingerprint is a function from the components it lists to their       *)
(* content.  pending is a list in the code: popping a key that was reached *)
(* before does nothing, so it is a set here, popped in any order.          *)
(***************************************************************************)
EXTENDS Integers

CONSTANTS
    Component,    \* keys "type:id", listed by a fingerprint or only named in one
    Digest,       \* contents of a component
    Input         \* what is compared: [old, new, scope, age]

Entry == [digest : Digest, dependencies : SUBSET Component, known : BOOLEAN]
Fingerprint == UNION {[C -> Entry] : C \in SUBSET Component}

\* bindings: the bound components, each with the digests reviewed as compatible.
Scope == [bindings : UNION {[C -> SUBSET Digest] : C \in SUBSET Component},
          coverage : {"FULL_FINGERPRINT", "REVIEWED_DEPENDENCIES", "UNKNOWN"},
          authority : {"SYSTEM", "HUMAN_REVIEWED", "PROPOSED"},
          maxAge : Nat]

\* What the argument types admit.
Call == [old : Fingerprint, new : Fingerprint, scope : Scope, age : Int]

VARIABLES
    input,      \* the arguments
    pending,    \* keys still to visit
    reachable,  \* keys visited
    dangling,   \* a visited key is listed by neither fingerprint
    status      \* "open" until the judgement
validityVars == <<input, pending, reachable, dangling, status>>

old == input.old
new == input.new
scope == input.scope
Bound == DOMAIN scope.bindings
Listed == DOMAIN old \cup DOMAIN new

\* change_set: keys whose content, provenance aside, is not the same in both.
SameContent(k) ==
    /\ k \in DOMAIN old /\ k \in DOMAIN new
    /\ old[k].digest = new[k].digest
    /\ old[k].dependencies = new[k].dependencies
Changed == {k \in Listed : ~SameContent(k)}

Roots == IF scope.coverage = "FULL_FINGERPRINT" THEN Listed \cup Bound ELSE Bound

\* Fault: only the candidate's graph is followed.
CandidateDependencies(k) == IF k \in DOMAIN new THEN new[k].dependencies ELSE {}
\* The dependencies of k in both graphs.
Dependencies(k) ==
    (IF k \in DOMAIN old THEN old[k].dependencies ELSE {})
      \cup (IF k \in DOMAIN new THEN new[k].dependencies ELSE {})

ValidityInit ==
    /\ input \in Input \cap Call
    /\ pending = Roots
    /\ reachable = {}
    /\ dangling = FALSE
    /\ status = "open"

\* One turn of the loop.  A key that one graph lacks has changed; one that both lack
\* is unresolved.
Visit(k) ==
    /\ k \in pending
    /\ reachable' = reachable \cup {k}
    /\ pending' = (pending \ {k}) \cup (Dependencies(k) \ reachable')
    /\ dangling' = (dangling \/ k \notin Listed)
    /\ UNCHANGED <<input, status>>

\* Fault: a reviewed digest is enough, whatever the component now depends on.
CompatibleDigest(k) ==
    /\ k \in Bound /\ k \in DOMAIN old /\ k \in DOMAIN new
    /\ scope.authority = "HUMAN_REVIEWED"
    /\ new[k].digest \in scope.bindings[k]

\* A reviewer listed this very content as compatible, and the dependencies are as
\* they were.
Compatible(k) ==
    /\ k \in Bound /\ k \in DOMAIN old /\ k \in DOMAIN new
    /\ scope.authority = "HUMAN_REVIEWED"
    /\ new[k].digest \in scope.bindings[k]
    /\ old[k].dependencies = new[k].dependencies

Affected == {k \in Changed \cap reachable : ~Compatible(k)}

\* The arguments do not allow a judgement, whatever was reached.
Unjudgeable ==
    \/ DOMAIN old = {} \/ DOMAIN new = {}
    \/ scope.coverage = "UNKNOWN" \/ scope.authority = "PROPOSED"
    \/ input.age < 0 \/ input.age > scope.maxAge
    \/ \E k \in DOMAIN old : ~old[k].known
    \/ \E k \in DOMAIN new : ~new[k].known
\* A component that is new and outside the reviewed dependencies.
Unreviewed(reached) ==
    scope.coverage = "REVIEWED_DEPENDENCIES" /\ ~ DOMAIN new \subseteq DOMAIN old \cup reached
Unknown == dangling \/ Unjudgeable \/ Unreviewed(reachable)

Judge ==
    /\ status = "open" /\ pending = {}
    /\ status' = IF Affected # {} THEN "VOID"
                 ELSE IF Unknown THEN "UNKNOWN"
                 ELSE "STILL_VALID"
    /\ UNCHANGED <<input, pending, reachable, dangling>>

ValidityNext == (\E k \in pending : Visit(k)) \/ Judge

ValiditySpec == ValidityInit /\ [][ValidityNext]_validityVars

-----------------------------------------------------------------------------
(* Properties *)

\* Every variable has its type.
CallsTyped ==
    /\ input \in Call
    /\ pending \subseteq Component /\ reachable \subseteq Component
    /\ dangling \in BOOLEAN
    /\ status \in {"open", "VOID", "UNKNOWN", "STILL_VALID"}

\* k depends on each of these in the established or in the candidate's fingerprint.
DependsOn(k) ==
    UNION {f[k].dependencies : f \in {g \in {old, new} : k \in DOMAIN g}}

\* S holds the roots and everything its members depend on.
Closed(S) == Roots \subseteq S /\ \A k \in S : DependsOn(k) \subseteq S

\* Whatever the order of the visits, cycles, removed edges and dangling names
\* included, the keys reached in the end are the least closed set: nothing that the
\* evidence depended on before or depends on now is left out, and nothing else is in.
ReachesTheClosure ==
    pending = {} =>
        /\ Closed(reachable)
        /\ \A S \in SUBSET Component : Closed(S) => reachable \subseteq S

\* The answer is a function of the arguments, as its callers take it: the loop, in whatever
\* order it visits, implements one step that judges the least closed set.
Surface == {k \in Component : \A S \in SUBSET Component : Closed(S) => k \in S}
Judgement ==
    IF \E k \in Changed \cap Surface : ~Compatible(k) THEN "VOID"
    ELSE IF ~ Surface \subseteq Listed \/ Unjudgeable \/ Unreviewed(Surface) THEN "UNKNOWN"
    ELSE "STILL_VALID"
JudgedAtOnce ==
    [][status = "open" /\ status' = Judgement /\ UNCHANGED input]_<<input, status>>

\* Evidence is reused only if it is not too old and its whole surface, a set that holds
\* the roots and everything its members depend on on either side, is unaffected: each
\* component is listed and known on both sides, is unchanged or carries a content a
\* reviewer listed for it, and depends on what it depended on.
Unaffected(k) ==
    /\ k \in DOMAIN old /\ k \in DOMAIN new
    /\ old[k].known /\ new[k].known
    /\ old[k].dependencies = new[k].dependencies
    /\ \/ old[k].digest = new[k].digest
       \/ /\ scope.authority = "HUMAN_REVIEWED" /\ k \in Bound
          /\ new[k].digest \in scope.bindings[k]
ReuseIsSound ==
    status = "STILL_VALID" =>
        /\ 0 <= input.age /\ input.age <= scope.maxAge
        /\ scope.authority # "PROPOSED"
        /\ \E S \in SUBSET Component : Closed(S) /\ \A k \in S : Unaffected(k)

\* The loop ends, on cyclic graphs too: each of its turns reaches one more key or leaves
\* fewer to visit, and there are only so many keys.
EveryTurnAdvances ==
    [][status' = "open" =>
         \/ reachable \subseteq reachable' /\ reachable # reachable'
         \/ reachable = reachable' /\ pending' \subseteq pending /\ pending # pending']_validityVars

-----------------------------------------------------------------------------
(* The inductive invariant behind the proofs *)

\* What was reached or is pending holds the roots and the dependencies of what was
\* reached, and lies in every closed set; a key that is listed nowhere is remembered.
ScanInv ==
    /\ Roots \subseteq reachable \cup pending
    /\ \A k \in reachable : Dependencies(k) \subseteq reachable \cup pending
    /\ \A S \in SUBSET Component : Closed(S) => reachable \cup pending \subseteq S
    /\ dangling <=> \E k \in reachable : k \notin Listed

JudgedInv ==
    /\ status # "open" => pending = {}
    /\ status = "STILL_VALID" => Affected = {} /\ ~Unknown
=============================================================================
