----------------------------- MODULE MCValidity -----------------------------
(***************************************************************************)
(* Every pair of fingerprints over three components, with any dependencies *)
(* on other components, cycles and dangling names included, where the      *)
(* candidate may also change contents and hold one of unknown provenance,  *)
(* under scopes of each coverage.                                          *)
(***************************************************************************)
EXTENDS Validity

CONSTANTS k1, k2, k3

Graphs(C, contents, provenances) ==
    UNION {{f \in [D -> [digest : contents, dependencies : SUBSET C,
                         known : provenances]] :
              \A k \in D : k \notin f[k].dependencies} : D \in SUBSET C}

OldPrints == {f \in Graphs({k1, k2, k3}, {1}, {TRUE}) : k1 \in DOMAIN f}
\* The new ones change k1; k2 may be of unknown provenance; k2 and k3 come and go.
NewPrints == {f \in Graphs({k1, k2, k3}, {1, 2}, BOOLEAN) :
                 \A k \in DOMAIN f : /\ f[k].known \/ k = k2
                                     /\ f[k].digest = 1 \/ k = k1}

FullScope == [bindings |-> [k \in {} |-> {}], coverage |-> "FULL_FINGERPRINT",
              authority |-> "SYSTEM", maxAge |-> 1]
\* k1 is bound and its second content was reviewed; the rest follows from it.
ReviewedScope == [bindings |-> [k \in {k1} |-> {2}], coverage |-> "REVIEWED_DEPENDENCIES",
                  authority |-> "HUMAN_REVIEWED", maxAge |-> 1]
ProposedScope == [ReviewedScope EXCEPT !.coverage = "UNKNOWN", !.authority = "PROPOSED"]

MCInput ==
    [old : OldPrints, new : NewPrints, scope : {ReviewedScope}, age : {1}]
      \cup [old : {f \in OldPrints : DOMAIN f = {k1, k2}}, new : NewPrints,
            scope : {FullScope}, age : {1, 2}]
      \cup [old : {f \in OldPrints : DOMAIN f = {k1}}, new : NewPrints,
            scope : {ProposedScope}, age : {1}]

\* A call that has returned.
Returned ==
    /\ input = CHOOSE i \in MCInput : i.old = i.new /\ DOMAIN i.old = {k1}
    /\ pending = {} /\ reachable = {k1} /\ dangling = FALSE /\ status = "STILL_VALID"
=============================================================================
