---------------------------- MODULE ReleaseReuse ----------------------------
(***************************************************************************)
(* The release ledger with the judgement of invalidate() in the place of   *)
(* what it assumes of it.  ReleaseIntegrity leaves open for which changes  *)
(* evidence is reused (Reuse); _assess_evidence asks invalidate(), which    *)
(* answers as Validity's Judgement, a function of its arguments.           *)
(***************************************************************************)
EXTENDS ReleaseIntegrity

CONSTANTS
    Part, Content,  \* of the fingerprints: their components and contents
    Arguments       \* of invalidate(), for a property and two configurations

J(t) == INSTANCE Validity WITH
            Component <- Part, Digest <- Content, Input <- {}, input <- Arguments[t],
            pending <- {}, reachable <- {}, dangling <- FALSE, status <- "open"

\* Evidence is reused for no change but those that are judged to leave it valid.
ReuseIsJudged ==
    \A t \in Reuse : Arguments[t] \in J(t)!Call /\ J(t)!Judgement = "STILL_VALID"

\* A surface that the change leaves unaffected: what the proof scope binds and all that
\* it depends on, in the old configuration or in the new one.
SurfaceUnaffected(t) ==
    \E S \in SUBSET Part : J(t)!Closed(S) /\ \A k \in S : J(t)!Unaffected(k)

\* A release reads ALLOW only while there is, for every property approved by now, a run
\* that passed within the window, on the release's own configuration or on one from which
\* nothing that the run depended on has changed without a review.
AllowRestsOnSurfaces ==
    \A r \in DOMAIN releases :
        Current(releases[r]).underlying = "ALLOW" =>
            LET c == plans[releases[r].plan].config
            IN  \A p \in approved : \E i \in DOMAIN evidence :
                  /\ evidence[i].property = p /\ evidence[i].good
                  /\ evidence[evidence[i].run].age <= Window
                  /\ evidence[i].config = c \/ SurfaceUnaffected(<<p, evidence[i].config, c>>)
=============================================================================
