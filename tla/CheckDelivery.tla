---------------------------- MODULE CheckDelivery ----------------------------
(***************************************************************************)
(* Delivery of release decisions to GitHub as check runs                   *)
(* (integrations/github_release.py, integrations/github_app.py): one       *)
(* outbox row per release, claimed under a lease by concurrent calls of    *)
(* reconcile_github_checks, which hold the locks of the system and of the  *)
(* repository's binding from reading the release until GitHub has answered.*)
(* issue_release takes the first of the locks only, whoever publishes,     *)
(* registers or revokes only the second: a release may be issued between   *)
(* what publish_release reads and what it writes.                          *)
(*                                                                         *)
(* A claim is named by the reconciler that made it: the uuid of the code   *)
(* tells it from the reconciler's earlier claims, and those are over.      *)
(* Time is counted in leases of two minutes.                               *)
(***************************************************************************)
EXTENDS Integers, FiniteSets

CONSTANTS
    Releases,      \* of one repository, numbered as they are issued
    Reconciler,    \* concurrent calls of reconcile_github_checks
    MaxAttempts,   \* the 10 claims after which a person is asked
    Poll,          \* time until a delivered check is reconciled again
    MaxInstalls, MaxRefresh, \* bounds on what people do
    Nobody

ASSUME DeliveryAssumption == Nobody \notin Reconciler /\ Poll \in Int

VARIABLES
    row,       \* the outbox row of each release
    lock,      \* the reconciler that holds the system's and the binding's lock
    asked,     \* what publish_release has read, while it holds the binding's lock
    pc,        \* what each reconciler is doing, and for which release
    late,      \* requests in flight that nobody waits for
    checks,    \* the check runs on GitHub for each release
    installs,  \* App installations registered so far
    active,    \* the newest of them is not revoked
    refreshes  \* calls of publish_release so far

deliveryVars == <<row, lock, asked, pc, late, checks, installs, active, refreshes>>

Live == {"pending", "retry", "claimed", "ambiguous", "delivered"}
NoRow == [status |-> "none", attempts |-> 0, started |-> FALSE, due |-> 0, claim |-> Nobody,
          install |-> 0]
Unoccupied == [at |-> "idle", release |-> 0, what |-> "none"]
NotAsked == [release |-> 0, row |-> NoRow, seen |-> {}]

DeliveryInit ==
    /\ row = [r \in Releases |-> NoRow]
    /\ lock = Nobody /\ asked = NotAsked
    /\ pc = [p \in Reconciler |-> Unoccupied]
    /\ late = {}
    /\ checks = [r \in Releases |-> 0]
    /\ installs = 1 /\ active = TRUE
    /\ refreshes = 0

-----------------------------------------------------------------------------
(* Releases and installations *)

\* Fault: publish_release does not take the lock of the binding.
BindingUnlocked == lock = Nobody
\* The reconcilers and whoever publishes, registers or revokes exclude each other.
BindingFree == lock = Nobody /\ asked = NotAsked

\* Of the rows that were seen, the older live one of the repository is superseded.
Enqueued(r, seen) ==
    [q \in Releases |->
        IF q = r THEN [NoRow EXCEPT !.status = "pending", !.install = installs]
        ELSE IF q \in seen /\ row[q].status \in Live THEN [row[q] EXCEPT !.status = "superseded"]
        ELSE row[q]]
\* issue_release: a release is not enqueued while the repository has no installation.
IssueRelease(r) ==
    /\ lock = Nobody
    /\ row[r].status = "none" /\ \A q \in Releases : q < r => row[q].status # "none"
    /\ row' = IF active THEN Enqueued(r, Releases) ELSE [row EXCEPT ![r].status = "unrouted"]
    /\ UNCHANGED <<lock, asked, pc, late, checks, installs, active, refreshes>>

\* publish_release reads: a superseded release is refused, a pending or claimed one left
\* alone, and one that was not enqueued before supersedes what was, be it older or newer.
ReadPublish(r) ==
    /\ BindingFree /\ active /\ refreshes < MaxRefresh
    /\ row[r].status \in {"unrouted", "delivered", "retry", "needs_attention", "ambiguous"}
    /\ asked' = [release |-> r, row |-> row[r],
                  seen |-> IF row[r].status = "unrouted"
                           THEN {q \in Releases : row[q].status # "none"} ELSE {}]
    /\ refreshes' = refreshes + 1
    /\ UNCHANGED <<row, lock, pc, late, checks, installs, active>>
\* What it writes over a row that was claimed, finished or superseded since: the columns
\* whose value it changes, and the whole payload as it was read.
Refreshed(now, read) ==
    [now EXCEPT !.status = IF read.status = "retry" THEN @ ELSE "retry",
                !.attempts = IF read.attempts = 0 THEN @ ELSE 0,
                !.due = 0, !.claim = read.claim, !.started = read.started]
CommitPublish ==
    LET r == asked.release
    IN  /\ asked # NotAsked
        /\ row' = IF asked.row.status = "unrouted" THEN Enqueued(r, asked.seen)
                  ELSE [row EXCEPT ![r] = Refreshed(@, asked.row)]
        /\ asked' = NotAsked
        /\ UNCHANGED <<lock, pc, late, checks, installs, active, refreshes>>
\* The call stops before its commit.
RollbackPublish ==
    /\ asked # NotAsked
    /\ asked' = NotAsked
    /\ UNCHANGED <<row, lock, pc, late, checks, installs, active, refreshes>>

\* By a security owner, or as GitHub's webhook says the App was removed or suspended.
RevokeInstallation ==
    /\ BindingFree /\ active
    /\ active' = FALSE
    /\ UNCHANGED <<row, lock, asked, pc, late, checks, installs, refreshes>>
RegisterInstallation ==
    /\ BindingFree /\ ~active /\ installs < MaxInstalls
    /\ active' = TRUE /\ installs' = installs + 1
    /\ UNCHANGED <<row, lock, asked, pc, late, checks, refreshes>>

-----------------------------------------------------------------------------
(* reconcile_github_checks *)

Move(p, at, what) == pc' = [pc EXCEPT ![p].at = at, ![p].what = what]

\* Fault: what somebody has claimed is left to them.
ClaimableUnclaimed(r) == row[r].status \in Live \ {"claimed"} /\ row[r].due = 0
\* _claim_delivery: the row's lock is held for this transaction only.  A claim that is
\* not finished when its lease ends is taken over.
Claimable(r) == row[r].status \in Live /\ row[r].due = 0
Attempts(r) == IF row[r].status = "delivered" THEN 0 ELSE row[r].attempts
Claim(p, r) ==
    /\ pc[p].at = "idle" /\ Claimable(r)
    /\ IF Attempts(r) >= MaxAttempts
       THEN /\ row' = [row EXCEPT ![r].status = "needs_attention"]
            /\ UNCHANGED pc
       ELSE /\ row' = [row EXCEPT ![r] = [@ EXCEPT !.status = "claimed", !.claim = p,
                           !.due = 1, !.attempts = Attempts(r) + 1]]
            /\ pc' = [pc EXCEPT ![p] = [at |-> "claimed", release |-> r,
                           what |-> IF row[r].started THEN "mayUpdate" ELSE "mayCreate"]]
    \* What publish_release has read of an earlier claim of this call is over.
    /\ asked' = IF asked.row.claim = p THEN [asked EXCEPT !.row.claim = Nobody] ELSE asked
    /\ UNCHANGED <<lock, late, checks, installs, active, refreshes>>

\* The release and its installation are read, GitHub is asked for the release's check.
Authorized(r) == active /\ row[r].install = installs
Reconcile(p) ==
    LET r == pc[p].release
    IN  /\ pc[p].at = "claimed" /\ BindingFree
        /\ \/ Move(p, "failed", "retry") /\ lock' = Nobody    \* refused, or GitHub failed
           \/ /\ Authorized(r) /\ checks[r] = 1
              /\ Move(p, "ready", "update") /\ lock' = p
           \/ /\ Authorized(r) /\ checks[r] = 0
              /\ IF pc[p].what = "mayCreate"
                 THEN Move(p, "ready", "create") /\ lock' = p
                 ELSE Move(p, "failed", "ambiguous") /\ lock' = Nobody
    /\ UNCHANGED <<row, asked, late, checks, installs, active, refreshes>>

\* _begin_write
ClaimCurrent(p, r) ==
    row[r].status = "claimed" /\ row[r].claim = p /\ row[r].due > 0
\* _begin_release_write: the assessment may have changed with the time.
BeginWrite(p) ==
    LET r == pc[p].release
    IN  /\ pc[p].at = "ready"
        /\ \/ /\ ClaimCurrent(p, r)
              /\ row' = [row EXCEPT ![r].started = TRUE]
              /\ Move(p, "sent", pc[p].what) /\ UNCHANGED lock
           \/ /\ Move(p, "failed", "retry")
              /\ lock' = Nobody /\ UNCHANGED row
    /\ UNCHANGED <<asked, late, checks, installs, active, refreshes>>

Write(p) == [kind |-> pc[p].what, release |-> pc[p].release]
\* A late update changes no number of checks and is left out.
Delayed(p) == IF Write(p).kind = "create" THEN late \cup {Write(p)} ELSE late
Applied(q) == IF q.kind = "create" THEN [checks EXCEPT ![q.release] = @ + 1] ELSE checks

\* An answer that names the check.
Answered(p) ==
    /\ pc[p].at = "sent"
    /\ checks' = Applied(Write(p))
    /\ Move(p, "written", "none") /\ lock' = Nobody
    /\ UNCHANGED <<row, asked, late, installs, active, refreshes>>
\* A refusal, or no certain answer to what GitHub did, did not or may still do.
NotAnswered(p) ==
    /\ pc[p].at = "sent"
    /\ \/ Move(p, "failed", "retry") /\ UNCHANGED <<checks, late>>
       \/ Move(p, "failed", "ambiguous") /\ UNCHANGED <<checks, late>>
       \/ Move(p, "failed", "ambiguous") /\ checks' = Applied(Write(p)) /\ UNCHANGED late
       \/ Move(p, "failed", "ambiguous") /\ late' = Delayed(p) /\ UNCHANGED checks
    /\ lock' = Nobody
    /\ UNCHANGED <<row, asked, installs, active, refreshes>>
LateWrite(q) ==
    /\ late' = late \ {q}
    /\ checks' = Applied(q)
    /\ UNCHANGED <<row, lock, asked, pc, installs, active, refreshes>>

\* The last transaction, and _finish_delivery: only while the claim is still the row's.
Holds(p, r) == row[r].status = "claimed" /\ row[r].claim = p
Finish(p) ==
    LET r == pc[p].release
    IN  /\ pc[p].at \in {"written", "failed"}
        /\ row' = IF ~Holds(p, r) THEN row
                  ELSE IF pc[p].at = "written"
                  THEN [row EXCEPT ![r].status = "delivered", ![r].due = Poll]
                  ELSE [row EXCEPT ![r].status = pc[p].what]
        /\ pc' = [pc EXCEPT ![p] = Unoccupied]
    /\ UNCHANGED <<lock, asked, late, checks, installs, active, refreshes>>

\* The process stops; a request it sent may still arrive.
Crash(p) ==
    /\ pc[p].at # "idle"
    /\ late' = IF pc[p].at = "sent" THEN Delayed(p) ELSE late
    /\ lock' = IF lock = p THEN Nobody ELSE lock
    /\ pc' = [pc EXCEPT ![p] = Unoccupied]
    /\ UNCHANGED <<row, asked, checks, installs, active, refreshes>>

Elapse ==
    /\ \E r \in Releases : row[r].due > 0
    /\ row' = [r \in Releases |-> [row[r] EXCEPT !.due = IF @ > 0 THEN @ - 1 ELSE 0]]
    /\ UNCHANGED <<lock, asked, pc, late, checks, installs, active, refreshes>>

-----------------------------------------------------------------------------

People ==
    \/ \E r \in Releases : IssueRelease(r) \/ ReadPublish(r)
    \/ CommitPublish \/ RollbackPublish
    \/ RevokeInstallation \/ RegisterInstallation
Step(p) == BeginWrite(p) \/ Answered(p) \/ NotAnswered(p) \/ Finish(p)
DeliveryNext ==
    \/ People
    \/ \E p \in Reconciler : Step(p) \/ Reconcile(p) \/ Crash(p) \/ \E r \in Releases : Claim(p, r)
    \/ \E q \in late : LateWrite(q)
    \/ Elapse

\* Calls of reconcile_github_checks are repeated for ever and go through the due rows in
\* order (at most 20 are due); PostgreSQL's locks are granted in turn.
DeliveryFairness ==
    /\ WF_deliveryVars(Elapse) /\ WF_deliveryVars(CommitPublish \/ RollbackPublish)
    /\ \A p \in Reconciler : WF_deliveryVars(Step(p)) /\ SF_deliveryVars(Reconcile(p))
    /\ \A r \in Releases : SF_deliveryVars(\E p \in Reconciler : Claim(p, r))

DeliverySpec == DeliveryInit /\ [][DeliveryNext]_deliveryVars /\ DeliveryFairness

-----------------------------------------------------------------------------
(* Properties *)

\* However often a delivery is claimed, taken over, asked for again, cut off by a crash
\* or left without an answer, and however late a request arrives, a release never has
\* two check runs: after the first attempt to create one, only what is found is written.
CreatedAtMostOnce == \A r \in Releases : checks[r] <= 1

\* No delivery is forgotten in the middle: claimed by a process that stopped, refused or
\* left without an answer, it is delivered, superseded, or handed to a person.  Calls of
\* reconcile_github_checks are repeated for ever and each does its next step, or stops.
DeliverySettles ==
    \A r \in Releases :
        row[r].status \in Live \ {"delivered"} ~>
            row[r].status \in {"delivered", "superseded", "needs_attention"}

-----------------------------------------------------------------------------
(* The inductive invariant behind the proof *)

RowStatus == Live \cup {"none", "unrouted", "superseded", "needs_attention"}
Row == [status : RowStatus, attempts : Int, started : BOOLEAN, due : Int,
        claim : Reconciler \cup {Nobody}, install : Nat]
Place == [at : {"idle", "claimed", "ready", "sent", "written", "failed"},
          release : Releases \cup {0},
          what : {"none", "mayCreate", "mayUpdate", "create", "update", "retry", "ambiguous"}]
\* Every variable that the argument reads has its type; who is at work has a release.
DeliveryTypes ==
    /\ row \in [Releases -> Row]
    /\ pc \in [Reconciler -> Place]
    /\ \A p \in Reconciler :
          /\ pc[p].at # "idle" => pc[p].release \in Releases
          /\ pc[p].at = "failed" => pc[p].what \in {"retry", "ambiguous"}
    /\ asked \in [release : Releases \cup {0}, row : Row, seen : SUBSET Releases]
    /\ late \subseteq [kind : {"create"}, release : Releases]
    /\ checks \in [Releases -> Nat]
    /\ installs \in Nat

MayCreate(p, r) ==
    /\ pc[p].release = r
    /\ \/ pc[p].at = "claimed" /\ pc[p].what = "mayCreate"
       \/ pc[p].at = "ready" /\ pc[p].what = "create"
Creating(p, r) == pc[p].release = r /\ pc[p].at = "sent" /\ pc[p].what = "create"
Underway(r) == [kind |-> "create", release |-> r]

\* A row that was never enqueued was not started; whoever holds the claim of a row and
\* may create its check is the first to begin.
StartInv ==
    \A r \in Releases :
        /\ row[r].status \in {"none", "unrouted"} => ~row[r].started
        /\ \A p \in Reconciler :
              MayCreate(p, r) /\ row[r].claim = p => ~row[r].started
\* From reading a row to writing it, publish_release keeps every call out that could begin:
\* what it writes back was not started meanwhile, and hands nobody a claim to begin with.
AskedInv ==
    /\ \A p \in Reconciler : pc[p].at \in {"ready", "sent"} => lock = p
    /\ asked # NotAsked =>
          /\ lock = Nobody /\ asked.release \in Releases
          /\ IF asked.row.status = "unrouted" THEN row[asked.release].status = "unrouted"
             ELSE row[asked.release].status \notin {"none", "unrouted"}
          /\ asked.row.started = row[asked.release].started
          /\ \A p \in Reconciler :
                MayCreate(p, asked.release) /\ asked.row.claim = p => ~asked.row.started
\* Before the first attempt there is nothing; after it, the check, a request that is
\* underway or one that somebody waits for, and only one of these.
OnlyOne(r) ==
    /\ ~row[r].started =>
          /\ checks[r] = 0 /\ Underway(r) \notin late
          /\ \A p \in Reconciler : ~Creating(p, r)
    /\ checks[r] <= 1
    /\ checks[r] = 1 => Underway(r) \notin late /\ \A p \in Reconciler : ~Creating(p, r)
    /\ Underway(r) \in late => \A p \in Reconciler : ~Creating(p, r)
    /\ \A p, q \in Reconciler : Creating(p, r) /\ Creating(q, r) => p = q
CreateInv == \A r \in Releases : OnlyOne(r)
=============================================================================
