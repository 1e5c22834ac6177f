---------------------------- MODULE RunExecution ----------------------------
(***************************************************************************)
(* The life of one verification run of one organization, from POST         *)
(* /v1/runs to its settlement, as the API, the launcher, the broker, the   *)
(* worker jobs and the reconciliation job drive it (api.py, launcher.py,   *)
(* broker.py, worker.py, maintenance.py, captures.py, adverse_memory.py).  *)
(*                                                                         *)
(* Every handler that runs in one database transaction is one action: the  *)
(* handlers take the system's advisory lock or the run_state row lock, so  *)
(* two of them never interleave inside a transaction.  What does           *)
(* interleave is modelled: the launcher's steps between its broker calls,  *)
(* the second transaction of a completion (finish_run) after the first     *)
(* one committed, the local executor's transactions around a trial, and    *)
(* the loss of any of these by a crash.                                    *)
(*                                                                         *)
(* Time is a common clock that ages the timers; a unit is about 300 s.     *)
(***************************************************************************)
EXTENDS Integers, Sequences, FiniteSets

CONSTANTS
    Run,          \* runs, numbered in the order in which they are created
    Dispatcher,   \* concurrent executions of the launcher's dispatch_pending
    LocalMode,    \* settings().is_local: execute_run instead of the launcher
    Streamed,     \* runs whose adapter records durable captures (http, mcp, ...)
    Observed,     \* runs bound to a qualified observer (observer_id)
    Qualifying,   \* runs that are observer qualification cases
    Baselined,    \* runs compared with a baseline
    StrictPolicy, \* runs whose property has release_policy = "BLOCK"
    Scope,        \* (system, property, target, candidate) tuples
    scopeOf,      \* the scope of a run
    Trial,        \* what one trial can show
    Slots,        \* trials * variant_count of a run
    CaptureBudget,\* captures of full size that fit MAX_RUN_CAPTURE_BYTES
    Units,        \* units a run reserves
    Limit,        \* monthly_verification_budget
    PageSize,     \* the LIMIT of /internal/pending
    MaxFence,     \* bound on the leases issued for one run
    BootstrapTTL, \* bootstrap_ttl_seconds
    LeaseTTL,     \* lease_ttl_seconds
    RetryLimit,   \* the 3 leases after which reconcile_runs gives up
    MaxRun,       \* the 900 s of /v1/renew
    Deadline      \* the 20 minutes of reconcile_runs

Verdict    == {"PASS", "FAIL", "INCONCLUSIVE"}
Task       == {"SUCCESS", "FAILURE", "UNKNOWN"}
Sample     == [security_verdict : Verdict, task_outcome : Task,
               candidate_observed : BOOLEAN]
Terminal   == {"COMPLETED", "ERROR", "TIMEOUT"}
Outcome    == [execution_status : Terminal, security_verdict : Verdict,
               task_outcome : Task, candidate_observed : BOOLEAN]
Action     == {"ALLOW", "WARN", "BLOCK"}
Result     == [execution_status : Terminal, security_verdict : Verdict,
               task_outcome : Task, candidate_observed : BOOLEAN,
               authorization_current : BOOLEAN, release_action : Action,
               units : Nat]
Fence      == 1..MaxFence

ASSUME RunAssumption ==
    /\ Run \subseteq Nat
    /\ Streamed \subseteq Run /\ Observed \subseteq Streamed
    /\ Qualifying \subseteq Observed
    /\ Baselined \subseteq Run /\ StrictPolicy \subseteq Run
    /\ scopeOf \in [Run -> Scope]
    /\ Units \in [Run -> Nat \ {0}]
    /\ LocalMode \in BOOLEAN
ASSUME BoundAssumption ==
    /\ Trial \subseteq Sample
    /\ \A n \in {Slots, CaptureBudget, PageSize, MaxFence, BootstrapTTL,
                 LeaseTTL, RetryLimit, MaxRun, Deadline} : n \in Nat \ {0}
    /\ Limit \in Nat

VARIABLES
    status,       \* run_state.status, "NONE" before the run is created
    result,       \* the settled results; run_state.settled is its domain
    outbox,       \* status of the run's run.dispatch row
    fence,        \* run_leases: the highest fence issued (0: no lease)
    claimed,      \* run_leases: the fences whose lease has a claimed_at
    revoked,      \* run_leases: the fences whose lease is revoked
    ttl,          \* time left until the newest lease's bootstrap_expires, or
                  \* lease_expires once it is claimed
    held,         \* time since claimed_at
    age,          \* time since run.created_at
    launched,     \* bootstrap tokens that reached a runner job
    captured,     \* records trial_capture of a run, in order
    completion,   \* records worker_completion of a run
    finishing,    \* calls of finish_run committed to but not yet executed
    executor,     \* the local executor's task for a run
    batch,        \* dispatch_pending: items fetched and not yet handled
    hand,         \* dispatch_pending: the item being dispatched
    targetRevoked,\* scopes whose target is revoked or expired
    observerRevoked, \* scopes whose observer family is revoked
    frozen,       \* an organization_deletion is pending
    reserved,     \* accounts.reserved
    consumed      \* accounts.consumed

leases == <<fence, claimed, revoked, ttl, held, launched>>
evidence == <<captured, completion>>
dispatch == <<batch, hand>>
authority == <<targetRevoked, observerRevoked, frozen>>
account == <<reserved, consumed>>
vars == <<status, result, outbox, leases, age, evidence, finishing, executor,
          dispatch, authority, account>>

NoHand == [run |-> 0, fence |-> 0, stage |-> "idle"]

Init ==
    /\ status = [r \in Run |-> "NONE"]
    /\ result = [r \in {} |-> {}]
    /\ outbox = [r \in Run |-> "none"]
    /\ fence = [r \in Run |-> 0]
    /\ claimed = [r \in Run |-> {}]
    /\ revoked = [r \in Run |-> {}]
    /\ ttl = [r \in Run |-> 0]
    /\ held = [r \in Run |-> 0]
    /\ age = [r \in Run |-> 0]
    /\ launched = [r \in Run |-> {}]
    /\ captured = [r \in Run |-> <<>>]
    /\ completion = [r \in Run |-> {}]
    /\ finishing = [r \in Run |-> {}]
    /\ executor = [r \in Run |-> "none"]
    /\ batch = [d \in Dispatcher |-> {}]
    /\ hand = [d \in Dispatcher |-> NoHand]
    /\ targetRevoked = {} /\ observerRevoked = {} /\ frozen = FALSE
    /\ reserved = 0 /\ consumed = 0

-----------------------------------------------------------------------------
(* What the handlers read *)

\* The longest held time the clock distinguishes.
MaxHeld == MaxRun + LeaseTTL + 1

Settled == DOMAIN result
Created == {r \in Run : status[r] # "NONE"}

\* authorized_target: not frozen by a pending deletion, not revoked, not expired.
TargetAuthorized(r) == ~frozen /\ scopeOf[r] \notin targetRevoked
\* ... and, for a run bound to an observer, active_observer.
Authorized(r) ==
    /\ TargetAuthorized(r)
    /\ r \in Observed => scopeOf[r] \notin observerRevoked

\* Only the newest lease has a timer: an older one, which the code revokes and this
\* module proves revoked, is taken never to expire.
Unexpired(r, f) == f = fence[r] => ttl[r] > 0

\* The broker's authorize(): the lease may act on its run.
LeaseAuthorized(r, f) ==
    /\ status[r] = "RUNNING" /\ r \notin Settled
    /\ f \in claimed[r] \ revoked[r]
    /\ Unexpired(r, f)
    /\ Authorized(r)

\* Without a bound observer no witness is trusted, so a trial proves nothing.
TrialOf(r) ==
    IF r \in Streamed \ Observed
    THEN {t \in Trial : t.security_verdict = "INCONCLUSIVE"}
    ELSE Trial

HasCaptureCapacity(r) == Len(captured[r]) + 1 <= CaptureBudget

FailureCaptured(r) ==
    \E i \in DOMAIN captured[r] : captured[r][i].security_verdict = "FAIL"

\* evaluate_acquisition over a complete set of samples.
Evaluate(samples) ==
    LET some(v) == \E i \in DOMAIN samples : samples[i].security_verdict = v
        task(v) == \E i \in DOMAIN samples : samples[i].task_outcome = v
    IN  [execution_status |-> "COMPLETED",
         security_verdict |-> IF some("FAIL") THEN "FAIL"
                              ELSE IF some("INCONCLUSIVE") THEN "INCONCLUSIVE"
                              ELSE "PASS",
         task_outcome |-> IF task("FAILURE") THEN "FAILURE"
                          ELSE IF task("UNKNOWN") THEN "UNKNOWN"
                          ELSE "SUCCESS",
         candidate_observed |->
             \A i \in DOMAIN samples : samples[i].candidate_observed]

\* The result a completion evaluates to: from the durable captures when there
\* are any (evaluate_persisted refuses an incomplete set), else from one sample.
Completions(r) ==
    {Evaluate(s) : s \in IF r \notin Streamed THEN {<<t>> : t \in Trial}
                        ELSE {c \in {captured[r]} : Len(c) = Slots}}

\* Fault: the status is also written as the verdict.
UnfinishedAsVerdict(s) ==
    [execution_status |-> s, security_verdict |-> s,
     task_outcome |-> "UNKNOWN", candidate_observed |-> FALSE]
Unfinished(s) ==
    [execution_status |-> s, security_verdict |-> "INCONCLUSIVE",
     task_outcome |-> "UNKNOWN", candidate_observed |-> FALSE]

\* adverse_memory: other runs of the same scope, settled or not, that recorded a
\* failure of the observed candidate.
ConfirmedFailure(q) ==
    \E i \in DOMAIN captured[q] : /\ captured[q][i].security_verdict = "FAIL"
                                  /\ captured[q][i].candidate_observed
\* Fault: only the failures of settled runs are remembered.
AdverseSettledRuns(r) ==
    {q \in (Observed \ Qualifying) \ {r} :
        scopeOf[q] = scopeOf[r] /\ q \in Settled /\ ConfirmedFailure(q)}
AdverseRuns(r) ==
    {q \in (Observed \ Qualifying) \ {r} :
        scopeOf[q] = scopeOf[r] /\ ConfirmedFailure(q)}
HistoryBlocked(r, o) ==
    r \in Observed /\ o.candidate_observed /\ AdverseRuns(r) # {}

-----------------------------------------------------------------------------
(* The API: creating a run, withdrawing authority *)

\* require_verification_capacity.
\* Fault: units that are only reserved are not counted.
ConsumedWithinBudget(r) == consumed + Units[r] <= Limit
WithinBudget(r) == consumed + reserved + Units[r] <= Limit

\* create_run for a new idempotency key (a known key returns the existing run).
CreateRun(r) ==
    /\ status[r] = "NONE"
    /\ \A q \in Run : q < r => status[q] # "NONE"
    /\ Authorized(r)
    /\ WithinBudget(r)
    /\ status' = [status EXCEPT ![r] = "QUEUED"]
    /\ outbox' = [outbox EXCEPT ![r] = "pending"]
    /\ reserved' = reserved + Units[r]
    /\ executor' = [executor EXCEPT ![r] = IF LocalMode THEN "queued" ELSE "none"]
    /\ UNCHANGED <<result, leases, age, evidence, finishing, dispatch,
                   authority, consumed>>

\* revoke_target, or the target authorization reaching its expires_at.
RevokeTarget(s) ==
    /\ s \notin targetRevoked
    /\ targetRevoked' = targetRevoked \cup {s}
    /\ UNCHANGED <<status, result, outbox, leases, age, evidence, finishing,
                   executor, dispatch, observerRevoked, frozen, account>>

\* revoke_observer.
RevokeObserver(s) ==
    /\ s \notin observerRevoked
    /\ observerRevoked' = observerRevoked \cup {s}
    /\ UNCHANGED <<status, result, outbox, leases, age, evidence, finishing,
                   executor, dispatch, targetRevoked, frozen, account>>

\* Fault: a deletion request freezes the organization but leaves its targets.
KeptByDeletion == targetRevoked
RevokedByDeletion == Scope

\* request_deletion: freezes the organization, revokes targets and leases and
\* disables the rows that wait for a dispatcher.
RequestDeletion ==
    /\ ~frozen
    /\ frozen' = TRUE
    /\ targetRevoked' = RevokedByDeletion
    /\ revoked' = [r \in Run |-> 1..fence[r]]
    /\ outbox' = [r \in Run |->
                    IF outbox[r] = "pending" THEN "disabled" ELSE outbox[r]]
    /\ UNCHANGED <<status, result, fence, claimed, ttl, held, launched, age,
                   evidence, finishing, executor, dispatch, observerRevoked,
                   account>>

\* cancel_deletion: the organization may work again, nothing revoked comes back.
CancelDeletion ==
    /\ frozen
    /\ frozen' = FALSE
    /\ UNCHANGED <<status, result, outbox, leases, age, evidence, finishing,
                   executor, dispatch, targetRevoked, observerRevoked, account>>

-----------------------------------------------------------------------------
(* The launcher: dispatch_pending *)

Idle(d) == hand[d] = NoHand
First(d, r) == r \in batch[d] /\ \A q \in batch[d] : r <= q
Pending == {r \in Run : outbox[r] = "pending"}

\* POST /internal/pending: the oldest PageSize items, in order of creation.
FetchPending(d) ==
    /\ Idle(d) /\ batch[d] = {} /\ Pending # {}
    /\ batch' = [batch EXCEPT ![d] =
          {r \in Pending : Cardinality({q \in Pending : q < r}) < PageSize}]
    /\ UNCHANGED <<status, result, outbox, leases, age, evidence, finishing,
                   executor, hand, authority, account>>

\* Fault: a run that is already running may be dispatched again.
DispatchableWhileRunning(r) ==
    status[r] \in {"QUEUED", "DISPATCHED", "RUNNING"} /\ TargetAuthorized(r)
Dispatchable(r) == status[r] \in {"QUEUED", "DISPATCHED"} /\ TargetAuthorized(r)

\* The leases prepare_dispatch revokes: all there are.  Fault: none.
NothingSuperseded(r) == revoked[r]
Superseded(r) == 1..fence[r]

\* prepare_dispatch: revokes every earlier lease and issues the next one.
PrepareDispatch(d, r) ==
    /\ Idle(d) /\ First(d, r)
    /\ Dispatchable(r)
    /\ fence[r] < MaxFence
    /\ fence' = [fence EXCEPT ![r] = fence[r] + 1]
    /\ revoked' = [revoked EXCEPT ![r] = Superseded(r)]
    /\ ttl' = [ttl EXCEPT ![r] = BootstrapTTL]
    /\ status' = [status EXCEPT ![r] = "DISPATCHED"]
    /\ batch' = [batch EXCEPT ![d] = batch[d] \ {r}]
    /\ hand' = [hand EXCEPT ![d] = [run |-> r, fence |-> fence[r] + 1,
                                    stage |-> "prepared"]]
    /\ UNCHANGED <<result, outbox, claimed, held, launched, age, evidence,
                   finishing, executor, authority, account>>

\* prepare_dispatch refuses (409, 403, 423): raise_for_status ends the batch.
PrepareRejected(d, r) ==
    /\ Idle(d) /\ First(d, r)
    /\ ~Dispatchable(r)
    /\ batch' = [batch EXCEPT ![d] = {}]
    /\ UNCHANGED <<status, result, outbox, leases, age, evidence, finishing,
                   executor, hand, authority, account>>

\* client.run_job: the job starts with the bootstrap token.
LaunchJob(d) ==
    /\ hand[d].stage = "prepared"
    /\ launched' = [launched EXCEPT ![hand[d].run] = @ \cup {hand[d].fence}]
    /\ hand' = [hand EXCEPT ![d].stage = "launched"]
    /\ UNCHANGED <<status, result, outbox, fence, claimed, revoked, ttl, held,
                   age, evidence, finishing, executor, batch, authority, account>>

\* POST /internal/dispatched, whatever became of the run in the meantime.
MarkDispatched(d) ==
    /\ hand[d].stage = "launched"
    /\ outbox' = [outbox EXCEPT ![hand[d].run] = "delivered"]
    /\ hand' = [hand EXCEPT ![d] = NoHand]
    /\ UNCHANGED <<status, result, leases, age, evidence, finishing, executor,
                   batch, authority, account>>

\* An error of run_job or of a broker call, the 180 s limit of a batch or a
\* crash: the rest of the batch is dropped.
AbortBatch(d) ==
    /\ ~Idle(d) \/ batch[d] # {}
    /\ batch' = [batch EXCEPT ![d] = {}]
    /\ hand' = [hand EXCEPT ![d] = NoHand]
    /\ UNCHANGED <<status, result, outbox, leases, age, evidence, finishing,
                   executor, authority, account>>

-----------------------------------------------------------------------------
(* The broker: requests of a worker job.  A job may stop at any point. *)

\* POST /v1/claim by the job that holds the bootstrap token of lease f.
Claim(r, f) ==
    /\ f \in launched[r]
    /\ r \notin Settled /\ status[r] = "DISPATCHED"
    /\ f \notin revoked[r] /\ f \notin claimed[r]
    /\ Unexpired(r, f)
    /\ TargetAuthorized(r)
    /\ claimed' = [claimed EXCEPT ![r] = @ \cup {f}]
    /\ ttl' = [ttl EXCEPT ![r] = LeaseTTL]
    /\ held' = [held EXCEPT ![r] = 0]
    /\ status' = [status EXCEPT ![r] = "RUNNING"]
    /\ UNCHANGED <<result, outbox, fence, revoked, launched, age, evidence,
                   finishing, executor, dispatch, authority, account>>

\* Fault: the length of the run is not limited.
AlwaysRenewable(r) == held[r] <= MaxHeld
Renewable(r) == held[r] <= MaxRun

\* POST /v1/renew, before every trial.
Renew(r, f) ==
    /\ LeaseAuthorized(r, f)
    /\ HasCaptureCapacity(r)
    /\ Renewable(r)
    /\ ttl' = [ttl EXCEPT ![r] = LeaseTTL]
    /\ UNCHANGED <<status, result, outbox, fence, claimed, revoked, held,
                   launched, age, evidence, finishing, executor, dispatch,
                   authority, account>>

\* POST /v1/observe, after every trial: persist_capture of the next sample.
Observe(r, f) ==
    /\ LeaseAuthorized(r, f)
    /\ r \in Streamed /\ Len(captured[r]) < Slots
    /\ HasCaptureCapacity(r)
    /\ \E t \in TrialOf(r) : captured' = [captured EXCEPT ![r] = Append(@, t)]
    /\ UNCHANGED <<status, result, outbox, leases, age, completion, finishing,
                   executor, dispatch, authority, account>>

\* The first transaction of /v1/complete and /v1/fail; finish_run follows.
EndLease(r, f, o) ==
    /\ LeaseAuthorized(r, f)
    /\ revoked' = [revoked EXCEPT ![r] = @ \cup {f}]
    /\ completion' = [completion EXCEPT ![r] = @ \cup {o}]
    /\ finishing' = [finishing EXCEPT ![r] = @ \cup {o}]
    /\ UNCHANGED <<status, result, outbox, fence, claimed, ttl, held, launched,
                   age, captured, executor, dispatch, authority, account>>
Complete(r, f) == \E o \in Completions(r) : EndLease(r, f, o)
Fail(r, f) == EndLease(r, f, Unfinished("ERROR"))

-----------------------------------------------------------------------------
(* The local executor: execute_run and execute_external *)

\* The background task takes a QUEUED run.  If the target is not authorized the
\* exception rolls the transition back and ends the task.
LocalStart(r) ==
    /\ executor[r] = "queued"
    /\ IF status[r] = "QUEUED" /\ TargetAuthorized(r)
       THEN /\ status' = [status EXCEPT ![r] = "RUNNING"]
            /\ executor' = [executor EXCEPT ![r] = "running"]
       ELSE /\ executor' = [executor EXCEPT ![r] = "none"]
            /\ UNCHANGED status
    /\ UNCHANGED <<result, outbox, leases, age, evidence, finishing, dispatch,
                   authority, account>>

\* recheck before a trial, in a transaction of its own.
LocalRecheck(r) ==
    /\ executor[r] = "running"
    /\ r \in Streamed /\ Len(captured[r]) < Slots
    /\ Authorized(r) /\ HasCaptureCapacity(r)
    /\ executor' = [executor EXCEPT ![r] = "trial"]
    /\ UNCHANGED <<status, result, outbox, leases, age, evidence, finishing,
                   dispatch, authority, account>>

\* capture after the trial: the run must be active, its authority is not read.
LocalCapture(r) ==
    /\ executor[r] = "trial"
    /\ r \notin Settled /\ status[r] = "RUNNING"
    /\ HasCaptureCapacity(r)
    /\ \E t \in TrialOf(r) : captured' = [captured EXCEPT ![r] = Append(@, t)]
    /\ executor' = [executor EXCEPT ![r] = "running"]
    /\ UNCHANGED <<status, result, outbox, leases, age, completion, finishing,
                   dispatch, authority, account>>

\* The end of the try block, or any exception in it; finish_run follows.
LocalEnd(r, o) ==
    /\ finishing' = [finishing EXCEPT ![r] = @ \cup {o}]
    /\ executor' = [executor EXCEPT ![r] = "none"]
    /\ UNCHANGED <<status, result, outbox, leases, age, evidence, dispatch,
                   authority, account>>
LocalComplete(r) ==
    /\ executor[r] = "running"
    /\ \E o \in Completions(r) : LocalEnd(r, o)
LocalFail(r) ==
    /\ executor[r] \in {"running", "trial"}
    /\ LocalEnd(r, Unfinished("ERROR"))

\* The API process stops: its background tasks are lost.
LocalCrash(r) ==
    /\ executor[r] # "none"
    /\ executor' = [executor EXCEPT ![r] = "none"]
    /\ UNCHANGED <<status, result, outbox, leases, age, evidence, finishing,
                   dispatch, authority, account>>

-----------------------------------------------------------------------------
(* Reconciliation and settlement *)

DeadlinePassed(r) == age[r] >= Deadline
\* The newest lease, claimed or not, has run out.
LeaseExpired(r) == fence[r] > 0 /\ ttl[r] = 0
Retryable(r) ==
    /\ LeaseExpired(r) /\ fence[r] \notin claimed[r]
    /\ fence[r] < RetryLimit /\ ~DeadlinePassed(r)

\* Faults: rows that a deletion request disabled, or the launcher delivered, are
\* not reconciled.
ReconcileEnabled(r) == outbox[r] \in {"pending", "delivered"}
ReconcileUndelivered(r) == outbox[r] \in {"pending", "disabled"}
\* One iteration of reconcile_runs: its first transaction ...
Reconcile(r) == outbox[r] \notin {"none", "settled"}

\* ... for a settled run retires the dispatch row,
RetireRoute(r) ==
    /\ Reconcile(r) /\ r \in Settled
    /\ outbox' = [outbox EXCEPT ![r] = "settled"]
    /\ UNCHANGED <<status, result, leases, age, evidence, finishing, executor,
                   dispatch, authority, account>>

\* for a recorded completion finishes the run with it,
RecoverCompletion(r) ==
    /\ Reconcile(r) /\ r \notin Settled
    /\ \E o \in completion[r] \ finishing[r] :
          finishing' = [finishing EXCEPT ![r] = @ \cup {o}]
    /\ UNCHANGED <<status, result, outbox, leases, age, evidence, executor,
                   dispatch, authority, account>>

\* for an unclaimed expired lease queues the run again,
RetryUnclaimed(r) ==
    /\ Reconcile(r) /\ r \notin Settled /\ completion[r] = {}
    /\ Retryable(r)
    /\ revoked' = [revoked EXCEPT ![r] = @ \cup {fence[r]}]
    /\ status' = [status EXCEPT ![r] = "QUEUED"]
    /\ outbox' = [outbox EXCEPT ![r] = "pending"]
    /\ UNCHANGED <<result, fence, claimed, ttl, held, launched, age, evidence,
                   finishing, executor, dispatch, authority, account>>

\* and otherwise, when a lease or the run is out of time, gives it up.
TimeOut(r) ==
    /\ Reconcile(r) /\ r \notin Settled /\ completion[r] = {}
    /\ ~Retryable(r) /\ (LeaseExpired(r) \/ DeadlinePassed(r))
    /\ Unfinished("TIMEOUT") \in finishing[r] => revoked[r] # 1..fence[r]
    /\ revoked' = [revoked EXCEPT ![r] = 1..fence[r]]
    /\ finishing' = [finishing EXCEPT ![r] = @ \cup {Unfinished("TIMEOUT")}]
    /\ UNCHANGED <<status, result, outbox, fence, claimed, ttl, held, launched,
                   age, evidence, executor, dispatch, authority, account>>

\* Fault: the verdict of the completion is stored as it came.
ReportedVerdict(r, o) == o.security_verdict
FinalVerdict(r, o) == IF FailureCaptured(r) THEN "FAIL" ELSE o.security_verdict

\* Fault: only completed work is charged.
ChargeCompleted(r, o) == IF o.execution_status = "COMPLETED" THEN Units[r] ELSE 0
Charge(r, o) == IF status[r] = "RUNNING" \/ o.execution_status = "COMPLETED"
                THEN Units[r] ELSE 0

\* The result finish_run stores for outcome o; compatible is the verdict of the
\* comparison with the baseline.
ResultOf(r, o, compatible) ==
    LET verdict == FinalVerdict(r, o)
        blocked == HistoryBlocked(r, o)
        fixEligible ==
            /\ verdict = "PASS" /\ ~blocked /\ o.task_outcome = "SUCCESS"
            /\ o.execution_status = "COMPLETED" /\ Authorized(r)
            /\ r \notin Qualifying
            /\ r \in Observed => o.candidate_observed
    IN  [execution_status |-> o.execution_status,
         security_verdict |-> verdict,
         task_outcome |-> o.task_outcome,
         candidate_observed |-> o.candidate_observed,
         authorization_current |-> Authorized(r),
         release_action |->
            IF fixEligible /\ (r \in Baselined => compatible) THEN "ALLOW"
            ELSE IF \/ verdict = "FAIL" \/ blocked \/ ~Authorized(r)
                    \/ r \in StrictPolicy
                 THEN "BLOCK" ELSE "WARN",
         units |-> Charge(r, o)]

\* Fault: the settled flag is not read again under the lock.
AlreadyCreated(r) == status[r] = "NONE"
AlreadySettled(r) == r \in Settled

Release(r) == Units[r]

\* finish_run: settles the run once; a later call finds it settled.
FinishRun(r, o) ==
    /\ o \in finishing[r]
    /\ finishing' = [finishing EXCEPT ![r] = @ \ {o}]
    /\ IF AlreadySettled(r)
       THEN UNCHANGED <<status, result, account>>
       ELSE \E compatible \in BOOLEAN :
              LET res == ResultOf(r, o, compatible)
              IN  /\ result' = [q \in Settled \cup {r} |->
                                   IF q = r THEN res ELSE result[q]]
                  /\ status' = [status EXCEPT ![r] = res.execution_status]
                  /\ reserved' = reserved - Release(r)
                  /\ consumed' = consumed + res.units
    /\ UNCHANGED <<outbox, leases, age, evidence, executor, dispatch, authority>>

\* The process that was to call finish_run stops first.
LoseFinish(r) ==
    /\ finishing[r] # {}
    /\ finishing' = [finishing EXCEPT ![r] = {}]
    /\ UNCHANGED <<status, result, outbox, leases, age, evidence, executor,
                   dispatch, authority, account>>

-----------------------------------------------------------------------------
(* Time.  The timers of a settled run are stopped: no handler reads them. *)

Live == Created \ Settled
Down(n) == IF n = 0 THEN 0 ELSE n - 1
Up(n, top) == IF n >= top THEN top ELSE n + 1

Tick ==
    /\ age' = [r \in Run |-> IF r \in Live THEN Up(age[r], Deadline) ELSE age[r]]
    /\ ttl' = [r \in Run |-> IF r \in Live THEN Down(ttl[r]) ELSE ttl[r]]
    /\ held' = [r \in Run |-> IF r \in Live /\ claimed[r] # {}
                              THEN Up(held[r], MaxHeld) ELSE held[r]]
    /\ <<age, ttl, held>>' # <<age, ttl, held>>
    /\ UNCHANGED <<status, result, outbox, fence, claimed, revoked, launched,
                   evidence, finishing, executor, dispatch, authority, account>>

-----------------------------------------------------------------------------
Api(r) == CreateRun(r)
Authority ==
    \/ \E s \in Scope : RevokeTarget(s) \/ RevokeObserver(s)
    \/ RequestDeletion \/ CancelDeletion
Launcher ==
    \E d \in Dispatcher :
        \/ FetchPending(d) \/ LaunchJob(d) \/ MarkDispatched(d) \/ AbortBatch(d)
        \/ \E r \in Run : PrepareDispatch(d, r) \/ PrepareRejected(d, r)
Worker(r) ==
    \E f \in Fence : \/ Claim(r, f) \/ Renew(r, f) \/ Observe(r, f)
                     \/ Complete(r, f) \/ Fail(r, f)
Local(r) ==
    \/ LocalStart(r) \/ LocalRecheck(r) \/ LocalCapture(r)
    \/ LocalComplete(r) \/ LocalFail(r) \/ LocalCrash(r)
Recovery(r) == RecoverCompletion(r) \/ RetryUnclaimed(r) \/ TimeOut(r)
Finish(r) == \E o \in finishing[r] : FinishRun(r, o)

Next ==
    \/ \E r \in Run : \/ Api(r) \/ Worker(r) \/ Local(r)
                      \/ RetireRoute(r) \/ Recovery(r)
                      \/ Finish(r) \/ LoseFinish(r)
    \/ Authority
    \/ ~LocalMode /\ Launcher
    \/ Tick

Spec == Init /\ [][Next]_vars

\* Cloud Scheduler keeps calling the reconciliation job, which visits every
\* dispatch row that is not settled; a finish_run that is started again and again
\* is not lost every time; time passes.  Nothing is assumed of users, of the
\* launcher, of runner jobs or of the local executor.
Fairness ==
    /\ WF_vars(Tick)
    /\ \A r \in Run : /\ WF_vars(RetireRoute(r))
                      /\ WF_vars(Recovery(r))
                      /\ SF_vars(Finish(r))
FairSpec == Spec /\ Fairness

-----------------------------------------------------------------------------
(* Properties *)

\* Every variable has its type.
TypeOK ==
    /\ status \in [Run -> {"NONE", "QUEUED", "DISPATCHED", "RUNNING"} \cup Terminal]
    /\ Settled \subseteq Run /\ result \in [Settled -> Result]
    /\ outbox \in [Run -> {"none", "pending", "delivered", "disabled", "settled"}]
    /\ fence \in [Run -> 0..MaxFence]
    /\ claimed \in [Run -> SUBSET Fence]
    /\ revoked \in [Run -> SUBSET Fence]
    /\ launched \in [Run -> SUBSET Fence]
    /\ ttl \in [Run -> Nat]
    /\ held \in [Run -> Nat] /\ age \in [Run -> Nat]
    /\ captured \in [Run -> Seq(Trial)]
    /\ completion \in [Run -> SUBSET Outcome]
    /\ finishing \in [Run -> SUBSET Outcome]
    /\ executor \in [Run -> {"none", "queued", "running", "trial"}]
    /\ batch \in [Dispatcher -> SUBSET Run]
    /\ hand \in [Dispatcher -> {NoHand} \cup
                    [run : Run, fence : Fence, stage : {"prepared", "launched"}]]
    /\ targetRevoked \subseteq Scope /\ observerRevoked \subseteq Scope
    /\ frozen \in BOOLEAN
    /\ reserved \in Int /\ consumed \in Nat

\* Work is never replayed: of all the leases issued for a run, over dispatcher
\* crashes, repeated launches and retries, at most one is ever claimed, and it is
\* the newest one.
ExecutedOnce == \A r \in Run : claimed[r] \subseteq {fence[r]}

\* Fencing: a lease that is not revoked is the newest one of its run, and no lease
\* of a run that ended its work (a completion was recorded) is left usable.
OnlyNewestLeaseUsable ==
    \A r \in Run : \A f \in 1..fence[r] :
        f \notin revoked[r] => f = fence[r] /\ completion[r] = {}

\* A worker's authority is bounded whatever it does: a usable claimed lease is
\* never older than the run limit plus the last renewal.
AuthorityWindow ==
    \A r \in Live : \A f \in claimed[r] \ revoked[r] :
        Unexpired(r, f) => held[r] <= MaxRun + LeaseTTL

\* Usage policy: a settled run is charged if and only if its work began, in a
\* worker that claimed it or in the local executor; a run nobody started is refunded.
\* (A run without a claimed lease is charged only where the local executor works.)
ChargedIffStarted ==
    \A r \in Settled :
        /\ claimed[r] # {} \/ captured[r] # <<>> => result[r].units = Units[r]
        /\ result[r].units > 0 => claimed[r] # {} \/ LocalMode

\* A failure that a capture confirmed survives every way the run can end: error,
\* timeout, lost authority, a completion evaluated before it.
FailurePreserved ==
    \A r \in Settled : FailureCaptured(r) =>
        result[r].security_verdict = "FAIL" /\ result[r].release_action = "BLOCK"

\* What GET /v1/runs shows as the run's release action now (run_view).
CurrentAction(r) ==
    IF r \in Settled
    THEN IF \/ HistoryBlocked(r, result[r]) \/ ~Authorized(r)
            \/ ~result[r].authorization_current
         THEN "BLOCK" ELSE result[r].release_action
    ELSE IF FailureCaptured(r) THEN "BLOCK" ELSE "NONE"

\* A run is shown as ALLOW only on a complete set of samples that all passed with
\* the useful task done, under authority that is still current, and while no run of
\* the same scope holds a captured failure of the observed candidate: neither one
\* captured earlier nor one captured after the run settled.
AllowIsSound ==
    \A r \in Run : CurrentAction(r) = "ALLOW" =>
        /\ result[r].execution_status = "COMPLETED" /\ Authorized(r)
        /\ result[r].security_verdict = "PASS" /\ result[r].task_outcome = "SUCCESS"
        /\ r \in Streamed =>
              /\ Len(captured[r]) = Slots
              /\ \A i \in 1..Slots : /\ captured[r][i].security_verdict = "PASS"
                                     /\ captured[r][i].task_outcome = "SUCCESS"
        /\ r \in Observed => \A q \in Observed \ (Qualifying \cup {r}) :
              scopeOf[q] = scopeOf[r] => ~ConfirmedFailure(q)

\* The evidence behind a settled result is complete when the result is stored: no
\* capture is added to a run once it is settled, and no result changes.
SettledIsFinal ==
    [][\A r \in Settled : /\ result'[r] = result[r]
                          /\ status'[r] = status[r]
                          /\ captured'[r] = captured[r]]_vars

\* Authority lost is never regained: a run that was shown as BLOCK for lack of
\* authority at its settlement, or for a failure, is never shown as ALLOW or WARN
\* later, not even when a deletion request is cancelled.
BlockIsForever ==
    [][\A r \in Run : (r \in Settled /\ CurrentAction(r) = "BLOCK")
                        => CurrentAction(r)' = "BLOCK"]_vars

\* A completion the broker accepted decides the run.
CompletionDecides ==
    \A r \in Settled : completion[r] # {} =>
        \E o \in completion[r] : result[r].execution_status = o.execution_status

\* Every created run settles, whatever the launcher and the worker do: run out of
\* time, crash, lose a message or race each other.
EveryRunSettles == \A r \in Run : status[r] # "NONE" ~> r \in Settled

\* The dispatch row of a created run ends as settled and stays so, although the
\* launcher overwrites it without looking.
RouteRetires == \A r \in Run : status[r] # "NONE" ~> [](outbox[r] = "settled")

-----------------------------------------------------------------------------
(* The ledger RunExecution implements *)

phase == [r \in Run |->
            IF r \in Settled THEN "settled"
            ELSE CASE status[r] = "NONE" -> "absent"
                   [] status[r] = "RUNNING" -> "started"
                   [] OTHER -> "reserved"]
charge == [r \in Run |-> IF r \in Settled THEN result[r].units ELSE 0]

Ledger == INSTANCE RunLedger WITH
    Run <- Run, Units <- Units, Limit <- Limit,
    phase <- phase, charge <- charge, reserved <- reserved, consumed <- consumed

\* Seen from the account, the protocol of leases, retries, timeouts and crashes is
\* the ledger: accepted within the budget, started at most once, settled once, and
\* charged exactly for what started.
ImplementsLedger == Ledger!LedgerSpec

-----------------------------------------------------------------------------
(* The inductive invariant behind the proofs *)

Begun == {"RUNNING"} \cup Terminal

\* Who can hold what: every lease but the newest is revoked, tokens were issued by
\* prepare_dispatch, and each deployment has only its own executors.
FencingInv ==
    /\ \A r \in Run : /\ \A f \in 1..fence[r] : f < fence[r] => f \in revoked[r]
                      /\ launched[r] \subseteq 1..fence[r]
                      /\ fence[r] > 0 => status[r] # "NONE"
    /\ \A d \in Dispatcher :
          hand[d] # NoHand => hand[d].fence <= fence[hand[d].run]
    /\ LocalMode => /\ \A r \in Run : fence[r] = 0
                    /\ \A d \in Dispatcher : hand[d] = NoHand
    /\ ~LocalMode => \A r \in Run : executor[r] = "none"

\* How far a run is, and what may exist for it then.
RunPhase(r) ==
    /\ claimed[r] \subseteq {fence[r]}
    /\ claimed[r] # {} => status[r] \in Begun
    /\ status[r] = "RUNNING" => LocalMode \/ claimed[r] # {}
    /\ r \in Settled <=> status[r] \in Terminal
    /\ executor[r] \in {"running", "trial"} => status[r] \in Begun
    /\ completion[r] # {} => claimed[r] # {} /\ fence[r] \in revoked[r]
    /\ \A o \in completion[r] \cup finishing[r] :
          o.execution_status = "COMPLETED" => status[r] \in Begun
    /\ captured[r] # <<>> => status[r] \in Begun
    /\ outbox[r] # "none" \/ finishing[r] # {} \/ executor[r] # "none"
          => status[r] # "NONE"
PhaseInv == \A r \in Run : RunPhase(r)

\* What a settled run was charged, and that its failures are in its result.
SettlementInv == ChargedIffStarted /\ FailurePreserved

\* How long the newest lease can still live.
WindowInv ==
    \A r \in Live : claimed[r] # {} /\ ttl[r] > 0
                        => held[r] + ttl[r] <= MaxRun + LeaseTTL

IInv == FencingInv /\ PhaseInv /\ SettlementInv /\ WindowInv

\* The evidence of a run: a set of captures is never longer than complete, and
\* what an end of its work reports is the evaluation of the captures it still has.
RunEvidence(r) ==
    /\ Len(captured[r]) <= Slots
    /\ executor[r] = "trial" => Len(captured[r]) < Slots
    /\ r \in Streamed => \A o \in completion[r] \cup finishing[r] :
          o.execution_status = "COMPLETED" =>
              Len(captured[r]) = Slots /\ o = Evaluate(captured[r])
EvidenceInv == \A r \in Run : RunEvidence(r)

\* What a settled run may have been allowed on.
AllowedInv ==
    \A r \in Settled : result[r].release_action = "ALLOW" =>
        /\ result[r].execution_status = "COMPLETED"
        /\ result[r].security_verdict = "PASS" /\ result[r].task_outcome = "SUCCESS"
        /\ r \in Observed => result[r].candidate_observed
        /\ r \in Streamed =>
              LET e == Evaluate(captured[r])
              IN  /\ Len(captured[r]) = Slots
                  /\ e.security_verdict = "PASS" /\ e.task_outcome = "SUCCESS"

\* A pending deletion has revoked every target: lifting it restores none.
FreezeInv == frozen => targetRevoked = Scope

ReleaseInv == EvidenceInv /\ AllowedInv /\ FreezeInv
=============================================================================
