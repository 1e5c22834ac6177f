----------------------------- MODULE Schedules ------------------------------
(***************************************************************************)
(* Scheduled verification of one organization: the schedules the API       *)
(* creates and disables, tick_schedules (maintenance.py) that turns a due  *)
(* schedule into a run, and the deletion request (governance.py) that      *)
(* stops them.                                                             *)
(*                                                                         *)
(* tick_schedules keeps the row lock of a schedule in one transaction and  *)
(* calls create_run, which opens a second transaction and takes the        *)
(* account's row lock there.  A step that waits for nothing is one action; *)
(* the steps between two waits, or between two commits, are separate.      *)
(*                                                                         *)
(* Time is counted in units of which Interval make interval_hours.         *)
(***************************************************************************)
EXTENDS Integers, FiniteSets

CONSTANTS
    Schedule,  \* schedules, numbered in the order in which they are created
    Ticker,    \* concurrent calls of tick_schedules
    Interval,  \* interval_hours, in units of time
    Deletion,  \* the transaction of request_deletion
    None

ASSUME SchedulesAssumption ==
    /\ Schedule \subseteq Nat
    /\ Interval \in Nat \ {0}
    /\ Deletion \notin Ticker /\ None \notin Ticker \cup {Deletion}

VARIABLES
    enabled,  \* schedules.enabled; FALSE also for a schedule not created yet
    route,    \* status of the schedule's schedule.tick row, "none" before it exists
    due,      \* time until next_at
    made,     \* a run exists under the idempotency key made of this next_at
    since,    \* time since the schedule's last run was created, up to Interval
    rowLock,  \* the transaction that holds the schedule's row
    account,  \* the transaction that holds the account's row across a wait
    todo,     \* tick_schedules: routes fetched and not yet handled
    stage,    \* tick_schedules: what the transaction on the first of them did
    flush,    \* request_deletion: schedules it still has to update
    frozen,   \* an organization_deletion is pending
    member,   \* the creator is a member with a security role
    target,   \* the target is authorized
    capacity  \* the plan includes automation and has verification units left

ticks == <<todo, stage>>
locks == <<rowLock, account>>
conditions == <<member, target, capacity>>
vars == <<enabled, route, due, made, since, locks, ticks, flush, frozen, conditions>>

\* What a transaction of tick_schedules did: nothing yet; found the schedule due;
\* asked for the run and got it, was refused for now, or was refused for good.
Stages == {"idle", "due", "run", "skipped", "refused"}

Init ==
    /\ enabled = [s \in Schedule |-> FALSE]
    /\ route = [s \in Schedule |-> "none"]
    /\ due = [s \in Schedule |-> 0]
    /\ made = [s \in Schedule |-> FALSE]
    /\ since = [s \in Schedule |-> Interval]
    /\ rowLock = [s \in Schedule |-> None]
    /\ account = None
    /\ todo = [t \in Ticker |-> {}]
    /\ stage = [t \in Ticker |-> "idle"]
    /\ flush = {}
    /\ frozen = FALSE
    /\ member = TRUE /\ target = TRUE /\ capacity = TRUE

\* A transaction that updates the row, or reads it FOR UPDATE, meets another one's
\* lock.  Fault: the row is read without a lock.
NeverLocked(s) == FALSE
Locked(s) == rowLock[s] # None

-----------------------------------------------------------------------------
(* The API *)

\* POST /v1/schedules.  It reads the target and the pending deletion without a lock.
CreateSchedule(s) ==
    /\ route[s] = "none"
    /\ \A q \in Schedule : q < s => route[q] # "none"
    /\ member /\ target /\ capacity /\ ~frozen
    /\ enabled' = [enabled EXCEPT ![s] = TRUE]
    /\ route' = [route EXCEPT ![s] = "active"]
    /\ due' = [due EXCEPT ![s] = Interval]
    /\ UNCHANGED <<made, since, locks, ticks, flush, frozen, conditions>>

\* DELETE /v1/schedules/{id}: the UPDATE waits for the row.
DisableSchedule(s) ==
    /\ enabled[s]
    /\ ~Locked(s)
    /\ enabled' = [enabled EXCEPT ![s] = FALSE]
    /\ UNCHANGED <<route, due, made, since, locks, ticks, flush, frozen, conditions>>

\* The creator loses the role, the target is revoked or expires, the plan or the
\* month's usage changes.
ConditionsChange ==
    /\ member' \in {member, FALSE}
    /\ target' \in {target, FALSE}
    /\ capacity' \in BOOLEAN
    /\ conditions' # conditions
    /\ UNCHANGED <<enabled, route, due, made, since, locks, ticks, flush, frozen>>

-----------------------------------------------------------------------------
(* request_deletion: one transaction that locks the account, then updates *)

\* The account's row is locked; an existing request is returned as it is.
BeginDeletion ==
    /\ account = None /\ ~frozen
    /\ account' = Deletion
    /\ flush' = {s \in Schedule : enabled[s]}
    /\ UNCHANGED <<enabled, route, due, made, since, rowLock, ticks, frozen,
                   conditions>>

\* The query after the loop over the schedules flushes them: one UPDATE each, which
\* waits for the row.
FlushSchedule(s) ==
    /\ account = Deletion /\ s \in flush
    /\ ~Locked(s)
    /\ rowLock' = [rowLock EXCEPT ![s] = Deletion]
    /\ flush' = flush \ {s}
    /\ UNCHANGED <<enabled, route, due, made, since, account, ticks, frozen,
                   conditions>>

\* The routes are disabled and everything is committed.
CommitDeletion ==
    /\ account = Deletion /\ flush = {}
    /\ frozen' = TRUE
    /\ target' = FALSE
    /\ enabled' = [s \in Schedule |-> enabled[s] /\ rowLock[s] # Deletion]
    /\ route' = [s \in Schedule |->
                   IF route[s] = "active" THEN "disabled" ELSE route[s]]
    /\ rowLock' = [s \in Schedule |-> IF rowLock[s] = Deletion THEN None
                                      ELSE rowLock[s]]
    /\ account' = None
    /\ UNCHANGED <<due, made, since, ticks, flush, member, capacity>>

\* The process of request_deletion stops: its transaction is rolled back.
AbortDeletion ==
    /\ account = Deletion
    /\ account' = None /\ flush' = {}
    /\ rowLock' = [s \in Schedule |-> IF rowLock[s] = Deletion THEN None
                                      ELSE rowLock[s]]
    /\ UNCHANGED <<enabled, route, due, made, since, ticks, frozen, conditions>>

\* cancel_deletion.
CancelDeletion ==
    /\ frozen /\ account = None
    /\ frozen' = FALSE
    /\ UNCHANGED <<enabled, route, due, made, since, locks, ticks, flush, conditions>>

-----------------------------------------------------------------------------
(* tick_schedules *)

First(t, s) == s \in todo[t] /\ \A q \in todo[t] : s <= q

\* The first transaction: the active routes.
FetchRoutes(t) ==
    /\ todo[t] = {}
    /\ \E s \in Schedule : route[s] = "active"
    /\ todo' = [todo EXCEPT ![t] = {s \in Schedule : route[s] = "active"}]
    /\ UNCHANGED <<enabled, route, due, made, since, locks, stage, flush, frozen,
                   conditions>>

\* SKIP LOCKED: another transaction has the schedule's row.
SkipLocked(t, s) ==
    /\ stage[t] = "idle" /\ First(t, s)
    /\ Locked(s)
    /\ todo' = [todo EXCEPT ![t] = @ \ {s}]
    /\ UNCHANGED <<enabled, route, due, made, since, locks, stage, flush, frozen,
                   conditions>>

\* A disabled schedule loses its route.
RetireRoute(t, s) ==
    /\ stage[t] = "idle" /\ First(t, s)
    /\ ~Locked(s) /\ ~enabled[s]
    /\ route' = [route EXCEPT ![s] = "disabled"]
    /\ todo' = [todo EXCEPT ![t] = @ \ {s}]
    /\ UNCHANGED <<enabled, due, made, since, locks, stage, flush, frozen, conditions>>

NotDue(t, s) ==
    /\ stage[t] = "idle" /\ First(t, s)
    /\ ~Locked(s) /\ enabled[s] /\ due[s] > 0
    /\ todo' = [todo EXCEPT ![t] = @ \ {s}]
    /\ UNCHANGED <<enabled, route, due, made, since, locks, stage, flush, frozen,
                   conditions>>

\* A due schedule: its row stays locked until CommitTick.
LockDue(t, s) ==
    /\ stage[t] = "idle" /\ First(t, s)
    /\ ~Locked(s) /\ enabled[s] /\ due[s] = 0
    /\ rowLock' = [rowLock EXCEPT ![s] = t]
    /\ stage' = [stage EXCEPT ![t] = "due"]
    /\ UNCHANGED <<enabled, route, due, made, since, account, todo, flush, frozen,
                   conditions>>

\* Fault: the key is made of the current time, so no run is known under it.
UnknownKey(s) == FALSE
KnownKey(s) == made[s]

\* The status codes after which tick_schedules disables the schedule: 403 and the
\* like, from the creator's role or from create_run; 402, 409 and 423 do not.
Answer(s) ==
    IF ~member THEN "refused"
    ELSE IF KnownKey(s) THEN "run"
    ELSE IF ~capacity \/ frozen THEN "skipped"
    ELSE IF ~target THEN "refused"
    ELSE "run"

\* create_run in its own transaction, which waits for the account's row and commits;
\* a creator without authority is refused before that.
AskForRun(t, s) ==
    /\ stage[t] = "due" /\ First(t, s)
    /\ member => account = None
    /\ stage' = [stage EXCEPT ![t] = Answer(s)]
    /\ IF Answer(s) = "run" /\ ~KnownKey(s)
       THEN /\ made' = [made EXCEPT ![s] = TRUE]
            /\ since' = [since EXCEPT ![s] = 0]
       ELSE UNCHANGED <<made, since>>
    /\ UNCHANGED <<enabled, route, due, locks, todo, flush, frozen, conditions>>

\* The next period starts now, whatever the answer was; a new next_at is a new key.
CommitTick(t, s) ==
    /\ stage[t] \in {"run", "skipped", "refused"} /\ First(t, s)
    /\ enabled' = [enabled EXCEPT ![s] = @ /\ stage[t] # "refused"]
    /\ due' = [due EXCEPT ![s] = Interval]
    /\ made' = [made EXCEPT ![s] = FALSE]
    /\ rowLock' = [rowLock EXCEPT ![s] = None]
    /\ stage' = [stage EXCEPT ![t] = "idle"]
    /\ todo' = [todo EXCEPT ![t] = @ \ {s}]
    /\ UNCHANGED <<route, since, account, flush, frozen, conditions>>

\* The process stops: the outer transaction is rolled back, a created run stays.
CrashTick(t) ==
    /\ todo[t] # {}
    /\ rowLock' = [s \in Schedule |-> IF rowLock[s] = t THEN None ELSE rowLock[s]]
    /\ stage' = [stage EXCEPT ![t] = "idle"]
    /\ todo' = [todo EXCEPT ![t] = {}]
    /\ UNCHANGED <<enabled, route, due, made, since, account, flush, frozen, conditions>>

-----------------------------------------------------------------------------
Tick ==
    /\ due' = [s \in Schedule |-> IF due[s] = 0 THEN 0 ELSE due[s] - 1]
    /\ since' = [s \in Schedule |-> IF since[s] = Interval THEN Interval
                                    ELSE since[s] + 1]
    /\ <<due, since>>' # <<due, since>>
    /\ UNCHANGED <<enabled, route, made, locks, ticks, flush, frozen, conditions>>

Api == \E s \in Schedule : CreateSchedule(s) \/ DisableSchedule(s)
Governance ==
    \/ BeginDeletion \/ CommitDeletion \/ AbortDeletion \/ CancelDeletion
    \/ \E s \in Schedule : FlushSchedule(s)
Maintenance(t) ==
    \/ FetchRoutes(t) \/ CrashTick(t)
    \/ \E s \in Schedule : \/ SkipLocked(t, s) \/ RetireRoute(t, s) \/ NotDue(t, s)
                           \/ LockDue(t, s) \/ AskForRun(t, s) \/ CommitTick(t, s)

Next == Api \/ ConditionsChange \/ Governance \/ (\E t \in Ticker : Maintenance(t)) \/ Tick

Spec == Init /\ [][Next]_vars

-----------------------------------------------------------------------------
(* Properties *)

\* Every variable has its type.
TypeOK ==
    /\ enabled \in [Schedule -> BOOLEAN]
    /\ route \in [Schedule -> {"none", "active", "disabled"}]
    /\ due \in [Schedule -> 0..Interval] /\ since \in [Schedule -> 0..Interval]
    /\ made \in [Schedule -> BOOLEAN]
    /\ rowLock \in [Schedule -> Ticker \cup {Deletion, None}]
    /\ account \in {Deletion, None}
    /\ todo \in [Ticker -> SUBSET Schedule] /\ stage \in [Ticker -> Stages]
    /\ flush \subseteq Schedule
    /\ frozen \in BOOLEAN
    /\ member \in BOOLEAN /\ target \in BOOLEAN /\ capacity \in BOOLEAN

\* since only observes: no action reads it.
RunCreated(s) == since'[s] < since[s]

\* No execution storm: however many ticks run at once, crash between the commit of
\* the run and that of the schedule, or come late, two runs of one schedule are at
\* least an interval apart.
RunsAreSpaced == [][\A s \in Schedule : RunCreated(s) => since[s] = Interval]_vars

\* A stop takes effect at once: after DELETE /v1/schedules has answered, after a
\* refusal disabled the schedule, or after a deletion request was accepted, no tick
\* that had read the schedule before still creates a run for it.
NoRunAfterStop == [][\A s \in Schedule : RunCreated(s) => enabled[s] /\ ~frozen]_vars

\* A deletion request never waits for a tick that is itself waiting for the deletion
\* request: the database sees no cycle, because the tick waits on its second
\* connection while the first one, idle, holds the schedule's row.
NeverWaitOnEachOther ==
    \A t \in Ticker : \A s \in flush :
        ~ /\ account = Deletion /\ rowLock[s] = t
          /\ stage[t] = "due" /\ member
-----------------------------------------------------------------------------
(* The inductive invariant behind the proofs *)

\* A transaction of tick_schedules that waits, or has an answer, holds its schedule,
\* and batches hold only schedules that exist.
HoldsRow(t, s) ==
    /\ rowLock[s] = t /\ enabled[s]
    /\ stage[t] = "due" => due[s] = 0
LockInv ==
    \A t \in Ticker :
        /\ \A s \in todo[t] : route[s] # "none"
        /\ stage[t] # "idle" => todo[t] # {}
        /\ \A s \in Schedule : stage[t] # "idle" /\ First(t, s) => HoldsRow(t, s)

\* As long as there is no run under the next key, the last run is as far back as the
\* time to next_at leaves of the interval.
SpacingInv == \A s \in Schedule : ~made[s] => since[s] + due[s] >= Interval

IInv == LockInv /\ SpacingInv
=============================================================================
