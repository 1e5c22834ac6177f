---------------------------- MODULE PlatformProofs ----------------------------
(***************************************************************************)
(* Proofs about the parts of the platform that share no state: what starts *)
(* runs on time (Schedules), the end of an organization's evidence         *)
(* (Erasure), its subscription (Subscription) and what an observer of      *)
(* effects establishes (Observers).  They hold for any schedules and       *)
(* ticks, objects and requests, plans and deliveries, readers and rows.    *)
(***************************************************************************)
EXTENDS Schedules, Erasure, Subscription, Observers, SequenceLemmas

-----------------------------------------------------------------------------
(* Schedules *)

\* The types of the variables hold initially.
LEMMA SchedulesTypeInit == Init => TypeOK
<1> SUFFICES ASSUME Init PROVE TypeOK
  OBVIOUS
<1> USE SchedulesAssumption DEF Init, Stages
<1>1. due \in [Schedule -> 0..Interval] /\ since \in [Schedule -> 0..Interval]
  OBVIOUS
<1>2. stage \in [Ticker -> Stages] /\ todo \in [Ticker -> SUBSET Schedule]
  OBVIOUS
<1> QED
  BY <1>1, <1>2 DEF TypeOK

\* Every step keeps the types: maintenance.py and governance.py write only what the
\* columns hold.
LEMMA SchedulesTypeStep == TypeOK /\ [Next]_vars => TypeOK'
<1> SUFFICES ASSUME TypeOK, [Next]_vars PROVE TypeOK'
  OBVIOUS
<1> USE SchedulesAssumption DEF TypeOK, Stages, locks, ticks, conditions
<1>1. ASSUME NEW s \in Schedule, CreateSchedule(s) PROVE TypeOK'
  BY <1>1 DEF CreateSchedule
<1>2. ASSUME NEW s \in Schedule, DisableSchedule(s) PROVE TypeOK'
  BY <1>2 DEF DisableSchedule
<1>3. CASE ConditionsChange
  BY <1>3 DEF ConditionsChange
<1>4. CASE BeginDeletion
  BY <1>4 DEF BeginDeletion
<1>5. CASE CommitDeletion
  BY <1>5 DEF CommitDeletion
<1>6. CASE AbortDeletion
  BY <1>6 DEF AbortDeletion
<1>7. CASE CancelDeletion
  BY <1>7 DEF CancelDeletion
<1>8. ASSUME NEW s \in Schedule, FlushSchedule(s) PROVE TypeOK'
  BY <1>8 DEF FlushSchedule
<1>9. ASSUME NEW t \in Ticker, Maintenance(t) PROVE TypeOK'
  <2>1. CASE FetchRoutes(t)
    BY <2>1 DEF FetchRoutes
  <2>2. CASE CrashTick(t)
    BY <2>2 DEF CrashTick
  <2>3. ASSUME NEW s \in Schedule, SkipLocked(t, s) \/ NotDue(t, s) PROVE TypeOK'
    BY <2>3 DEF SkipLocked, NotDue
  <2>4. ASSUME NEW s \in Schedule, RetireRoute(t, s) PROVE TypeOK'
    BY <2>4 DEF RetireRoute
  <2>5. ASSUME NEW s \in Schedule, LockDue(t, s) PROVE TypeOK'
    BY <2>5 DEF LockDue
  <2>6. ASSUME NEW s \in Schedule, AskForRun(t, s) PROVE TypeOK'
    <3>1. Answer(s) \in Stages
      BY DEF Answer, KnownKey
    <3>2. stage' \in [Ticker -> Stages]
      BY <2>6, <3>1 DEF AskForRun
    <3>3. \/ /\ made' = [made EXCEPT ![s] = TRUE]
             /\ since' = [since EXCEPT ![s] = 0]
          \/ UNCHANGED <<made, since>>
      BY <2>6 DEF AskForRun
    <3>4. made' \in [Schedule -> BOOLEAN] /\ since' \in [Schedule -> 0..Interval]
      <4>1. 0 \in 0..Interval
        OBVIOUS
      <4>2. CASE UNCHANGED <<made, since>>
        BY <4>2
      <4>3. CASE made' = [made EXCEPT ![s] = TRUE] /\ since' = [since EXCEPT ![s] = 0]
        <5>1. made' \in [Schedule -> BOOLEAN]
          BY <4>3
        <5>2. since' \in [Schedule -> 0..Interval]
          BY <4>1, <4>3
        <5> QED
          BY <5>1, <5>2
      <4> QED
        BY <3>3, <4>2, <4>3
    <3>5. UNCHANGED <<enabled, route, due, rowLock, account, todo, flush, frozen,
                      member, target, capacity>>
      BY <2>6 DEF AskForRun
    <3> QED
      BY <3>2, <3>4, <3>5
  <2>7. ASSUME NEW s \in Schedule, CommitTick(t, s) PROVE TypeOK'
    BY <2>7 DEF CommitTick
  <2> QED
    BY <1>9, <2>1, <2>2, <2>3, <2>4, <2>5, <2>6, <2>7 DEF Maintenance
<1>10. CASE Tick
  BY <1>10 DEF Tick
<1>11. CASE UNCHANGED vars
  BY <1>11 DEF vars
<1> QED
  BY <1>1, <1>2, <1>3, <1>4, <1>5, <1>6, <1>7, <1>8, <1>9, <1>10, <1>11
     DEF Next, Api, Governance

\* The locks and the spacing hold initially.
LEMMA SchedulesInvInit == Init => IInv
  BY SchedulesAssumption DEF Init, IInv, LockInv, SpacingInv, First

\* Who holds a row keeps it until it commits or stops: the steps of others see the
\* lock and leave the schedule, its transaction and its place in the batch alone.
LEMMA LockStep == TypeOK /\ LockInv /\ [Next]_vars => LockInv'
<1> SUFFICES ASSUME TypeOK, LockInv, [Next]_vars PROVE LockInv'
  OBVIOUS
<1> USE SchedulesAssumption
        DEF TypeOK, Stages, LockInv, HoldsRow, First, Locked, locks, ticks, conditions
<1>1. ASSUME NEW s \in Schedule, CreateSchedule(s) PROVE LockInv'
  BY <1>1 DEF CreateSchedule
<1>2. ASSUME NEW s \in Schedule, DisableSchedule(s) PROVE LockInv'
  BY <1>2 DEF DisableSchedule
<1>3. CASE ConditionsChange
  BY <1>3 DEF ConditionsChange
<1>4. CASE BeginDeletion \/ CancelDeletion
  <2>1. UNCHANGED <<todo, stage, route, rowLock, enabled, due>>
    BY <1>4 DEF BeginDeletion, CancelDeletion
  <2> QED
    BY <2>1
<1>5. CASE CommitDeletion
  BY <1>5 DEF CommitDeletion
<1>6. CASE AbortDeletion
  BY <1>6 DEF AbortDeletion
<1>7. ASSUME NEW s \in Schedule, FlushSchedule(s) PROVE LockInv'
  BY <1>7 DEF FlushSchedule
<1>8. ASSUME NEW u \in Ticker, Maintenance(u) PROVE LockInv'
  <2>1. CASE FetchRoutes(u)
    BY <2>1 DEF FetchRoutes
  <2>2. CASE CrashTick(u)
    BY <2>2 DEF CrashTick
  <2>3. ASSUME NEW s \in Schedule, SkipLocked(u, s) \/ NotDue(u, s) PROVE LockInv'
    <3>1. /\ UNCHANGED <<stage, route, rowLock, enabled, due>>
          /\ stage[u] = "idle"
          /\ todo' = [todo EXCEPT ![u] = @ \ {s}]
      BY <2>3 DEF SkipLocked, NotDue
    <3> QED
      BY <3>1
  <2>4. ASSUME NEW s \in Schedule, RetireRoute(u, s) PROVE LockInv'
    BY <2>4 DEF RetireRoute
  <2>5. ASSUME NEW s \in Schedule, LockDue(u, s) PROVE LockInv'
    BY <2>5 DEF LockDue
  <2>6. ASSUME NEW s \in Schedule, AskForRun(u, s) PROVE LockInv'
    <3>1. Answer(s) \in Stages \ {"due"}
      BY DEF Answer, KnownKey
    <3> QED
      BY <2>6, <3>1 DEF AskForRun
  <2>7. ASSUME NEW s \in Schedule, CommitTick(u, s) PROVE LockInv'
    <3>1. \A t \in Ticker \ {u} : ~(stage[t] # "idle" /\ First(t, s))
      BY <2>7 DEF CommitTick
    <3> QED
      BY <2>7, <3>1 DEF CommitTick
  <2> QED
    BY <1>8, <2>1, <2>2, <2>3, <2>4, <2>5, <2>6, <2>7 DEF Maintenance
<1>9. CASE Tick
  BY <1>9 DEF Tick
<1>10. CASE UNCHANGED vars
  BY <1>10 DEF vars
<1> QED
  BY <1>1, <1>2, <1>3, <1>4, <1>5, <1>6, <1>7, <1>8, <1>9, <1>10
     DEF Next, Api, Governance

\* The time to next_at and the time since the last run always make up an interval,
\* while no run exists under the key of next_at.
LEMMA SpacingStep == TypeOK /\ IInv /\ [Next]_vars => SpacingInv'
<1> SUFFICES ASSUME TypeOK, IInv, [Next]_vars PROVE SpacingInv'
  OBVIOUS
<1> USE SchedulesAssumption DEF TypeOK, Stages, IInv, SpacingInv, locks, ticks, conditions
<1>1. ASSUME NEW s \in Schedule, CreateSchedule(s) PROVE SpacingInv'
  BY <1>1 DEF CreateSchedule
<1>2. ASSUME NEW t \in Ticker, Maintenance(t) PROVE SpacingInv'
  <2>1. ASSUME NEW s \in Schedule, AskForRun(t, s) PROVE SpacingInv'
    BY <2>1 DEF AskForRun
  <2>2. ASSUME NEW s \in Schedule, CommitTick(t, s) PROVE SpacingInv'
    BY <2>2 DEF CommitTick
  <2>3. CASE UNCHANGED <<due, made, since>>
    BY <2>3
  <2> QED
    BY <1>2, <2>1, <2>2, <2>3 DEF Maintenance, FetchRoutes, CrashTick, SkipLocked,
       RetireRoute, NotDue, LockDue
<1>3. CASE Tick
  BY <1>3 DEF Tick
<1>4. CASE UNCHANGED <<due, made, since>>
  BY <1>4
<1> QED
  BY <1>1, <1>2, <1>3, <1>4 DEF Next, vars, Api, Governance, DisableSchedule,
     ConditionsChange, BeginDeletion, CommitDeletion, AbortDeletion, CancelDeletion,
     FlushSchedule

\* Types, locks and spacing hold in every state.
THEOREM SchedulesInvariance == Spec => [](TypeOK /\ IInv)
<1>1. Init => TypeOK /\ IInv
  BY SchedulesTypeInit, SchedulesInvInit
<1>2. TypeOK /\ IInv /\ [Next]_vars => (TypeOK /\ IInv)'
  BY SchedulesTypeStep, LockStep, SpacingStep DEF IInv
<1> QED
  BY <1>1, <1>2, PTL DEF Spec

\* Type correctness.
THEOREM SchedulesTypeCorrect == Spec => []TypeOK
  BY SchedulesInvariance, PTL

\* Only the step that asks create_run creates a run, for a schedule whose row it
\* holds, that is due and under whose key there is none yet.
LEMMA Creation ==
    ASSUME TypeOK, IInv, [Next]_vars, NEW s \in Schedule, RunCreated(s)
    PROVE  enabled[s] /\ due[s] = 0 /\ ~made[s] /\ ~frozen
<1> USE DEF RunCreated, TypeOK
<1>1. since' # since
  OBVIOUS
<1>2. PICK t \in Ticker, q \in Schedule : AskForRun(t, q)
  <2>1. ~Tick
    BY SchedulesAssumption DEF Tick
  <2> QED
    BY <1>1, <2>1 DEF Next, vars, Api, Governance, DisableSchedule, CreateSchedule,
       ConditionsChange, BeginDeletion, CommitDeletion, AbortDeletion, CancelDeletion,
       FlushSchedule, Maintenance, FetchRoutes, CrashTick, SkipLocked, RetireRoute,
       NotDue, LockDue, CommitTick
<1>3. since' = [since EXCEPT ![q] = 0]
  BY <1>1, <1>2 DEF AskForRun
<1>4. q = s
  BY <1>3
<1>5. Answer(s) = "run" /\ ~made[s] /\ stage[t] = "due" /\ First(t, s)
  BY <1>1, <1>2, <1>4 DEF AskForRun, KnownKey
<1>6. ~frozen
  BY <1>5 DEF Answer, KnownKey
<1> QED
  BY <1>5, <1>6 DEF IInv, LockInv, HoldsRow

\* Two runs of a schedule are at least an interval apart, whatever ticks run at once,
\* stop half way or come late.
THEOREM RunsAreSpacedAlways == Spec => RunsAreSpaced
<1>1. TypeOK /\ IInv /\ [Next]_vars
        => [\A s \in Schedule : RunCreated(s) => since[s] = Interval]_vars
  <2> SUFFICES ASSUME TypeOK, IInv, [Next]_vars, NEW s \in Schedule, RunCreated(s)
               PROVE  since[s] = Interval
    OBVIOUS
  <2>1. due[s] = 0 /\ ~made[s]
    BY Creation
  <2> QED
    BY <2>1, SchedulesAssumption DEF IInv, SpacingInv, TypeOK
<1> QED
  BY <1>1, SchedulesInvariance, PTL DEF Spec, RunsAreSpaced

\* After a schedule is disabled, or a deletion request is accepted, no tick creates a
\* run for it, not even one that was already handling it.
THEOREM NoRunAfterStopAlways == Spec => NoRunAfterStop
<1>1. TypeOK /\ IInv /\ [Next]_vars
        => [\A s \in Schedule : RunCreated(s) => enabled[s] /\ ~frozen]_vars
  BY Creation
<1> QED
  BY <1>1, SchedulesInvariance, PTL DEF Spec, NoRunAfterStop

-----------------------------------------------------------------------------
(* Erasure *)

ErasureInv == ErasureTypes /\ LiveInv /\ PreparedInv /\ CleaningInv

LEMMA ErasureInitially == ErasureInit => ErasureInv
<1> SUFFICES ASSUME ErasureInit PROVE ErasureInv
  OBVIOUS
<1>1. Away \in Operator /\ Away.at = "away" /\ NoReport \in Report /\ NoReport.status = "none"
  BY DEF Away, Operator, NoReport, Report
<1>2. ErasureTypes
  BY <1>1 DEF ErasureInit, ErasureTypes
<1>3. LiveInv /\ PreparedInv /\ CleaningInv
  BY <1>1 DEF ErasureInit, LiveInv, PreparedInv, CleaningInv, Pending
<1> QED BY <1>2, <1>3 DEF ErasureInv

-----------------------------------------------------------------------------
(* Captures and retention *)

\* Objects come while the organization is there and nobody is about to erase it, and go
\* once they have expired.
LEMMA EvidenceStep ==
    ASSUME ErasureInv, Evidence
    PROVE  ErasureInv'
<1> USE DEF ErasureInv
<1>1. ASSUME NEW o \in Object, StoreObservation(o) PROVE ErasureInv'
  <2>1. ErasureTypes'
    BY <1>1 DEF StoreObservation, ErasureTypes
  <2>2. organization /\ operator.at # "prepared" /\ operator.at # "cleaning"
    BY <1>1 DEF StoreObservation, RowsFree, CleaningInv
  <2>3. LiveInv'
    BY <1>1, <2>2 DEF StoreObservation, LiveInv, Pending
  <2> QED BY <1>1, <2>1, <2>2, <2>3 DEF StoreObservation, PreparedInv, CleaningInv
<1>2. CASE CommitCapture
  <2>1. ErasureTypes'
    BY <1>2 DEF CommitCapture, ErasureTypes
  <2>2. organization /\ operator.at # "prepared" /\ operator.at # "cleaning"
    BY <1>2 DEF CommitCapture, LiveInv, PreparedInv, CleaningInv
  <2>3. LiveInv'
    BY <1>2, <2>2 DEF CommitCapture, LiveInv, Pending
  <2> QED BY <1>2, <2>1, <2>2, <2>3 DEF CommitCapture, PreparedInv, CleaningInv
<1>3. CASE AbortCapture
  BY <1>3 DEF AbortCapture, ErasureTypes, LiveInv, PreparedInv, CleaningInv, Pending
<1>4. ASSUME NEW o \in Object, Expire(o) PROVE ErasureInv'
  BY <1>4 DEF Expire, ErasureTypes, LiveInv, PreparedInv, CleaningInv, Pending
<1>5. ASSUME NEW o \in Object, PurgeExpired(o) PROVE ErasureInv'
  BY <1>5 DEF PurgeExpired, ErasureTypes, LiveInv, PreparedInv, CleaningInv, Pending
<1> QED BY <1>1, <1>2, <1>3, <1>4, <1>5 DEF Evidence

-----------------------------------------------------------------------------
(* Requests and the operator *)

LEMMA RequestStep ==
    ASSUME ErasureInv, RequestDeletion \/ \E r \in Request : CancelDeletionOf(r)
    PROVE  ErasureInv'
<1> USE DEF ErasureInv
<1>1. CASE RequestDeletion
  <2>1. /\ organization /\ operator.at # "prepared" /\ operator.at # "cleaning"
        /\ UNCHANGED <<organization, disk, captured, expired, writing, report, operator>>
    BY <1>1 DEF RequestDeletion, RowsFree, CleaningInv
  <2>2. \A r \in Request : Pending(r)' => r = requests + 1
    BY <1>1 DEF RequestDeletion, Frozen, Pending, ErasureTypes
  <2>3. ErasureTypes'
    BY <1>1, <2>1 DEF RequestDeletion, ErasureTypes
  <2>4. LiveInv'
    BY <2>1, <2>2 DEF LiveInv
  <2> QED BY <2>1, <2>3, <2>4 DEF PreparedInv, CleaningInv
<1>2. ASSUME NEW r \in Request, CancelDeletionOf(r) PROVE ErasureInv'
  <2>1. /\ organization /\ operator.at # "prepared" /\ operator.at # "cleaning"
        /\ UNCHANGED <<organization, disk, captured, expired, writing, requests, report, operator>>
    BY <1>2 DEF CancelDeletionOf, RowsFree, CleaningInv
  <2>2. \A q \in Request : Pending(q)' => Pending(q)
    BY <1>2 DEF CancelDeletionOf, Pending
  <2>3. LiveInv'
    BY <2>1, <2>2 DEF LiveInv
  <2> QED BY <2>1, <2>3 DEF ErasureTypes, PreparedInv, CleaningInv
<1> QED BY <1>1, <1>2

LEMMA OperatorStep ==
    ASSUME ErasureInv,
           \/ \E r \in Request : PrepareErasure(r) \/ ResumeErasure(r)
           \/ CommitErasure \/ DeleteObject \/ ReportErased \/ StopErasure
    PROVE  ErasureInv'
<1> USE DEF ErasureInv
\* None of these steps makes or cancels a request, or captures anything.
<1>0. /\ UNCHANGED <<captured, expired, writing, requests, cancelled>>
      /\ \A r \in Request : Pending(r)' <=> Pending(r)
  BY DEF PrepareErasure, ResumeErasure, CommitErasure, DeleteObject, ReportErased,
         StopErasure, Pending
<1>1. ASSUME NEW r \in Request, PrepareErasure(r) PROVE ErasureInv'
  <2> DEFINE manifest == [status |-> "PREPARED", objects |-> captured]
  <2>1. /\ organization /\ writing = NoObject /\ Pending(r)
        /\ report' = [report EXCEPT ![r] = manifest]
        /\ operator' = [at |-> "prepared", request |-> r, objects |-> captured]
        /\ UNCHANGED <<organization, disk>>
    BY <1>1 DEF PrepareErasure, RowsFree
  <2>2. manifest \in Report /\ operator' \in Operator
    BY <2>1 DEF Report, Operator, ErasureTypes
  <2>3. report'[r] = manifest /\ \A q \in Request : q # r => report'[q] = report[q]
    BY <2>1 DEF ErasureTypes
  <2>4. ErasureTypes'
    BY <1>0, <2>1, <2>2 DEF ErasureTypes
  <2>5. LiveInv'
    BY <1>0, <2>1, <2>3 DEF LiveInv
  <2>6. PreparedInv' /\ CleaningInv'
    BY <1>0, <2>1, <2>3 DEF PreparedInv, CleaningInv
  <2> QED BY <2>4, <2>5, <2>6
<1>2. ASSUME NEW r \in Request, ResumeErasure(r) PROVE ErasureInv'
  <2>1. /\ ~organization /\ report[r].status = "PREPARED"
        /\ operator' = [at |-> "cleaning", request |-> r, objects |-> report[r].objects]
        /\ UNCHANGED <<organization, disk, report>>
    BY <1>2 DEF ResumeErasure
  <2>2. operator' \in Operator
    BY <2>1 DEF Report, Operator, ErasureTypes
  <2>3. ErasureTypes'
    BY <1>0, <2>1, <2>2 DEF ErasureTypes
  <2>4. LiveInv' /\ PreparedInv' /\ CleaningInv'
    BY <1>0, <2>1 DEF LiveInv, PreparedInv, CleaningInv
  <2> QED BY <2>3, <2>4
<1>3. CASE CommitErasure
  <2>1. /\ operator.at = "prepared" /\ ~organization'
        /\ operator' = [operator EXCEPT !.at = "cleaning"]
        /\ UNCHANGED <<disk, report>>
    BY <1>3 DEF CommitErasure
  <2>2. /\ operator' \in Operator /\ operator'.at = "cleaning"
        /\ operator'.request = operator.request /\ operator'.objects = operator.objects
    BY <2>1 DEF Operator, ErasureTypes
  <2>3. \A r \in Request : Pending(r) => r = operator.request
    BY <2>1 DEF LiveInv, PreparedInv
  <2>4. ErasureTypes'
    BY <1>0, <1>3, <2>1, <2>2 DEF ErasureTypes, CommitErasure
  <2>5. LiveInv'
    BY <1>0, <2>1 DEF LiveInv, PreparedInv
  <2>6. PreparedInv' /\ CleaningInv'
    BY <1>0, <2>1, <2>2, <2>3 DEF PreparedInv, CleaningInv
  <2> QED BY <2>4, <2>5, <2>6
<1>4. CASE DeleteObject
  <2>1. PICK o \in operator.objects :
          /\ disk' = disk \ {o}
          /\ operator' = [operator EXCEPT !.objects = @ \ {o}]
    BY <1>4 DEF DeleteObject
  <2>2. /\ operator' \in Operator /\ operator'.at = "cleaning"
        /\ operator'.request = operator.request
        /\ operator'.objects = operator.objects \ {o}
        /\ ~organization /\ UNCHANGED <<organization, report>>
    BY <1>4, <2>1 DEF DeleteObject, Operator, ErasureTypes, CleaningInv
  <2>3. ErasureTypes'
    BY <1>0, <2>1, <2>2 DEF ErasureTypes
  <2>4. LiveInv' /\ PreparedInv' /\ CleaningInv'
    BY <1>0, <1>4, <2>1, <2>2 DEF LiveInv, PreparedInv, CleaningInv, DeleteObject
  <2> QED BY <2>3, <2>4
<1>5. CASE ReportErased
  <2> DEFINE r == operator.request
             x == [report[r] EXCEPT !.status = "CORE_ERASED"]
  <2>1. /\ operator.at = "cleaning" /\ operator.objects = {} /\ r \in Request /\ ~organization
        /\ report' = [report EXCEPT ![r] = x]
        /\ operator' = Away /\ UNCHANGED <<organization, disk>>
    BY <1>5 DEF ReportErased, CleaningInv
  <2>2. x \in Report /\ x.status = "CORE_ERASED" /\ Away \in Operator /\ Away.at = "away"
    BY <2>1 DEF ErasureTypes, Report, Away, Operator
  <2>3. \A q \in Request : report'[q] = IF q = r THEN x ELSE report[q]
    BY <2>1 DEF ErasureTypes
  <2>4. ErasureTypes'
    BY <1>0, <2>1, <2>2 DEF ErasureTypes
  <2>5. LiveInv' /\ PreparedInv'
    BY <1>0, <2>1, <2>2 DEF LiveInv, PreparedInv
  <2>6. Pending(r) => captured \cap disk = {}
    BY <2>1 DEF CleaningInv
  <2>7. CleaningInv'
    <3> HIDE DEF x
    <3> QED BY <1>0, <2>1, <2>2, <2>3, <2>6 DEF CleaningInv
  <2> QED BY <2>4, <2>5, <2>7
<1>6. CASE StopErasure
  <2>1. /\ operator' = Away /\ UNCHANGED <<organization, disk, report>>
        /\ Away \in Operator /\ Away.at = "away"
    BY <1>6 DEF StopErasure, Away, Operator, ErasureTypes
  <2> QED BY <1>0, <2>1 DEF ErasureTypes, LiveInv, PreparedInv, CleaningInv
<1> QED BY <1>1, <1>2, <1>3, <1>4, <1>5, <1>6

-----------------------------------------------------------------------------

LEMMA ErasureStep == ErasureInv /\ [ErasureNext]_erasureVars => ErasureInv'
<1> SUFFICES ASSUME ErasureInv, [ErasureNext]_erasureVars PROVE ErasureInv'
  OBVIOUS
<1>1. CASE UNCHANGED erasureVars
  BY <1>1 DEF erasureVars, ErasureInv, ErasureTypes, LiveInv, PreparedInv, CleaningInv, Pending
<1> QED BY <1>1, EvidenceStep, RequestStep, OperatorStep DEF ErasureNext, Withdrawal

\* While the organization exists its evidence is complete; once a standing request reports
\* it erased, all of it is gone.
THEOREM ErasureIsAllOrNothingAlways == ErasureSpec => []ErasureIsAllOrNothing
<1>1. ErasureInv => ErasureIsAllOrNothing
  BY DEF ErasureInv, LiveInv, CleaningInv, ErasureIsAllOrNothing
<1> QED BY <1>1, ErasureInitially, ErasureStep, PTL DEF ErasureSpec

-----------------------------------------------------------------------------
(* Subscription *)

LEMMA BillingInitially == BillingInit => BillingInv
<1> SUFFICES ASSUME BillingInit PROVE BillingInv
  OBVIOUS
<1>1. /\ <<>> \in Seq(Subscribed) /\ <<>> \in Seq(Told) /\ DOMAIN <<>> = {}
      /\ Period \in Nat
  BY PeriodAssumption
<1>2. BillingTypes
  BY <1>1 DEF BillingInit, BillingTypes
<1>3. FollowingInv
  BY <1>1 DEF BillingInit, FollowingInv
<1>4. FollowedIsCurrent
  BY DEF BillingInit, FollowedIsCurrent
<1> QED
  BY <1>2, <1>3, <1>4 DEF BillingInv

\* The boundary moves past the day: among as many days as a period has there is one on
\* which a period ends.
LEMMA RenewalAhead ==
  ASSUME BillingTypes
  PROVE  NextRenewal \in Nat /\ (BoundaryPassed => NextRenewal > day)
<1>1. renewal \in Nat /\ day \in Nat /\ Period \in Nat \ {0}
  BY PeriodAssumption DEF BillingTypes
<1>2. CASE ~BoundaryPassed
  BY <1>1, <1>2 DEF NextRenewal
<1>3. CASE BoundaryPassed
  <2> DEFINE S == {n \in day + 1 .. day + Period : (n - renewal) % Period = 0}
             over == (day - renewal) % Period
             periods == (day - renewal) \div Period
             n == day - over + Period
  <2>1. day - renewal \in Nat
    BY <1>1, <1>3 DEF BoundaryPassed
  <2>2. over \in 0..(Period - 1) /\ day - renewal = Period * periods + over /\ periods \in Int
    BY <1>1, <2>1
  <2>3. n \in day + 1 .. day + Period
    <3> HIDE DEF over
    <3> QED
      BY <1>1, <2>2
  <2>4. (n - renewal) % Period = 0
    <3>1. n - renewal = Period * (periods + 1)
      <4> HIDE DEF over, periods
      <4> QED
        BY <1>1, <2>2
    <3> DEFINE k == periods + 1
    <3>2. k \in Int
      BY <2>2
    <3> HIDE DEF periods, k
    <3>3. (Period * k) % Period = 0
      BY <1>1, <3>2
    <3> HIDE DEF n
    <3> QED
      BY <3>1, <3>3 DEF k
  <2>5. n \in S
    <3> HIDE DEF n
    <3> QED
      BY <2>3, <2>4
  <2>6. S \subseteq Nat
    BY <1>1
  <2>7. NextRenewal = Min(S)
    BY <1>3 DEF NextRenewal
  <2> HIDE DEF S, n
  <2>8. Min(S) \in S
    BY <2>5, <2>6, Least
  <2> QED
    BY <1>1, <2>7, <2>8 DEF S
<1> QED
  BY <1>2, <1>3

\* An account that follows a subscription reads and meters without the clock.
LEMMA FollowingIsStill ==
  ASSUME BillingInv, followed # 0
  PROVE  Reconciled = contract /\ provider = "stripe"
<1>1. contract.dates = NoDates /\ followed \in DOMAIN subs /\ ~BoundaryPassed
  BY DEF BillingInv, FollowingInv, BoundaryPassed
<1>2. ~Past(contract.dates.override) /\ ~Past(contract.dates.trial) /\ ~Past(contract.dates.grace)
  BY <1>1 DEF Past, NoDates
<1>3. provider = "stripe"
  <2>1. provider # "mock"
    BY <1>1 DEF BillingInv, FollowingInv
  <2> QED
    BY <2>1 DEF BillingInv, BillingTypes
<1> QED
  BY <1>1, <1>2, <1>3 DEF Reconciled, AfterExpiry, AfterOverride

\* A command, a read or a run: the count falls only when a boundary has passed.
LEMMA ResolveStep ==
  ASSUME BillingInv, NEW c, NEW used \in {Usage, Usage + 1}, Resolve(c, used),
         followed # 0 => c = contract
  PROVE  /\ BillingInv'
         /\ consumed' < consumed => renewal' > renewal /\ renewal <= day
<1>1. /\ contract' = c /\ renewal' = NextRenewal /\ consumed' = used
      /\ UNCHANGED <<provider, followed, eventCreated, subs, events, applied, day>>
  BY DEF Resolve
<1>2. /\ renewal \in Nat /\ consumed \in Nat /\ day \in Nat
      /\ NextRenewal \in Nat /\ (BoundaryPassed => NextRenewal > day)
  BY RenewalAhead DEF BillingInv, BillingTypes
<1>3. used \in Nat /\ (~BoundaryPassed => used >= consumed)
  BY <1>2 DEF Usage
<1>4. BillingTypes'
  BY <1>1, <1>2, <1>3 DEF BillingInv, BillingTypes
<1>5. FollowingInv'
  BY <1>1 DEF BillingInv, FollowingInv
<1>6. FollowedIsCurrent'
  BY <1>1 DEF BillingInv, FollowedIsCurrent, OfFollowed, StatusOf
<1>7. ASSUME consumed' < consumed PROVE renewal' > renewal /\ renewal <= day
  <2>1. BoundaryPassed
    BY <1>1, <1>2, <1>3, <1>7
  <2> QED
    BY <1>1, <1>2, <2>1 DEF BoundaryPassed
<1> QED
  BY <1>4, <1>5, <1>6, <1>7 DEF BillingInv

\* A subscription changes, or there is a new one, and its event is not received yet.
LEMMA TellStep ==
  ASSUME BillingInv, provider = "stripe", NEW sub, NEW kind \in {"created", "changed", "refunded"},
         NEW change \in Seq(Subscribed), Tell(sub, kind, change),
         sub \in DOMAIN change, DOMAIN subs \subseteq DOMAIN change,
         \A s \in DOMAIN subs \ {sub} : change[s] = subs[s]
  PROVE  BillingInv'
<1> DEFINE e == [sub |-> sub, kind |-> kind, body |-> change[sub]]
<1>1. /\ subs' = change /\ events' = Append(events, e)
      /\ UNCHANGED <<provider, contract, renewal, consumed, followed, eventCreated, applied, day>>
  BY DEF Tell, accountVars
<1>2. events \in Seq(Told) /\ applied \subseteq DOMAIN events
  BY DEF BillingInv, BillingTypes
<1>3. e \in Told
  <2>1. DOMAIN change = 1..Len(change) /\ Len(change) \in Nat
    BY LenProperties
  <2>2. sub \in Nat \ {0} /\ change[sub] \in Subscribed
    BY <2>1, ElementOfSeq
  <2> QED
    BY <2>2 DEF Told
<1>4. e.sub = sub
  OBVIOUS
<1> HIDE DEF e
<1>5. /\ events' \in Seq(Told) /\ DOMAIN events \subseteq DOMAIN events'
      /\ \A i \in DOMAIN events : events'[i] = events[i]
      /\ \A i \in DOMAIN events' : i \in DOMAIN events \/ events'[i] = e
      /\ Len(events) + 1 \in DOMAIN events' \ DOMAIN events /\ events'[Len(events) + 1] = e
  BY <1>1, <1>2, <1>3, Appended
<1>6. BillingTypes'
  BY <1>1, <1>2, <1>5 DEF BillingInv, BillingTypes
<1>7. FollowingInv'
  <2>1. ASSUME NEW i \in DOMAIN events' PROVE events'[i].sub \in DOMAIN subs'
    BY <1>1, <1>4, <1>5 DEF BillingInv, FollowingInv
  <2>2. followed' # 0 => followed' \in DOMAIN subs' /\ contract'.dates = NoDates
    BY <1>1 DEF BillingInv, FollowingInv
  <2> QED
    BY <1>1, <2>1, <2>2 DEF FollowingInv
<1>8. FollowedIsCurrent'
  <2> SUFFICES ASSUME followed # 0, \A i \in DOMAIN events' : events'[i].sub = followed => i \in applied
               PROVE  contract.status = StatusOf(subs'[followed])
    BY <1>1 DEF FollowedIsCurrent, OfFollowed, StatusOf
  <2>1. followed # sub
    BY <1>2, <1>4, <1>5
  <2>2. followed \in DOMAIN subs /\ subs'[followed] = subs[followed]
    BY <1>1, <2>1 DEF BillingInv, FollowingInv
  <2>3. \A i \in DOMAIN events : OfFollowed(i) => i \in applied
    BY <1>5 DEF OfFollowed
  <2> QED
    BY <2>2, <2>3 DEF BillingInv, FollowedIsCurrent
<1> QED
  BY <1>6, <1>7, <1>8 DEF BillingInv

\* An event is received: usage comes back only with the end of a paid period.
LEMMA ApplyStep ==
  ASSUME BillingInv, NEW i \in DOMAIN events, ApplyEvent(i)
  PROVE  /\ BillingInv'
         /\ consumed' < consumed =>
              renewal' > renewal /\ \E s \in DOMAIN subs : subs[s].paid /\ subs[s].end = renewal'
<1>1. /\ applied' = applied \cup {i} /\ UNCHANGED <<provider, subs, events, day>>
  BY DEF ApplyEvent
<1>2. /\ subs \in Seq(Subscribed) /\ renewal \in Nat /\ consumed \in Nat
      /\ events[i].sub \in DOMAIN subs /\ (followed # 0 => followed \in DOMAIN subs)
      /\ (\A j \in DOMAIN events : events[j].sub \in DOMAIN subs)
  BY DEF BillingInv, BillingTypes, FollowingInv
<1>3. DOMAIN subs = 1..Len(subs)
  BY <1>2, LenProperties
<1>4. provider # "mock"
  BY <1>2, <1>3 DEF BillingInv, FollowingInv
<1>5. CASE Target(i) = 0
  <2>1. UNCHANGED <<contract, renewal, consumed, followed, eventCreated>>
    BY <1>5 DEF ApplyEvent
  <2>2. BillingTypes' /\ FollowingInv'
    BY <1>1, <2>1 DEF BillingInv, BillingTypes, FollowingInv
  <2>3. events[i].sub # followed \/ followed = 0
    BY <1>5 DEF Target
  <2>4. FollowedIsCurrent'
    BY <1>1, <2>1, <2>3 DEF BillingInv, FollowedIsCurrent, OfFollowed, StatusOf
  <2> QED
    BY <1>2, <2>1, <2>2, <2>4 DEF BillingInv
<1>6. CASE Target(i) # 0
  <2> DEFINE t == Target(i)
             sub == subs[t]
  <2>1. /\ followed' = t /\ contract' = Terms(Paid, StatusOf(sub), FALSE, NoDates)
        /\ IF StartsPeriod(sub) THEN renewal' = sub.end /\ consumed' = 0
           ELSE UNCHANGED <<renewal, consumed>>
    BY <1>6 DEF ApplyEvent, CurrentState
  <2>2. t \in DOMAIN subs
    BY <1>2, <1>6 DEF Target
  <2> HIDE DEF t
  <2>3. sub \in Subscribed
    BY <1>2, <1>3, <2>2, ElementOfSeq
  <2>4. sub.end \in Nat /\ (StartsPeriod(sub) => sub.paid /\ sub.end > renewal)
    BY <2>3 DEF Subscribed, StartsPeriod, StatusOf
  <2>5. BillingTypes'
    BY <1>1, <2>1, <2>4 DEF BillingInv, BillingTypes
  <2>6. contract'.dates = NoDates /\ contract'.status = StatusOf(sub)
    BY <2>1 DEF Terms
  <2>7. FollowingInv'
    BY <1>1, <1>2, <1>4, <2>1, <2>2, <2>6 DEF FollowingInv
  <2>8. FollowedIsCurrent'
    <3>1. subs'[followed'] = sub
      BY <1>1, <2>1
    <3> HIDE DEF sub
    <3> QED
      BY <2>6, <3>1 DEF FollowedIsCurrent, StatusOf
  <2>9. consumed' < consumed =>
          renewal' > renewal /\ \E s \in DOMAIN subs : subs[s].paid /\ subs[s].end = renewal'
    BY <1>2, <2>1, <2>2, <2>4
  <2> QED
    BY <2>5, <2>7, <2>8, <2>9 DEF BillingInv
<1> QED
  BY <1>5, <1>6

\* Every step keeps the invariant and lets the count fall only with a new period.
LEMMA BillingStep ==
  ASSUME BillingInv, [BillingNext]_billingVars
  PROVE  /\ BillingInv'
         /\ consumed' < consumed =>
               /\ renewal' > renewal
               /\ \/ renewal <= day
                  \/ \E s \in DOMAIN subs : subs[s].paid /\ subs[s].end = renewal'
<1> DEFINE Goal == /\ BillingInv'
                   /\ consumed' < consumed =>
                        /\ renewal' > renewal
                        /\ \/ renewal <= day
                           \/ \E s \in DOMAIN subs : subs[s].paid /\ subs[s].end = renewal'
<1> HIDE DEF Goal
<1> SUFFICES Goal
  BY DEF Goal
<1>0. /\ consumed \in Nat /\ subs \in Seq(Subscribed) /\ day \in Nat
      /\ DOMAIN subs = 1..Len(subs) /\ Len(subs) \in Nat
  <2>1. consumed \in Nat /\ subs \in Seq(Subscribed) /\ day \in Nat
    BY DEF BillingInv, BillingTypes
  <2> QED
    BY <2>1, LenProperties
<1>1. ASSUME NEW c, Command(c) PROVE Goal
  <2>1. provider = "mock" /\ Resolve(c, Usage)
    BY <1>1 DEF Command
  <2>2. followed = 0
    BY <2>1, FollowingIsStill
  <2> QED
    BY <2>1, <2>2, ResolveStep DEF Goal
<1>2. CASE Mock
  <2>1. \E c : Command(c)
    BY <1>2 DEF Mock, Upgrade, StartTrial, Downgrade, PaymentFailed, PaymentRecovered, Override
  <2> QED
    BY <1>1, <2>1
<1>3. CASE Read
  BY <1>3, ResolveStep, FollowingIsStill DEF Read, Goal
<1>4. CASE UseExecution
  BY <1>4, ResolveStep, FollowingIsStill DEF UseExecution, Goal
<1>5. CASE Later
  <2>1. BillingInv'
    BY <1>0, <1>5 DEF Later, accountVars, BillingInv, BillingTypes, FollowingInv,
                      FollowedIsCurrent, OfFollowed, StatusOf
  <2>2. consumed' = consumed
    BY <1>5 DEF Later, accountVars
  <2> QED
    BY <1>0, <2>1, <2>2 DEF Goal
<1>6. ASSUME NEW sub, NEW kind \in {"created", "changed", "refunded"},
             NEW change \in Seq(Subscribed), Tell(sub, kind, change), provider = "stripe",
             sub \in DOMAIN change, DOMAIN subs \subseteq DOMAIN change,
             \A s \in DOMAIN subs \ {sub} : change[s] = subs[s]
      PROVE  Goal
  <2>1. BillingInv'
    BY <1>6, TellStep
  <2>2. consumed' = consumed
    BY <1>6 DEF Tell, accountVars
  <2> QED
    BY <1>0, <2>1, <2>2 DEF Goal
<1>7. ASSUME NEW s \in DOMAIN subs, NEW r \in Subscribed,
             NEW kind \in {"created", "changed", "refunded"},
             Tell(s, kind, [subs EXCEPT ![s] = r])
      PROVE  Goal
  <2> DEFINE change == [subs EXCEPT ![s] = r]
  <2>1. change \in Seq(Subscribed)
    BY <1>0
  <2>2. DOMAIN change = DOMAIN subs /\ \A q \in DOMAIN subs \ {s} : change[q] = subs[q]
    OBVIOUS
  <2>3. provider = "stripe"
    <3>1. subs # <<>>
      BY <1>0
    <3> QED
      BY <3>1 DEF BillingInv, BillingTypes, FollowingInv
  <2> HIDE DEF change
  <2>4. Tell(s, kind, change)
    BY <1>7 DEF change
  <2> QED
    BY <1>6, <2>1, <2>2, <2>3, <2>4
<1>8. CASE Checkout
  <2> DEFINE r == [status |-> "incomplete", paid |-> FALSE, end |-> day + Period]
  <2>1. r \in Subscribed
    BY <1>0, PeriodAssumption DEF Subscribed
  <2>2. provider = "stripe" /\ Tell(Len(subs) + 1, "created", Append(subs, r))
    BY <1>8 DEF Checkout
  <2> HIDE DEF r
  <2>3. /\ Append(subs, r) \in Seq(Subscribed) /\ Len(subs) + 1 \in DOMAIN Append(subs, r)
        /\ DOMAIN subs \subseteq DOMAIN Append(subs, r)
        /\ \A q \in DOMAIN subs : Append(subs, r)[q] = subs[q]
    BY <1>0, <2>1, Appended
  <2> QED
    BY <1>6, <2>2, <2>3
<1>9. ASSUME NEW s \in DOMAIN subs,
             Pays(s) \/ Refunds(s) \/ Ends(s) \/ \E paid \in BOOLEAN : Renews(s, paid)
      PROVE  Goal
  <2>1. subs[s] \in Subscribed
    BY <1>0, ElementOfSeq
  <2>2. \E r \in Subscribed, kind \in {"changed", "refunded"} :
            Tell(s, kind, [subs EXCEPT ![s] = r])
    <3>1. CASE Pays(s)
      <4>1. [subs[s] EXCEPT !.status = "active", !.paid = TRUE] \in Subscribed
        BY <2>1 DEF Subscribed
      <4> QED
        BY <3>1, <4>1 DEF Pays
    <3>2. CASE Refunds(s)
      <4>1. [subs[s] EXCEPT !.paid = FALSE] \in Subscribed
        BY <2>1 DEF Subscribed
      <4> QED
        BY <3>2, <4>1 DEF Refunds
    <3>3. CASE Ends(s)
      <4>1. [subs[s] EXCEPT !.status = "canceled"] \in Subscribed
        BY <2>1 DEF Subscribed
      <4> QED
        BY <3>3, <4>1 DEF Ends
    <3>4. ASSUME NEW paid \in BOOLEAN, Renews(s, paid)
          PROVE  \E r \in Subscribed, kind \in {"changed", "refunded"} :
                    Tell(s, kind, [subs EXCEPT ![s] = r])
      <4>1. [status |-> IF paid THEN "active" ELSE "past_due", paid |-> paid,
             end |-> subs[s].end + Period] \in Subscribed
        BY <2>1, PeriodAssumption DEF Subscribed
      <4> QED
        BY <3>4, <4>1 DEF Renews
    <3> QED
      BY <1>9, <3>1, <3>2, <3>3, <3>4
  <2> QED
    BY <1>7, <2>2
<1>10. ASSUME NEW i \in DOMAIN events, ApplyEvent(i) PROVE Goal
  BY <1>10, ApplyStep DEF Goal
<1>11. CASE UNCHANGED billingVars
  <2>1. BillingInv'
    BY <1>11 DEF billingVars, BillingInv, BillingTypes, FollowingInv, FollowedIsCurrent,
                 OfFollowed, StatusOf
  <2>2. consumed' = consumed
    BY <1>11 DEF billingVars
  <2> QED
    BY <1>0, <2>1, <2>2 DEF Goal
<1> QED
  BY <1>2, <1>3, <1>4, <1>5, <1>8, <1>9, <1>10, <1>11 DEF BillingNext, Stripe, Metered

LEMMA BillingInvariance == BillingSpec => []BillingInv
<1>1. BillingInv /\ [BillingNext]_billingVars => BillingInv'
  BY BillingStep
<1> QED
  BY <1>1, BillingInitially, PTL DEF BillingSpec

\* For any plans, periods and deliveries: an account that received what was sent of its
\* subscription says what Stripe says.
THEOREM FollowedIsCurrentAlways == BillingSpec => []FollowedIsCurrent
<1>1. BillingInv => FollowedIsCurrent
  BY DEF BillingInv
<1> QED
  BY <1>1, BillingInvariance, PTL

\* And used capacity comes back only with a new period, whatever is bought or told again.
THEOREM UsageRenewsOnceAlways == BillingSpec => UsageRenewsOnce
<1>1. BillingInv /\ [BillingNext]_billingVars =>
        [consumed' < consumed =>
            /\ renewal' > renewal
            /\ \/ renewal <= day
               \/ \E s \in DOMAIN subs : subs[s].paid /\ subs[s].end = renewal']_billingVars
  BY BillingStep
<1> QED
  BY <1>1, BillingInvariance, PTL DEF BillingSpec, UsageRenewsOnce

-----------------------------------------------------------------------------
(* Observers *)

LEMMA ObserverInitially == ObserverInit => ObserverInv
<1> SUFFICES ASSUME ObserverInit PROVE ObserverInv
  OBVIOUS
<1>1. MaxClock \in Nat /\ NotYet = MaxClock + 1
  BY ClockAssumption DEF NotYet
<1>2. /\ clock = 0 /\ committedAt = NotYet /\ table = {} /\ facts = {}
      /\ reader = [p \in Reader |-> Resting]
  BY DEF ObserverInit
<1>3. \A p \in Reader : reader[p] = Resting
  BY <1>2
<1>4. ObserverTypes
  <2>1. clock \in 0..MaxClock /\ committedAt \in 0..NotYet /\ table \subseteq RowOf
    BY <1>1, <1>2
  <2>2. {"at", "key", "effect", "observed"} \subseteq DOMAIN Resting
    BY DEF Resting
  <2>3. reader = [p \in Reader |-> reader[p]]
    BY <1>2
  <2> QED
    BY <1>3, <2>1, <2>2, <2>3 DEF ObserverTypes
<1>5. TruthInv
  <2>1. Resting.effect = "UNKNOWN" /\ Resting.observed = 0
    BY DEF Resting
  <2>2. Truthful("UNKNOWN", 0)
    BY <1>1, <1>2 DEF Truthful
  <2>3. \A p \in Reader : Truthful(reader[p].effect, reader[p].observed)
    BY <1>3, <2>1, <2>2
  <2> QED
    BY <1>2, <2>3 DEF TruthInv
<1> QED
  BY <1>4, <1>5 DEF ObserverInv

\* Time and the table only move so that what was truthful stays so.
LEMMA TruthLasts ==
  ASSUME ObserverInv, clock' \in clock..MaxClock,
         \/ committedAt' = committedAt
         \/ committedAt = NotYet /\ committedAt' = clock,
         NEW effect, NEW observed, Truthful(effect, observed)
  PROVE  Truthful(effect, observed)'
<1>1. /\ clock \in Nat /\ MaxClock \in Nat /\ clock <= MaxClock /\ NotYet = MaxClock + 1
      /\ clock' \in Nat /\ clock <= clock' /\ clock' <= MaxClock
  BY ClockAssumption DEF ObserverInv, ObserverTypes, NotYet
<1>2. NotYet' = NotYet
  BY DEF NotYet
<1>3. observed \in 0..clock'
  BY <1>1 DEF Truthful
<1>4. committedAt # NotYet => committedAt' # NotYet
  OBVIOUS
<1>5. effect = "DENIED" => observed <= committedAt'
  <2>1. CASE committedAt' = committedAt
    BY <2>1 DEF Truthful
  <2>2. CASE committedAt' = clock
    BY <1>1, <2>2 DEF Truthful
  <2> QED
    BY <2>1, <2>2
<1> QED
  BY <1>2, <1>3, <1>4, <1>5 DEF Truthful

\* What a reader takes from the table is truthful when it is taken.
LEMMA ReadingIsTruthful ==
  ASSUME ObserverInv, NEW effect,
         effect \in {"UNKNOWN", Interpretation(Scoped), Absence}
  PROVE  Truthful(effect, clock)
<1>1. /\ clock \in 0..MaxClock /\ MaxClock \in Nat /\ NotYet = MaxClock + 1
      /\ committedAt # NotYet <=>
            \E row \in table : row.scoped /\ row.state \in {"COMMITTED", "COMPENSATED"}
  BY ClockAssumption DEF ObserverInv, ObserverTypes, TruthInv, NotYet
<1>2. clock \in 0..clock /\ (committedAt = NotYet => clock <= committedAt)
  BY <1>1
<1> DEFINE effects == {row.state : row \in Scoped}
<1>3. \A s \in effects : \E row \in table : row.scoped /\ row.state = s
  BY DEF Scoped
<1>4. \A row \in table : row.scoped => row.state \in effects
  BY DEF Scoped
<1>5. CASE effect = "UNKNOWN"
  BY <1>2, <1>5 DEF Truthful
<1>6. CASE effect = Interpretation(Scoped)
  <2>1. /\ effect \in {"COMMITTED", "COMPENSATED"} => effect \in effects
        /\ effect = "DENIED" => "COMMITTED" \notin effects /\ "COMPENSATED" \notin effects
    BY <1>6 DEF Interpretation
  <2> HIDE DEF effects
  <2>2. effect \in {"COMMITTED", "COMPENSATED"} => committedAt # NotYet
    BY <1>1, <1>3, <2>1
  <2>3. effect = "DENIED" => committedAt = NotYet
    BY <1>1, <1>4, <2>1
  <2> QED
    BY <1>2, <2>2, <2>3 DEF Truthful
<1>7. CASE effect = Absence
  <2>1. effect \in {"UNKNOWN", "DENIED"} /\ (effect = "DENIED" => table = {})
    BY <1>7 DEF Absence
  <2>2. effect = "DENIED" => committedAt = NotYet
    BY <1>1, <2>1
  <2> QED
    BY <1>2, <2>1, <2>2 DEF Truthful
<1> QED
  BY <1>5, <1>6, <1>7

\* The table changes: the first commit is noted, and none is lost.
LEMMA TableStep ==
  ASSUME ObserverInv, UNCHANGED <<facts, reader, clock>>, table' \subseteq RowOf,
         NEW new \in table', NEW old, table' \cup {old} = table \cup {new, old},
         old.scoped /\ old.state \in {"COMMITTED", "COMPENSATED"} =>
            new.scoped /\ new.state \in {"COMMITTED", "COMPENSATED"},
         new.scoped /\ new.state = "COMPENSATED" => committedAt # NotYet,
         committedAt' = Seen(new)
  PROVE  ObserverInv'
<1>1. /\ clock \in 0..MaxClock /\ MaxClock \in Nat /\ NotYet = MaxClock + 1
      /\ committedAt \in 0..NotYet
      /\ committedAt # NotYet <=>
            \E row \in table : row.scoped /\ row.state \in {"COMMITTED", "COMPENSATED"}
  BY ClockAssumption DEF ObserverInv, ObserverTypes, TruthInv, NotYet
<1>2. NotYet' = NotYet
  BY DEF NotYet
<1>3. \/ Committing(new) /\ committedAt = NotYet /\ committedAt' = clock
      \/ (Committing(new) => committedAt # NotYet) /\ committedAt' = committedAt
  BY DEF Seen
<1>4. ObserverTypes'
  <2>1. committedAt' \in 0..NotYet /\ clock' \in 0..MaxClock
    BY <1>1, <1>3
  <2> QED
    BY <1>2, <2>1 DEF ObserverInv, ObserverTypes
<1>5. committedAt' # NotYet <=>
        \E row \in table' : row.scoped /\ row.state \in {"COMMITTED", "COMPENSATED"}
  <2>1. CASE Committing(new) /\ committedAt' = clock
    BY <1>1, <2>1 DEF Committing
  <2>2. CASE (Committing(new) => committedAt # NotYet) /\ committedAt' = committedAt
    <3>1. ASSUME committedAt # NotYet
          PROVE  \E row \in table' : row.scoped /\ row.state \in {"COMMITTED", "COMPENSATED"}
      <4>1. PICK row \in table : row.scoped /\ row.state \in {"COMMITTED", "COMPENSATED"}
        BY <1>1, <3>1
      <4>2. row \in table' \/ row = old
        OBVIOUS
      <4> QED
        BY <4>1, <4>2
    <3>2. ASSUME NEW row \in table', row.scoped, row.state \in {"COMMITTED", "COMPENSATED"}
          PROVE  committedAt # NotYet
      <4>1. row \in table \/ row = new \/ row = old
        OBVIOUS
      <4>2. CASE row \in table
        BY <1>1, <3>2, <4>2
      <4>3. CASE row = new \/ row = old
        BY <2>2, <3>2, <4>3 DEF Committing
      <4> QED
        BY <4>1, <4>2, <4>3
    <3> QED
      BY <2>2, <3>1, <3>2
  <2> QED
    BY <1>3, <2>1, <2>2
<1>6. clock' \in clock..MaxClock
  BY <1>1
<1>7. ASSUME NEW effect, NEW observed, Truthful(effect, observed)
      PROVE  Truthful(effect, observed)'
  BY <1>3, <1>6, <1>7, TruthLasts
<1>8. \A p \in Reader : Truthful(reader[p].effect, reader[p].observed)'
  <2> TAKE p \in Reader
  <2>1. Truthful(reader[p].effect, reader[p].observed)
    BY DEF ObserverInv, TruthInv
  <2>2. reader'[p].effect = reader[p].effect /\ reader'[p].observed = reader[p].observed
    OBVIOUS
  <2> QED
    BY <1>7, <2>1, <2>2 DEF Truthful
<1>9. \A f \in facts' : Truthful(f.effect, f.observed)'
  BY <1>7 DEF ObserverInv, TruthInv
<1> QED
  BY <1>2, <1>4, <1>5, <1>8, <1>9 DEF ObserverInv, TruthInv

\* What else changes leaves the table, and what was truthful so.
LEMMA SameTable ==
  ASSUME ObserverInv, UNCHANGED <<table, committedAt>>, clock' \in clock..MaxClock,
         reader' = [p \in Reader |-> reader'[p]],
         \A p \in Reader : /\ {"at", "key", "effect", "observed"} \subseteq DOMAIN reader'[p]
                           /\ Truthful(reader'[p].effect, reader'[p].observed),
         \A f \in facts' : Truthful(f.effect, f.observed)
  PROVE  ObserverInv'
<1>1. /\ clock' \in 0..MaxClock /\ NotYet' = NotYet /\ MaxClock \in Nat
  BY ClockAssumption DEF NotYet, ObserverInv, ObserverTypes
<1>2. ObserverTypes'
  BY <1>1 DEF ObserverInv, ObserverTypes
<1>3. ASSUME NEW effect, NEW observed, Truthful(effect, observed)
      PROVE  Truthful(effect, observed)'
  BY <1>3, TruthLasts
<1>4. ASSUME NEW p \in Reader PROVE Truthful(reader[p].effect, reader[p].observed)'
  <2> DEFINE e == reader'[p].effect  o == reader'[p].observed
  <2>1. Truthful(e, o)
    OBVIOUS
  <2>2. /\ o \in 0..clock'
        /\ e \in {"COMMITTED", "COMPENSATED"} => committedAt' # NotYet'
        /\ e = "DENIED" => o <= committedAt'
    <3> HIDE DEF e, o
    <3>1. o \in 0..clock /\ clock \in 0..MaxClock
      BY <2>1 DEF Truthful, ObserverInv, ObserverTypes
    <3> QED
      BY <1>1, <2>1, <3>1 DEF Truthful
  <2> QED
    BY <2>2 DEF Truthful
<1>5. ASSUME NEW f \in facts' PROVE Truthful(f.effect, f.observed)'
  BY <1>3
<1>6. (committedAt # NotYet <=>
          \E row \in table : row.scoped /\ row.state \in {"COMMITTED", "COMPENSATED"})'
  BY <1>1 DEF ObserverInv, TruthInv
<1> QED
  BY <1>2, <1>4, <1>5, <1>6 DEF ObserverInv, TruthInv

\* A reader takes something from the table, or is done.
LEMMA ReaderStep ==
  ASSUME ObserverInv, NEW p \in Reader, NEW e, reader' = [reader EXCEPT ![p] = e],
         UNCHANGED <<facts, table, committedAt, clock>>,
         {"at", "key", "effect", "observed"} \subseteq DOMAIN e, Truthful(e.effect, e.observed)
  PROVE  ObserverInv'
<1>1. DOMAIN reader = Reader /\ clock \in 0..MaxClock
  BY DEF ObserverInv, ObserverTypes
<1>2. reader'[p] = e /\ \A q \in Reader \ {p} : reader'[q] = reader[q]
  BY <1>1
<1>3. reader' = [q \in Reader |-> reader'[q]]
  BY <1>1
<1>4. clock' \in clock..MaxClock
  BY <1>1
<1>5. ASSUME NEW q \in Reader
      PROVE  /\ {"at", "key", "effect", "observed"} \subseteq DOMAIN reader'[q]
             /\ Truthful(reader'[q].effect, reader'[q].observed)
  <2>1. CASE q = p
    BY <1>2, <2>1
  <2>2. CASE q # p
    BY <1>2, <2>2 DEF ObserverInv, ObserverTypes, TruthInv
  <2> QED
    BY <2>1, <2>2
<1>6. \A f \in facts' : Truthful(f.effect, f.observed)
  BY DEF ObserverInv, TruthInv
<1> QED
  BY <1>3, <1>4, <1>5, <1>6, SameTable

\* A report is recorded, or refused.
LEMMA RecordStep ==
  ASSUME ObserverInv, NEW key, NEW effect, NEW observed, Truthful(effect, observed),
         facts' \in {facts, Recorded(key, effect, observed)},
         UNCHANGED <<table, committedAt, clock>>,
         \/ reader' = reader
         \/ \E p \in Reader : reader' = [reader EXCEPT ![p] = Resting]
  PROVE  ObserverInv'
<1>1. DOMAIN reader = Reader /\ clock \in 0..MaxClock
  BY DEF ObserverInv, ObserverTypes
<1>2. clock' \in clock..MaxClock /\ 0 \in 0..clock
  BY <1>1
<1>3. ASSUME NEW f \in facts' PROVE Truthful(f.effect, f.observed)
  <2>1. CASE f \in facts
    BY <2>1 DEF ObserverInv, TruthInv
  <2>2. CASE f \notin facts
    BY <1>3, <2>2 DEF Recorded
  <2> QED
    BY <2>1, <2>2
<1>4. /\ {"at", "key", "effect", "observed"} \subseteq DOMAIN Resting
      /\ Truthful(Resting.effect, Resting.observed)
  BY <1>2 DEF Resting, Truthful
<1>5. \A q \in Reader : reader'[q] \in {reader[q], Resting}
  BY <1>1
<1>6. reader' = [q \in Reader |-> reader'[q]]
  BY <1>1 DEF ObserverInv, ObserverTypes
<1>7. ASSUME NEW q \in Reader
      PROVE  /\ {"at", "key", "effect", "observed"} \subseteq DOMAIN reader'[q]
             /\ Truthful(reader'[q].effect, reader'[q].observed)
  BY <1>4, <1>5 DEF ObserverInv, ObserverTypes, TruthInv
<1> QED
  BY <1>2, <1>3, <1>6, <1>7, SameTable

LEMMA ObserverStep == ObserverInv /\ [ObserverNext]_observerVars => ObserverInv'
<1> SUFFICES ASSUME ObserverInv, [ObserverNext]_observerVars PROVE ObserverInv'
  OBVIOUS
<1>0. /\ clock \in 0..MaxClock /\ DOMAIN reader = Reader /\ table \subseteq RowOf
      /\ \A p \in Reader : /\ {"at", "key", "effect", "observed"} \subseteq DOMAIN reader[p]
                           /\ Truthful(reader[p].effect, reader[p].observed)
  BY DEF ObserverInv, ObserverTypes, TruthInv
<1>1. ASSUME UNCHANGED <<facts, table, committedAt, reader>>, clock' \in clock..MaxClock
      PROVE  ObserverInv'
  <2>1. reader' = [p \in Reader |-> reader'[p]]
    BY <1>1 DEF ObserverInv, ObserverTypes
  <2>2. \A f \in facts' : Truthful(f.effect, f.observed)
    BY <1>1 DEF ObserverInv, TruthInv
  <2> QED
    BY <1>0, <1>1, <2>1, <2>2, SameTable
<1>2. clock \in clock..MaxClock
  BY <1>0
<1>3. ASSUME NEW results, RecordQualification(results) PROVE ObserverInv'
  BY <1>1, <1>2, <1>3 DEF RecordQualification
<1>4. CASE RevokeDefinition
  BY <1>1, <1>2, <1>4 DEF RevokeDefinition
<1>5. ASSUME NEW row \in RowOf, Insert(row) PROVE ObserverInv'
  <2>1. /\ table' = table \cup {row} /\ committedAt' = Seen(row)
        /\ UNCHANGED <<facts, reader, clock>>
        /\ row.state = "COMPENSATED" => \E other \in table : Committing(other)
    BY <1>5 DEF Insert
  <2>2. row.scoped /\ row.state = "COMPENSATED" => committedAt # NotYet
    BY <2>1 DEF ObserverInv, TruthInv, Committing
  <2>3. /\ table' \subseteq RowOf /\ row \in table'
        /\ table' \cup {row} = table \cup {row, row}
    BY <1>0, <2>1
  <2> QED
    BY <2>1, <2>2, <2>3, TableStep
<1>6. ASSUME NEW row \in table, NEW state \in {"COMMITTED", "DENIED", "COMPENSATED"},
             Update(row, state)
      PROVE  ObserverInv'
  <2> DEFINE new == [row EXCEPT !.state = state]
  <2>1. /\ <<row.state, state>> \in {<<"DISPATCHED", "COMMITTED">>, <<"DISPATCHED", "DENIED">>,
                                     <<"COMMITTED", "COMPENSATED">>}
        /\ table' = (table \ {row}) \cup {new} /\ committedAt' = Seen(new)
        /\ UNCHANGED <<facts, reader, clock>>
    BY <1>6 DEF Update
  <2>2. /\ row.state \in {"DISPATCHED", "COMMITTED"}
        /\ state = "COMPENSATED" <=> row.state = "COMMITTED"
    BY <2>1
  <2>3. row \in [scoped : {TRUE}, id : 1..MaxRows,
                 state : {"DISPATCHED", "COMMITTED", "DENIED", "COMPENSATED", "unmapped"}]
    BY <1>0, <2>2 DEF RowOf
  <2>4. /\ new \in [scoped : {TRUE}, id : 1..MaxRows,
                    state : {"DISPATCHED", "COMMITTED", "DENIED", "COMPENSATED", "unmapped"}]
        /\ new.state = state /\ new.scoped /\ row.scoped
    BY <2>3
  <2> HIDE DEF new
  <2>5. new \in RowOf
    BY <2>4 DEF RowOf
  <2>6. table' \subseteq RowOf /\ new \in table' /\ table' \cup {row} = table \cup {new, row}
    BY <1>0, <2>1, <2>5
  <2>7. row.scoped /\ row.state \in {"COMMITTED", "COMPENSATED"} =>
          new.scoped /\ new.state \in {"COMMITTED", "COMPENSATED"}
    BY <2>2, <2>4
  <2>8. new.scoped /\ new.state = "COMPENSATED" => committedAt # NotYet
    BY <2>2, <2>4 DEF ObserverInv, TruthInv
  <2> QED
    BY <2>1, <2>6, <2>7, <2>8, TableStep
<1>7. ASSUME NEW p \in Reader, NotRead(p) \/ ReadScoped(p) \/ ReadElsewhere(p)
      PROVE  ObserverInv'
  <2> DEFINE k == CHOOSE k \in Fresh : \A other \in Fresh : k <= other
             first == [Resting EXCEPT !.at = "answered", !.observed = clock, !.key = k]
             effect == IF Cardinality(Scoped) > RowLimit THEN "UNKNOWN"
                       ELSE Interpretation(Scoped)
             at == IF Scoped = {} THEN "empty" ELSE "answered"
             second == [Resting EXCEPT !.key = k, !.at = at, !.effect = effect,
                                       !.observed = clock]
             answer(x) == [reader[p] EXCEPT !.at = "answered", !.effect = x, !.observed = clock]
  <2>1. UNCHANGED <<facts, table, committedAt, clock>>
    BY <1>7 DEF NotRead, ReadScoped, ReadElsewhere
  <2>2. \/ reader' = [reader EXCEPT ![p] = first]
        \/ reader' = [reader EXCEPT ![p] = second]
        \/ reader' = [reader EXCEPT ![p] = answer("UNKNOWN")]
        \/ reader' = [reader EXCEPT ![p] = answer(Absence)]
    BY <1>7 DEF NotRead, ReadScoped, ReadElsewhere, Answers
  <2> HIDE DEF k
  <2>3. /\ {"at", "key", "effect", "observed"} \subseteq DOMAIN first
        /\ first.effect = "UNKNOWN" /\ first.observed = clock
    BY DEF Resting
  <2>4. effect \in {"UNKNOWN", Interpretation(Scoped)}
    OBVIOUS
  <2> HIDE DEF effect, at
  <2>5. /\ {"at", "key", "effect", "observed"} \subseteq DOMAIN second
        /\ second.effect = effect /\ second.observed = clock
    BY DEF Resting
  <2>6. \A x : /\ {"at", "key", "effect", "observed"} \subseteq DOMAIN answer(x)
               /\ answer(x).effect = x /\ answer(x).observed = clock
    BY <1>0
  <2>7. Truthful("UNKNOWN", clock) /\ Truthful(effect, clock) /\ Truthful(Absence, clock)
    BY <2>4, ReadingIsTruthful
  <2> HIDE DEF first, second, answer
  <2>8. CASE reader' = [reader EXCEPT ![p] = first]
    BY <2>1, <2>3, <2>7, <2>8, ReaderStep
  <2>9. CASE reader' = [reader EXCEPT ![p] = second]
    BY <2>1, <2>5, <2>7, <2>9, ReaderStep
  <2>10. CASE reader' = [reader EXCEPT ![p] = answer("UNKNOWN")]
    BY <2>1, <2>6, <2>7, <2>10, ReaderStep
  <2>11. CASE reader' = [reader EXCEPT ![p] = answer(Absence)]
    BY <2>1, <2>6, <2>7, <2>11, ReaderStep
  <2> QED
    BY <2>2, <2>8, <2>9, <2>10, <2>11
<1>8. ASSUME NEW p \in Reader, NEW answered \in BOOLEAN, RecordObservation(p, answered)
      PROVE  ObserverInv'
  <2>1. /\ facts' \in {facts, Recorded(reader[p].key, reader[p].effect, reader[p].observed)}
        /\ UNCHANGED <<table, committedAt, clock>>
        /\ reader' = reader \/ reader' = [reader EXCEPT ![p] = Resting]
    BY <1>8 DEF RecordObservation
  <2> QED
    BY <1>0, <2>1, RecordStep
<1>9. CASE ReportAttempt
  <2> DEFINE k == CHOOSE k \in Fresh : \A other \in Fresh : k <= other
  <2>1. /\ facts' = Recorded(k, "DISPATCHED", clock)
        /\ UNCHANGED <<table, committedAt, clock, reader>>
    BY <1>9 DEF ReportAttempt
  <2> HIDE DEF k
  <2>2. Truthful("DISPATCHED", clock)
    BY <1>0 DEF Truthful
  <2> QED
    BY <2>1, <2>2, RecordStep
<1>10. CASE TimePasses
  <2>1. clock' \in clock..MaxClock
    BY <1>0, <1>10, ClockAssumption DEF TimePasses
  <2> QED
    BY <1>1, <1>10, <2>1 DEF TimePasses
<1>11. CASE UNCHANGED observerVars
  BY <1>1, <1>2, <1>11 DEF observerVars
<1> QED
  BY <1>3, <1>4, <1>5, <1>6, <1>7, <1>8, <1>9, <1>10, <1>11 DEF ObserverNext

\* For any readers, rows and instants: what the observations establish of an effect is
\* what became of it in the system of record.
THEOREM EstablishedIsTrueAlways == ObserverSpec => []EstablishedIsTrue
<1>1. ObserverInv => EstablishedIsTrue
  <2> SUFFICES ASSUME ObserverInv PROVE EstablishedIsTrue
    OBVIOUS
  <2> DEFINE present == {f.effect : f \in Qualified}
  <2>1. Qualified \subseteq facts /\ \A f \in facts : Truthful(f.effect, f.observed)
    BY DEF Qualified, ObserverInv, TruthInv
  <2>2. \A f \in Qualified : f.effect \in present
    OBVIOUS
  <2>3. \A s \in present : \E f \in Qualified : f.effect = s
    OBVIOUS
  <2>4. /\ Committed => "COMMITTED" \in present
        /\ EffectSummary = "DENIED" => "COMMITTED" \notin present /\ "COMPENSATED" \notin present
    BY DEF Committed, EffectSummary
  <2> HIDE DEF present
  <2>5. Committed => committedAt # NotYet
    BY <2>1, <2>3, <2>4 DEF Truthful
  <2>6. ASSUME EffectSummary = "DENIED", NEW f \in Qualified,
               f.effect \in {"COMMITTED", "DENIED", "COMPENSATED"}
        PROVE  f.observed <= committedAt
    BY <2>1, <2>2, <2>4, <2>6 DEF Truthful
  <2> QED
    BY <2>5, <2>6 DEF EstablishedIsTrue
<1>2. ObserverSpec => []ObserverInv
  BY ObserverInitially, ObserverStep, PTL DEF ObserverSpec
<1> QED
  BY <1>1, <1>2, PTL
===============================================================================
