------------------------- MODULE RunExecutionProofs -------------------------
(***************************************************************************)
(* Proofs about RunExecution, for any set of runs, dispatchers and scopes  *)
(* and any timer lengths.                                                  *)
(***************************************************************************)
EXTENDS RunExecution, TLAPS

\* The result a completion evaluates to is an outcome.
LEMMA OutcomeTypes ==
    /\ \A st \in Terminal : Unfinished(st) \in Outcome
    /\ \A samples : Evaluate(samples) \in Outcome
    /\ \A r : Completions(r) \subseteq Outcome
  <1>1. \A st \in Terminal : Unfinished(st) \in Outcome
    BY DEF Unfinished, Outcome, Verdict, Task
  <1>2. ASSUME NEW samples PROVE Evaluate(samples) \in Outcome
    <2> DEFINE e == Evaluate(samples)
               all == \A i \in DOMAIN samples : samples[i].candidate_observed
    <2>1. all \in BOOLEAN
      OBVIOUS
    <2>2. /\ e.security_verdict \in Verdict /\ e.task_outcome \in Task
          /\ e.execution_status \in Terminal
      BY DEF Evaluate, Verdict, Task, Terminal
    <2>3. e = [execution_status |-> e.execution_status,
               security_verdict |-> e.security_verdict,
               task_outcome |-> e.task_outcome, candidate_observed |-> all]
      BY DEF Evaluate
    <2>4. \A x \in Terminal, y \in Verdict, z \in Task, b \in BOOLEAN :
             [execution_status |-> x, security_verdict |-> y,
              task_outcome |-> z, candidate_observed |-> b] \in Outcome
      BY DEF Outcome
    <2> HIDE DEF e, all
    <2>5. e \in Outcome
      BY <2>1, <2>2, <2>3, <2>4, Zenon
    <2> QED
      BY <2>5 DEF e
  <1>3. \A r : Completions(r) \subseteq Outcome
    BY <1>2 DEF Completions
  <1> QED
    BY <1>1, <1>2, <1>3

\* finish_run stores a well formed result.
LEMMA ResultType ==
    ASSUME TypeOK, NEW r \in Run, NEW o \in Outcome, NEW compatible \in BOOLEAN
    PROVE  /\ ResultOf(r, o, compatible) \in Result
           /\ ResultOf(r, o, compatible).execution_status = o.execution_status
           /\ ResultOf(r, o, compatible).units \in {0, Units[r]}
  <1>1. Units[r] \in Nat
    BY RunAssumption
  <1>2. FinalVerdict(r, o) \in Verdict
    BY DEF FinalVerdict, Outcome, Verdict
  <1>3. Charge(r, o) \in {0, Units[r]}
    BY DEF Charge
  <1>4. Authorized(r) \in BOOLEAN
    BY DEF Authorized, TargetAuthorized
  <1> QED
    BY <1>1, <1>2, <1>3, <1>4 DEF ResultOf, Result, Outcome, Action

\* The initial state is well typed.
LEMMA TypeInit == Init => TypeOK
  <1> SUFFICES ASSUME Init PROVE TypeOK
    OBVIOUS
  <1>1. Settled = {} /\ result \in [Settled -> Result]
    BY DEF Init, Settled
  <1>2. \A r \in Run : captured[r] = <<>>
    BY DEF Init
  <1>3. captured \in [Run -> Seq(Trial)]
    BY <1>2 DEF Init
  <1>4. MaxFence \in Nat
    BY BoundAssumption
  <1>5. hand \in [Dispatcher -> {NoHand} \cup
                    [run : Run, fence : Fence, stage : {"prepared", "launched"}]]
    BY DEF Init
  <1>6. /\ status \in [Run -> {"NONE"}] /\ outbox \in [Run -> {"none"}]
        /\ fence \in [Run -> 0..MaxFence] /\ executor \in [Run -> {"none"}]
        /\ ttl \in [Run -> Nat] /\ held \in [Run -> Nat] /\ age \in [Run -> Nat]
    BY <1>4 DEF Init
  <1>7. /\ claimed \in [Run -> SUBSET Fence] /\ revoked \in [Run -> SUBSET Fence]
        /\ launched \in [Run -> SUBSET Fence]
        /\ completion \in [Run -> SUBSET Outcome]
        /\ finishing \in [Run -> SUBSET Outcome]
        /\ batch \in [Dispatcher -> SUBSET Run]
    BY DEF Init
  <1>8. /\ targetRevoked \subseteq Scope /\ observerRevoked \subseteq Scope
        /\ reserved \in Int /\ consumed \in Nat
    BY DEF Init
  <1>9. frozen \in BOOLEAN
    BY Zenon DEF Init
  <1> QED
    BY <1>1, <1>3, <1>5, <1>6, <1>7, <1>8, <1>9 DEF TypeOK

\* The parameters are positive, and the leases of a run are within the bound.
LEMMA Bounds ==
    /\ MaxFence \in Nat \ {0} /\ BootstrapTTL \in Nat \ {0} /\ LeaseTTL \in Nat \ {0}
    /\ MaxRun \in Nat \ {0} /\ Deadline \in Nat \ {0} /\ RetryLimit \in Nat \ {0}
    /\ MaxHeld \in Nat
    /\ \A r \in Run : Units[r] \in Nat
  BY RunAssumption, BoundAssumption DEF MaxHeld

LEMMA FenceRange ==
    ASSUME TypeOK, NEW r \in Run
    PROVE  /\ fence[r] \in 0..MaxFence /\ 1..fence[r] \subseteq Fence
           /\ fence[r] > 0 => fence[r] \in Fence
  BY Bounds DEF TypeOK, Fence

\* The clock keeps timers natural.
LEMMA Timers ==
    ASSUME NEW n \in Nat, NEW top \in Nat
    PROVE  Down(n) \in Nat /\ Up(n, top) \in Nat
  BY DEF Down, Up

\* Every step of every process keeps every variable in its type.
LEMMA TypeStep ==
    ASSUME TypeOK, [Next]_vars
    PROVE  TypeOK'
  <1> USE DEF leases, evidence, dispatch, authority, account
  <1>1. ASSUME NEW r \in Run, CreateRun(r) PROVE TypeOK'
    <2>1. executor' \in [Run -> {"none", "queued", "running", "trial"}]
      BY <1>1 DEF CreateRun, TypeOK
    <2>2. reserved' \in Int
      BY <1>1, Bounds DEF CreateRun, TypeOK
    <2>3. /\ status' \in [Run -> {"NONE", "QUEUED", "DISPATCHED", "RUNNING"}
                                     \cup Terminal]
          /\ outbox' \in [Run -> {"none", "pending", "delivered", "disabled", "settled"}]
      BY <1>1 DEF CreateRun, TypeOK
    <2> QED
      BY <1>1, <2>1, <2>2, <2>3 DEF CreateRun, TypeOK, Settled
  <1>2. ASSUME NEW s \in Scope, RevokeTarget(s) \/ RevokeObserver(s) PROVE TypeOK'
    BY <1>2 DEF RevokeTarget, RevokeObserver, TypeOK, Settled
  <1>3. CASE RequestDeletion
    <2>1. /\ revoked' \in [Run -> SUBSET Fence]
          /\ outbox' \in [Run -> {"none", "pending", "delivered", "disabled", "settled"}]
      BY <1>3, FenceRange DEF RequestDeletion, TypeOK
    <2>2. targetRevoked' \subseteq Scope /\ frozen' \in BOOLEAN
      BY <1>3, Zenon DEF RequestDeletion, RevokedByDeletion
    <2> QED
      BY <1>3, <2>1, <2>2 DEF RequestDeletion, TypeOK, Settled
  <1>4. CASE CancelDeletion
    BY <1>4 DEF CancelDeletion, TypeOK, Settled
  <1>5. ASSUME NEW d \in Dispatcher, FetchPending(d) PROVE TypeOK'
    BY <1>5 DEF FetchPending, Pending, TypeOK, Settled
  <1>6. ASSUME NEW d \in Dispatcher, NEW r \in Run, PrepareDispatch(d, r) PROVE TypeOK'
    <2>1. fence[r] + 1 \in Fence /\ fence[r] + 1 \in 0..MaxFence
      BY <1>6, Bounds, FenceRange DEF PrepareDispatch, Fence
    <2>2. /\ fence' \in [Run -> 0..MaxFence]
          /\ revoked' \in [Run -> SUBSET Fence]
          /\ ttl' \in [Run -> Nat]
      BY <1>6, <2>1, Bounds, FenceRange DEF PrepareDispatch, Superseded, TypeOK
    <2>3. hand' \in [Dispatcher -> {NoHand} \cup
             [run : Run, fence : Fence, stage : {"prepared", "launched"}]]
      BY <1>6, <2>1 DEF PrepareDispatch, TypeOK
    <2> QED
      BY <1>6, <2>2, <2>3 DEF PrepareDispatch, TypeOK, Settled
  <1>7. ASSUME NEW d \in Dispatcher, NEW r \in Run, PrepareRejected(d, r) PROVE TypeOK'
    BY <1>7 DEF PrepareRejected, TypeOK, Settled
  <1>8. ASSUME NEW d \in Dispatcher, LaunchJob(d) PROVE TypeOK'
    <2> DEFINE held_item == [run : Run, fence : Fence, stage : {"prepared", "launched"}]
    <2>1. hand[d] \in held_item
      BY <1>8 DEF LaunchJob, TypeOK, NoHand
    <2>2. [hand[d] EXCEPT !.stage = "launched"] \in held_item
      BY <2>1
    <2>3. hand' = [hand EXCEPT ![d] = [hand[d] EXCEPT !.stage = "launched"]]
      BY <1>8 DEF LaunchJob
    <2>4. hand' \in [Dispatcher -> {NoHand} \cup held_item]
      BY <2>2, <2>3 DEF TypeOK
    <2>5. launched' \in [Run -> SUBSET Fence]
      BY <1>8, <2>1 DEF LaunchJob, TypeOK
    <2> QED
      BY <1>8, <2>4, <2>5 DEF LaunchJob, TypeOK, Settled
  <1>9. ASSUME NEW d \in Dispatcher, MarkDispatched(d) PROVE TypeOK'
    BY <1>9 DEF MarkDispatched, TypeOK, Settled, NoHand
  <1>10. ASSUME NEW d \in Dispatcher, AbortBatch(d) PROVE TypeOK'
    BY <1>10 DEF AbortBatch, TypeOK, Settled
  <1>11. ASSUME NEW r \in Run, NEW f \in Fence, Claim(r, f) PROVE TypeOK'
    BY <1>11, Bounds DEF Claim, TypeOK, Settled
  <1>12. ASSUME NEW r \in Run, NEW f \in Fence, Renew(r, f) PROVE TypeOK'
    BY <1>12, Bounds DEF Renew, TypeOK, Settled
  <1>13. ASSUME NEW r \in Run, NEW f \in Fence, Observe(r, f) PROVE TypeOK'
    BY <1>13 DEF Observe, TrialOf, TypeOK, Settled
  <1>14. ASSUME NEW r \in Run, NEW f \in Fence, Complete(r, f) \/ Fail(r, f)
         PROVE TypeOK'
    <2>1. PICK o \in Outcome : EndLease(r, f, o)
      BY <1>14, OutcomeTypes DEF Complete, Fail, Terminal
    <2> QED
      BY <2>1 DEF EndLease, TypeOK, Settled
  <1>15. ASSUME NEW r \in Run, LocalStart(r) PROVE TypeOK'
    BY <1>15 DEF LocalStart, TypeOK, Settled
  <1>16. ASSUME NEW r \in Run, LocalRecheck(r) PROVE TypeOK'
    BY <1>16 DEF LocalRecheck, TypeOK, Settled
  <1>17. ASSUME NEW r \in Run, LocalCapture(r) PROVE TypeOK'
    BY <1>17 DEF LocalCapture, TrialOf, TypeOK, Settled
  <1>18. ASSUME NEW r \in Run, LocalComplete(r) \/ LocalFail(r) PROVE TypeOK'
    <2>1. PICK o \in Outcome : LocalEnd(r, o)
      BY <1>18, OutcomeTypes DEF LocalComplete, LocalFail, Terminal
    <2> QED
      BY <2>1 DEF LocalEnd, TypeOK, Settled
  <1>19. ASSUME NEW r \in Run, LocalCrash(r) PROVE TypeOK'
    BY <1>19 DEF LocalCrash, TypeOK, Settled
  <1>20. ASSUME NEW r \in Run, RetireRoute(r) PROVE TypeOK'
    BY <1>20 DEF RetireRoute, TypeOK, Settled
  <1>21. ASSUME NEW r \in Run, RecoverCompletion(r) PROVE TypeOK'
    BY <1>21 DEF RecoverCompletion, TypeOK, Settled
  <1>22. ASSUME NEW r \in Run, RetryUnclaimed(r) PROVE TypeOK'
    <2>1. fence[r] \in Fence
      BY <1>22, FenceRange DEF RetryUnclaimed, Retryable, LeaseExpired
    <2> QED
      BY <1>22, <2>1 DEF RetryUnclaimed, TypeOK, Settled
  <1>23. ASSUME NEW r \in Run, TimeOut(r) PROVE TypeOK'
    <2>1. Unfinished("TIMEOUT") \in Outcome
      BY OutcomeTypes DEF Terminal
    <2> QED
      BY <1>23, <2>1, FenceRange DEF TimeOut, TypeOK, Settled
  <1>24. ASSUME NEW r \in Run, NEW o \in finishing[r], FinishRun(r, o) PROVE TypeOK'
    <2>1. o \in Outcome
      BY DEF TypeOK
    <2>2. CASE r \in Settled
      BY <1>24, <2>2 DEF FinishRun, AlreadySettled, TypeOK, Settled
    <2>3. CASE r \notin Settled
      <3>1. PICK compatible \in BOOLEAN :
              LET res == ResultOf(r, o, compatible)
              IN  /\ result' = [q \in Settled \cup {r} |->
                                   IF q = r THEN res ELSE result[q]]
                  /\ status' = [status EXCEPT ![r] = res.execution_status]
                  /\ reserved' = reserved - Release(r)
                  /\ consumed' = consumed + res.units
        BY <1>24, <2>3 DEF FinishRun, AlreadySettled
      <3> DEFINE res == ResultOf(r, o, compatible)
      <3>2. /\ res \in Result /\ res.execution_status \in Terminal
            /\ res.units \in Nat
        BY <2>1, ResultType DEF Result
      <3>3. Units[r] \in Nat
        BY RunAssumption
      <3>6. /\ status' = [status EXCEPT ![r] = res.execution_status]
            /\ reserved' = reserved - Release(r)
            /\ consumed' = consumed + res.units
        BY <3>1
      <3> HIDE DEF res
      <3>5. /\ status' \in [Run -> {"NONE", "QUEUED", "DISPATCHED", "RUNNING"}
                                     \cup Terminal]
            /\ reserved' \in Int /\ consumed' \in Nat
        <4>1. /\ status \in [Run -> {"NONE", "QUEUED", "DISPATCHED", "RUNNING"}
                                       \cup Terminal]
              /\ reserved \in Int /\ consumed \in Nat
          BY DEF TypeOK
        <4>2. status' \in [Run -> {"NONE", "QUEUED", "DISPATCHED", "RUNNING"}
                                    \cup Terminal]
          BY <3>2, <3>6, <4>1
        <4>3. Release(r) \in Nat
          BY <3>3 DEF Release
        <4> QED
          BY <3>2, <3>6, <4>1, <4>2, <4>3
      <3>4. Settled' = Settled \cup {r} /\ result' \in [Settled' -> Result]
        BY <3>1, <3>2 DEF Settled, TypeOK, res
      <3> QED
        BY <1>24, <3>4, <3>5 DEF FinishRun, TypeOK
    <2> QED
      BY <2>2, <2>3
  <1>25. ASSUME NEW r \in Run, LoseFinish(r) PROVE TypeOK'
    BY <1>25 DEF LoseFinish, TypeOK, Settled
  <1>26. CASE Tick
    <2>1. /\ age' \in [Run -> Nat] /\ ttl' \in [Run -> Nat] /\ held' \in [Run -> Nat]
      BY <1>26, Bounds, Timers DEF Tick, TypeOK
    <2> QED
      BY <1>26, <2>1 DEF Tick, TypeOK, Settled
  <1>27. CASE UNCHANGED vars
    BY <1>27 DEF vars, TypeOK, Settled
  <1> QED
    BY <1>1, <1>2, <1>3, <1>4, <1>5, <1>6, <1>7, <1>8, <1>9, <1>10, <1>11, <1>12,
       <1>13, <1>14, <1>15, <1>16, <1>17, <1>18, <1>19, <1>20, <1>21, <1>22,
       <1>23, <1>24, <1>25, <1>26, <1>27
    DEF Next, Api, Authority, Launcher, Worker, Local, Recovery, Finish

\* Type correctness, for any instance.
THEOREM TypeCorrect == Spec => []TypeOK
  BY TypeInit, TypeStep, PTL DEF Spec

-----------------------------------------------------------------------------
(* The inductive invariant *)

LEMMA InvInit == Init => IInv
  <1> SUFFICES ASSUME Init PROVE IInv
    OBVIOUS
  <1>1. FencingInv
    BY DEF Init, FencingInv
  <1>2. Settled = {} /\ Live = {}
    BY DEF Init, Settled, Live, Created
  <1>3. PhaseInv
    BY <1>2 DEF Init, PhaseInv, RunPhase, Begun, Terminal
  <1>4. SettlementInv /\ WindowInv
    BY <1>2 DEF SettlementInv, ChargedIffStarted, FailurePreserved, WindowInv
  <1> QED
    BY <1>1, <1>3, <1>4 DEF IInv

\* Fencing is kept by every step: a new lease revokes all the others, and what was
\* revoked stays revoked.
LEMMA FencingStep ==
    ASSUME TypeOK, FencingInv, [Next]_vars
    PROVE  FencingInv'
  <1> USE DEF leases, evidence, dispatch, authority, account
  <1>1. ASSUME NEW r \in Run, CreateRun(r) PROVE FencingInv'
    BY <1>1 DEF CreateRun, FencingInv, TypeOK
  <1>2. CASE Authority
    BY <1>2 DEF Authority, RevokeTarget, RevokeObserver, RequestDeletion,
                CancelDeletion, FencingInv, TypeOK
  <1>3. ASSUME NEW d \in Dispatcher, ~LocalMode,
               \/ FetchPending(d) \/ AbortBatch(d) \/ MarkDispatched(d)
               \/ \E r \in Run : PrepareRejected(d, r)
        PROVE  FencingInv'
    BY <1>3 DEF FetchPending, AbortBatch, MarkDispatched, PrepareRejected,
                FencingInv, TypeOK
  <1>4. ASSUME NEW d \in Dispatcher, NEW r \in Run, ~LocalMode, PrepareDispatch(d, r)
        PROVE  FencingInv'
    <2>1. /\ status[r] # "NONE" /\ status'[r] # "NONE"
          /\ \A q \in Run \ {r} : status'[q] = status[q] /\ fence'[q] = fence[q]
                                  /\ revoked'[q] = revoked[q]
          /\ fence'[r] = fence[r] + 1 /\ revoked'[r] = 1..fence[r]
          /\ launched' = launched /\ executor' = executor
      BY <1>4 DEF PrepareDispatch, Superseded, TypeOK, Dispatchable
    <2>2. \A q \in Run : fence[q] \in Nat /\ fence'[q] \in Nat /\ fence'[q] >= fence[q]
      BY <2>1, FenceRange
    <2>3. \A q \in Run : /\ \A f \in 1..fence'[q] : f < fence'[q] => f \in revoked'[q]
                         /\ launched'[q] \subseteq 1..fence'[q]
                         /\ fence'[q] > 0 => status'[q] # "NONE"
      BY <2>1, <2>2 DEF FencingInv
    <2>4. \A c \in Dispatcher :
             hand'[c] # NoHand => hand'[c].fence <= fence'[hand'[c].run]
      <3> TAKE c \in Dispatcher
      <3>1. CASE c = d
        BY <1>4, <2>1, <2>2, <3>1 DEF PrepareDispatch, TypeOK
      <3>2. CASE c # d
        <4>1. hand'[c] = hand[c]
          BY <1>4, <3>2 DEF PrepareDispatch, TypeOK
        <4>2. hand[c] # NoHand => hand[c].run \in Run /\ hand[c].fence \in Nat
          BY Bounds DEF TypeOK, Fence
        <4> QED
          BY <2>2, <4>1, <4>2 DEF FencingInv
      <3> QED
        BY <3>1, <3>2
    <2> QED
      BY <1>4, <2>1, <2>3, <2>4 DEF FencingInv
  <1>5. ASSUME NEW d \in Dispatcher, ~LocalMode, LaunchJob(d) PROVE FencingInv'
    <2>1. /\ hand[d].run \in Run /\ hand[d].fence \in Fence /\ hand[d] # NoHand
      BY <1>5 DEF LaunchJob, TypeOK, NoHand
    <2>2. hand[d].fence \in 1..fence[hand[d].run]
      BY <2>1, FenceRange DEF FencingInv, Fence
    <2>3. /\ launched' = [launched EXCEPT ![hand[d].run] = @ \cup {hand[d].fence}]
          /\ UNCHANGED <<fence, revoked, status, executor>>
      BY <1>5 DEF LaunchJob
    <2>4. \A q \in Run : launched'[q] \subseteq 1..fence[q]
      BY <2>1, <2>2, <2>3 DEF FencingInv, TypeOK
    <2>5. /\ \A c \in Dispatcher \ {d} : hand'[c] = hand[c]
          /\ hand'[d].run = hand[d].run /\ hand'[d].fence = hand[d].fence
      BY <1>5, <2>1 DEF LaunchJob, TypeOK
    <2> QED
      BY <1>5, <2>1, <2>3, <2>4, <2>5 DEF FencingInv
  <1>6. ASSUME NEW r \in Run, Worker(r) PROVE FencingInv'
    <2> PICK f \in Fence : \/ Claim(r, f) \/ Renew(r, f) \/ Observe(r, f)
                           \/ Complete(r, f) \/ Fail(r, f)
      BY <1>6 DEF Worker
    <2>1. UNCHANGED <<fence, launched, hand, executor>>
      BY DEF Claim, Renew, Observe, Complete, Fail, EndLease
    <2>2. \A q \in Run : revoked[q] \subseteq revoked'[q]
      <3>1. CASE Claim(r, f) \/ Renew(r, f) \/ Observe(r, f)
        BY <3>1 DEF Claim, Renew, Observe
      <3>2. CASE Complete(r, f) \/ Fail(r, f)
        <4>1. revoked' = [revoked EXCEPT ![r] = @ \cup {f}]
          BY <3>2 DEF Complete, Fail, EndLease
        <4> QED
          BY <4>1 DEF TypeOK
      <3> QED
        BY <3>1, <3>2
    <2>3. \A q \in Run : status[q] # "NONE" => status'[q] # "NONE"
      BY DEF Claim, Renew, Observe, Complete, Fail, EndLease, TypeOK
    <2> QED
      BY <2>1, <2>2, <2>3 DEF FencingInv
  <1>7. ASSUME NEW r \in Run, Local(r) PROVE FencingInv'
    <2>1. UNCHANGED <<fence, launched, hand, revoked>> /\ executor[r] # "none"
      BY <1>7 DEF Local, LocalStart, LocalRecheck, LocalCapture, LocalComplete,
                  LocalFail, LocalEnd, LocalCrash
    <2>2. \A q \in Run : status[q] # "NONE" => status'[q] # "NONE"
      BY <1>7 DEF Local, LocalStart, LocalRecheck, LocalCapture, LocalComplete,
                  LocalFail, LocalEnd, LocalCrash, TypeOK
    <2> QED
      BY <2>1, <2>2 DEF FencingInv
  <1>8. ASSUME NEW r \in Run, RetireRoute(r) \/ RecoverCompletion(r) \/ LoseFinish(r)
        PROVE  FencingInv'
    BY <1>8 DEF RetireRoute, RecoverCompletion, LoseFinish, FencingInv, TypeOK
  <1>9. ASSUME NEW r \in Run, RetryUnclaimed(r) \/ TimeOut(r) PROVE FencingInv'
    <2>1. UNCHANGED <<fence, launched, hand, executor>>
      BY <1>9 DEF RetryUnclaimed, TimeOut
    <2>2. \A q \in Run : revoked[q] \subseteq revoked'[q]
                          \/ revoked'[q] = 1..fence[q]
      <3>1. \/ revoked' = [revoked EXCEPT ![r] = @ \cup {fence[r]}]
            \/ revoked' = [revoked EXCEPT ![r] = 1..fence[r]]
        BY <1>9 DEF RetryUnclaimed, TimeOut
      <3>2. \A q \in Run \ {r} : revoked'[q] = revoked[q]
        BY <3>1 DEF TypeOK
      <3>3. \/ revoked'[r] = revoked[r] \cup {fence[r]}
            \/ revoked'[r] = 1..fence[r]
        BY <3>1 DEF TypeOK
      <3> QED
        BY <3>2, <3>3
    <2>3. \A q \in Run : status[q] # "NONE" => status'[q] # "NONE"
      BY <1>9 DEF RetryUnclaimed, TimeOut, TypeOK
    <2> QED
      BY <2>1, <2>2, <2>3 DEF FencingInv
  <1>10. ASSUME NEW r \in Run, NEW o \in finishing[r], FinishRun(r, o)
         PROVE FencingInv'
    <2>1. /\ UNCHANGED <<fence, revoked, launched, hand, executor>>
          /\ \A q \in Run : status[q] # "NONE" => status'[q] # "NONE"
      <3>1. o \in Outcome
        BY DEF TypeOK
      <3>2. \A c \in BOOLEAN : ResultOf(r, o, c).execution_status # "NONE"
        BY <3>1, ResultType DEF Outcome, Terminal
      <3> QED
        BY <1>10, <3>2 DEF FinishRun, TypeOK
    <2> QED
      BY <2>1 DEF FencingInv
  <1>11. CASE Tick \/ UNCHANGED vars
    BY <1>11 DEF Tick, vars, FencingInv
  <1> QED
    BY <1>1, <1>2, <1>3, <1>4, <1>5, <1>6, <1>7, <1>8, <1>9, <1>10, <1>11
    DEF Next, Api, Launcher, Recovery, Finish

\* The phase of a run is kept by every step that does not touch the run.
LEMMA PhaseFrame ==
    ASSUME NEW q \in Run, RunPhase(q),
           status'[q] = status[q], fence'[q] = fence[q], claimed'[q] = claimed[q],
           revoked'[q] = revoked[q], executor'[q] = executor[q],
           captured'[q] = captured[q], completion'[q] = completion[q],
           finishing'[q] = finishing[q], outbox'[q] = outbox[q],
           q \in Settled' <=> q \in Settled
    PROVE  RunPhase(q)'
  BY DEF RunPhase

\* Claims, completions, captures and settlements appear only in the phase of a run
\* they belong to, whichever process takes the step.
LEMMA PhaseStep ==
    ASSUME TypeOK, FencingInv, PhaseInv, [Next]_vars
    PROVE  PhaseInv'
  <1> USE DEF leases, evidence, dispatch, authority, account
  <1>0. \A r \in Run : RunPhase(r)
    BY DEF PhaseInv
  <1>1. ASSUME NEW r \in Run, CreateRun(r) PROVE PhaseInv'
    <2>1. \A q \in Run \ {r} : RunPhase(q)'
      BY <1>0, <1>1, PhaseFrame DEF CreateRun, TypeOK, Settled
    <2>2. RunPhase(r)'
      BY <1>0, <1>1 DEF CreateRun, TypeOK, Settled, RunPhase, Begun, Terminal
    <2> QED
      BY <2>1, <2>2 DEF PhaseInv
  <1>2. CASE Authority
    <2>1. CASE RequestDeletion
      <3>1. /\ UNCHANGED <<status, result, fence, claimed, executor, captured,
                           completion, finishing>>
            /\ \A q \in Run : revoked'[q] = 1..fence[q]
            /\ \A q \in Run : outbox'[q] # "none" => outbox[q] # "none"
        BY <2>1 DEF RequestDeletion
      <3> SUFFICES ASSUME NEW q \in Run PROVE RunPhase(q)'
        BY DEF PhaseInv
      <3>2. completion[q] # {} => fence[q] \in 1..fence[q]
        <4>1. claimed[q] \subseteq Fence /\ fence[q] \in Nat
          BY FenceRange DEF TypeOK
        <4> QED
          BY <1>0, <4>1 DEF RunPhase, Fence
      <3> QED
        BY <1>0, <3>1, <3>2 DEF RunPhase, Settled
    <2>2. CASE \/ CancelDeletion
               \/ \E s \in Scope : RevokeTarget(s) \/ RevokeObserver(s)
      BY <1>0, <2>2, PhaseFrame
      DEF CancelDeletion, RevokeTarget, RevokeObserver, PhaseInv, Settled
    <2> QED
      BY <1>2, <2>1, <2>2 DEF Authority
  <1>3. ASSUME NEW d \in Dispatcher,
               \/ FetchPending(d) \/ AbortBatch(d) \/ LaunchJob(d)
               \/ \E r \in Run : PrepareRejected(d, r)
        PROVE  PhaseInv'
    BY <1>0, <1>3, PhaseFrame
    DEF FetchPending, AbortBatch, LaunchJob, PrepareRejected, PhaseInv, Settled
  <1>4. ASSUME NEW d \in Dispatcher, MarkDispatched(d) PROVE PhaseInv'
    <2>1. hand[d] # NoHand /\ hand[d].run \in Run /\ hand[d].fence >= 1
      BY <1>4 DEF MarkDispatched, TypeOK, NoHand, Fence
    <2> PICK r \in Run : r = hand[d].run
      BY <2>1
    <2>2. status[r] # "NONE"
      BY <2>1, FenceRange DEF FencingInv, TypeOK, Fence
    <2>3. /\ outbox' = [outbox EXCEPT ![r] = "delivered"]
          /\ UNCHANGED <<status, result, leases, evidence, finishing, executor>>
      BY <1>4 DEF MarkDispatched
    <2>4. \A q \in Run \ {r} : RunPhase(q)'
      BY <1>0, <2>3, PhaseFrame DEF TypeOK, Settled
    <2>5. RunPhase(r)'
      <3>1. RunPhase(r) /\ Settled' = Settled
        BY <1>0, <2>1, <2>3 DEF Settled
      <3>2. status'[r] # "NONE"
        BY <2>2, <2>3
      <3> QED
        BY <2>3, <3>1, <3>2 DEF RunPhase
    <2> QED
      BY <2>1, <2>4, <2>5 DEF PhaseInv
  <1>5. ASSUME NEW d \in Dispatcher, NEW r \in Run, PrepareDispatch(d, r)
        PROVE  PhaseInv'
    <2>1. status[r] \in {"QUEUED", "DISPATCHED"} /\ claimed[r] = {}
      BY <1>0, <1>5 DEF PrepareDispatch, Dispatchable, RunPhase, Begun, Terminal
    <2>2. \A q \in Run \ {r} : RunPhase(q)'
      BY <1>0, <1>5, PhaseFrame DEF PrepareDispatch, TypeOK, Settled
    <2>3. RunPhase(r)'
      BY <1>0, <1>5, <2>1
      DEF PrepareDispatch, TypeOK, Settled, RunPhase, Begun, Terminal
    <2> QED
      BY <2>2, <2>3 DEF PhaseInv
  <1>6. ASSUME NEW r \in Run, NEW f \in Fence, Claim(r, f) PROVE PhaseInv'
    <2>1. f = fence[r]
      BY <1>6, FenceRange DEF Claim, FencingInv, TypeOK
    <2>2. \A q \in Run \ {r} : RunPhase(q)'
      BY <1>0, <1>6, PhaseFrame DEF Claim, TypeOK, Settled
    <2>3. RunPhase(r)'
      BY <1>0, <1>6, <2>1 DEF Claim, TypeOK, Settled, RunPhase, Begun, Terminal
    <2> QED
      BY <2>2, <2>3 DEF PhaseInv
  <1>7. ASSUME NEW r \in Run, NEW f \in Fence, Renew(r, f) PROVE PhaseInv'
    BY <1>0, <1>7, PhaseFrame DEF Renew, PhaseInv, Settled
  <1>8. ASSUME NEW r \in Run, NEW f \in Fence, Observe(r, f) PROVE PhaseInv'
    <2>1. \A q \in Run \ {r} : RunPhase(q)'
      BY <1>0, <1>8, PhaseFrame DEF Observe, TypeOK, Settled
    <2>2. RunPhase(r)'
      BY <1>0, <1>8
      DEF Observe, LeaseAuthorized, TypeOK, Settled, RunPhase, Begun
    <2> QED
      BY <2>1, <2>2 DEF PhaseInv
  <1>9. ASSUME NEW r \in Run, NEW f \in Fence, Complete(r, f) \/ Fail(r, f)
        PROVE  PhaseInv'
    <2>1. PICK o : EndLease(r, f, o)
      BY <1>9 DEF Complete, Fail
    <2>2. \A q \in Run \ {r} : RunPhase(q)'
      BY <1>0, <2>1, PhaseFrame DEF EndLease, TypeOK, Settled
    <2>3. RunPhase(r)'
      <3>1. /\ claimed[r] = {fence[r]} /\ f = fence[r] /\ status[r] = "RUNNING"
        BY <1>0, <2>1 DEF EndLease, LeaseAuthorized, RunPhase
      <3>2. /\ UNCHANGED <<status, fence, claimed, result, outbox, executor, captured>>
            /\ f \in revoked'[r]
        BY <2>1 DEF EndLease, TypeOK
      <3> QED
        BY <1>0, <3>1, <3>2 DEF RunPhase, Begun, Settled
    <2> QED
      BY <2>2, <2>3 DEF PhaseInv
  <1>10. ASSUME NEW r \in Run, Local(r) PROVE PhaseInv'
    <2>1. \A q \in Run \ {r} : RunPhase(q)'
      BY <1>0, <1>10, PhaseFrame
      DEF Local, LocalStart, LocalRecheck, LocalCapture, LocalComplete, LocalFail,
          LocalEnd, LocalCrash, TypeOK, Settled
    <2>2. ASSUME LocalStart(r) PROVE RunPhase(r)'
      <3>1. LocalMode
        BY <2>2 DEF LocalStart, FencingInv
      <3>2. CASE status[r] = "QUEUED" /\ TargetAuthorized(r)
        BY <1>0, <2>2, <3>1, <3>2
        DEF LocalStart, TypeOK, Settled, RunPhase, Begun, Terminal
      <3>3. CASE ~(status[r] = "QUEUED" /\ TargetAuthorized(r))
        BY <1>0, <2>2, <3>3 DEF LocalStart, TypeOK, Settled, RunPhase
      <3> QED
        BY <3>2, <3>3
    <2>3. ASSUME LocalRecheck(r) \/ LocalCapture(r) \/ LocalCrash(r)
          PROVE  RunPhase(r)'
      BY <1>0, <2>3
      DEF LocalRecheck, LocalCapture, LocalCrash, TypeOK, Settled, RunPhase
    <2>4. ASSUME LocalComplete(r) \/ LocalFail(r) PROVE RunPhase(r)'
      <3>1. PICK o : LocalEnd(r, o) /\ status[r] \in Begun
        BY <1>0, <2>4 DEF LocalComplete, LocalFail, RunPhase
      <3>2. status[r] # "NONE"
        BY <3>1 DEF Begun, Terminal
      <3> QED
        BY <1>0, <3>1, <3>2 DEF LocalEnd, TypeOK, Settled, RunPhase
    <2>5. RunPhase(r)'
      BY <1>10, <2>2, <2>3, <2>4 DEF Local
    <2> QED
      BY <2>1, <2>5 DEF PhaseInv
  <1>11. ASSUME NEW r \in Run, RetireRoute(r) PROVE PhaseInv'
    <2>1. \A q \in Run \ {r} : RunPhase(q)'
      BY <1>0, <1>11, PhaseFrame DEF RetireRoute, TypeOK, Settled
    <2>2. RunPhase(r)'
      BY <1>0, <1>11 DEF RetireRoute, Reconcile, TypeOK, Settled, RunPhase, Terminal
    <2> QED
      BY <2>1, <2>2 DEF PhaseInv
  <1>12. ASSUME NEW r \in Run, RecoverCompletion(r) PROVE PhaseInv'
    <2>1. \A q \in Run \ {r} : RunPhase(q)'
      BY <1>0, <1>12, PhaseFrame DEF RecoverCompletion, TypeOK, Settled
    <2>2. RunPhase(r)'
      <3>1. PICK o \in completion[r] :
              finishing' = [finishing EXCEPT ![r] = @ \cup {o}]
        BY <1>12 DEF RecoverCompletion
      <3>2. /\ UNCHANGED <<status, result, outbox, leases, evidence, executor>>
            /\ outbox[r] # "none" /\ finishing'[r] = finishing[r] \cup {o}
        BY <1>12, <3>1 DEF RecoverCompletion, Reconcile, TypeOK
      <3> QED
        BY <1>0, <3>1, <3>2 DEF RunPhase, Settled
    <2> QED
      BY <2>1, <2>2 DEF PhaseInv
  <1>13. ASSUME NEW r \in Run, RetryUnclaimed(r) PROVE PhaseInv'
    <2>1. \A q \in Run \ {r} : RunPhase(q)'
      BY <1>0, <1>13, PhaseFrame DEF RetryUnclaimed, TypeOK, Settled
    <2>2. claimed[r] = {} /\ fence[r] > 0
      BY <1>0, <1>13 DEF RetryUnclaimed, Retryable, LeaseExpired, RunPhase
    <2>3. status[r] \notin Begun
      BY <1>0, <1>13, <2>2 DEF RetryUnclaimed, RunPhase, FencingInv, Begun
    <2>4. RunPhase(r)'
      BY <1>0, <1>13, <2>2, <2>3
      DEF RetryUnclaimed, TypeOK, Settled, RunPhase, Begun, Terminal
    <2> QED
      BY <2>1, <2>4 DEF PhaseInv
  <1>14. ASSUME NEW r \in Run, TimeOut(r) PROVE PhaseInv'
    <2>1. \A q \in Run \ {r} : RunPhase(q)'
      BY <1>0, <1>14, PhaseFrame DEF TimeOut, TypeOK, Settled
    <2>2. /\ UNCHANGED <<status, result, outbox, fence, claimed, evidence, executor>>
          /\ outbox[r] # "none" /\ completion[r] = {}
          /\ finishing'[r] = finishing[r] \cup {Unfinished("TIMEOUT")}
      BY <1>14 DEF TimeOut, Reconcile, TypeOK
    <2>3. RunPhase(r)'
      BY <1>0, <2>2 DEF RunPhase, Settled, Unfinished
    <2> QED
      BY <2>1, <2>3 DEF PhaseInv
  <1>15. ASSUME NEW r \in Run, NEW o \in finishing[r], FinishRun(r, o) PROVE PhaseInv'
    <2>1. finishing' = [finishing EXCEPT ![r] = @ \ {o}]
      BY <1>15 DEF FinishRun
    <2>2. UNCHANGED <<outbox, leases, evidence, executor>>
      BY <1>15 DEF FinishRun
    <2>3. CASE r \in Settled
      <3>1. UNCHANGED <<status, result>>
        BY <1>15, <2>3 DEF FinishRun, AlreadySettled
      <3> QED
        BY <1>0, <2>1, <2>2, <3>1 DEF RunPhase, PhaseInv, Settled, TypeOK
    <2>4. CASE r \notin Settled
      <3>1. PICK c \in BOOLEAN :
              LET res == ResultOf(r, o, c)
              IN  /\ result' = [q \in Settled \cup {r} |->
                                   IF q = r THEN res ELSE result[q]]
                  /\ status' = [status EXCEPT ![r] = res.execution_status]
        BY <1>15, <2>4 DEF FinishRun, AlreadySettled
      <3>2. ResultOf(r, o, c).execution_status \in Terminal
        <4>1. o \in Outcome
          BY DEF TypeOK
        <4> QED
          BY <4>1, ResultType DEF Outcome
      <3>3. /\ status'[r] \in Terminal /\ r \in Settled'
            /\ \A q \in Run \ {r} : /\ status'[q] = status[q]
                                    /\ q \in Settled' <=> q \in Settled
        BY <3>1, <3>2 DEF TypeOK, Settled
      <3>4. \A q \in Run \ {r} : RunPhase(q)'
        <4>1. \A q \in Run \ {r} : finishing'[q] = finishing[q]
          BY <2>1 DEF TypeOK
        <4>2. /\ fence' = fence /\ claimed' = claimed /\ revoked' = revoked
              /\ executor' = executor /\ captured' = captured
              /\ completion' = completion /\ outbox' = outbox
          BY <2>2
        <4> TAKE q \in Run \ {r}
        <4> QED
          BY <1>0, <3>3, <4>1, <4>2, PhaseFrame
      <3>5. RunPhase(r)'
        BY <1>0, <2>1, <2>2, <3>3 DEF RunPhase, Begun, Terminal, TypeOK
      <3> QED
        BY <3>4, <3>5 DEF PhaseInv
    <2> QED
      BY <2>3, <2>4
  <1>16. ASSUME NEW r \in Run, LoseFinish(r) PROVE PhaseInv'
    BY <1>0, <1>16 DEF LoseFinish, PhaseInv, RunPhase, TypeOK, Settled
  <1>17. CASE Tick \/ UNCHANGED vars
    BY <1>0, <1>17, PhaseFrame DEF Tick, vars, PhaseInv, Settled
  <1> QED
    BY <1>1, <1>2, <1>3, <1>4, <1>5, <1>6, <1>7, <1>8, <1>9, <1>10, <1>11, <1>12,
       <1>13, <1>14, <1>15, <1>16, <1>17
    DEF Next, Api, Launcher, Worker, Recovery, Finish

\* A step of finish_run for a run that is not settled, spelled out.
LEMMA FinishStep ==
    ASSUME TypeOK, NEW r \in Run, r \notin Settled,
           NEW o \in finishing[r], FinishRun(r, o)
    PROVE  \E c \in BOOLEAN :
              /\ Settled' = Settled \cup {r}
              /\ result'[r] = ResultOf(r, o, c)
              /\ status'[r] = o.execution_status
              /\ \A q \in Settled : result'[q] = result[q] /\ status'[q] = status[q]
              /\ status' = [status EXCEPT ![r] = o.execution_status]
              /\ reserved' = reserved - Units[r]
              /\ consumed' = consumed + ResultOf(r, o, c).units
  <1>1. PICK c \in BOOLEAN :
          LET res == ResultOf(r, o, c)
          IN  /\ result' = [q \in Settled \cup {r} |-> IF q = r THEN res ELSE result[q]]
              /\ status' = [status EXCEPT ![r] = res.execution_status]
              /\ reserved' = reserved - Release(r)
              /\ consumed' = consumed + res.units
    BY DEF FinishRun, AlreadySettled
  <1>2. o \in Outcome
    BY DEF TypeOK
  <1>3. ResultOf(r, o, c).execution_status = o.execution_status
    BY <1>2, ResultType
  <1>4. /\ Settled' = Settled \cup {r}
        /\ result'[r] = ResultOf(r, o, c)
        /\ \A q \in Settled : result'[q] = result[q]
    BY <1>1 DEF Settled
  <1>5. \A q \in Settled : status'[q] = status[q]
    BY <1>1 DEF TypeOK
  <1> QED
    BY <1>1, <1>3, <1>4, <1>5 DEF Release, TypeOK

\* Nothing about a settled run changes: not its result, its status, its captures
\* or the lease that was claimed for it.
LEMMA SettledStep ==
    ASSUME TypeOK, PhaseInv, [Next]_vars, NEW r \in Settled
    PROVE  /\ r \in Settled' /\ result'[r] = result[r] /\ status'[r] = status[r]
           /\ captured'[r] = captured[r] /\ claimed'[r] = claimed[r]
  <1> USE DEF leases, evidence, dispatch, authority, account
  <1> DEFINE Kept == /\ r \in Settled' /\ result'[r] = result[r]
                     /\ status'[r] = status[r] /\ captured'[r] = captured[r]
                     /\ claimed'[r] = claimed[r]
  <1>0. /\ r \in Run /\ status[r] \in Terminal
        /\ status[r] \notin {"NONE", "QUEUED", "DISPATCHED", "RUNNING"}
    BY DEF TypeOK, PhaseInv, RunPhase, Terminal
  <1>1. ASSUME NEW q \in Run, CreateRun(q) PROVE Kept
    BY <1>0, <1>1 DEF CreateRun, TypeOK, Settled
  <1>2. CASE Authority
    BY <1>2 DEF Authority, RevokeTarget, RevokeObserver, RequestDeletion,
                CancelDeletion, Settled
  <1>3. CASE Launcher
    <2>1. UNCHANGED <<result, captured, claimed>>
      BY <1>3 DEF Launcher, FetchPending, LaunchJob, MarkDispatched, AbortBatch,
                  PrepareDispatch, PrepareRejected
    <2>2. status'[r] = status[r]
      BY <1>0, <1>3 DEF Launcher, FetchPending, LaunchJob, MarkDispatched, AbortBatch,
                  PrepareDispatch, PrepareRejected, Dispatchable, TypeOK
    <2> QED
      BY <2>1, <2>2 DEF Settled
  <1>4. ASSUME NEW q \in Run, NEW f \in Fence,
               Claim(q, f) \/ Renew(q, f) \/ Observe(q, f)
        PROVE  Kept
    BY <1>0, <1>4 DEF Claim, Renew, Observe, LeaseAuthorized, Settled, TypeOK
  <1>5. ASSUME NEW q \in Run, NEW f \in Fence, Complete(q, f) \/ Fail(q, f)
        PROVE  Kept
    BY <1>5 DEF Complete, Fail, EndLease, Settled
  <1>6. ASSUME NEW q \in Run, Local(q) PROVE Kept
    <2>1. CASE LocalStart(q)
      BY <1>0, <2>1 DEF LocalStart, Settled, TypeOK
    <2>2. CASE LocalCapture(q)
      BY <1>0, <2>2 DEF LocalCapture, Settled, TypeOK
    <2>3. CASE LocalRecheck(q) \/ LocalComplete(q) \/ LocalFail(q) \/ LocalCrash(q)
      BY <2>3 DEF LocalRecheck, LocalComplete, LocalFail, LocalEnd, LocalCrash, Settled
    <2> QED
      BY <1>6, <2>1, <2>2, <2>3 DEF Local
  <1>7. ASSUME NEW q \in Run,
               RetireRoute(q) \/ RecoverCompletion(q) \/ TimeOut(q) \/ LoseFinish(q)
        PROVE  Kept
    BY <1>7 DEF RetireRoute, RecoverCompletion, TimeOut, LoseFinish, Settled
  <1>8. ASSUME NEW q \in Run, RetryUnclaimed(q) PROVE Kept
    BY <1>0, <1>8 DEF RetryUnclaimed, Settled, TypeOK
  <1>9. ASSUME NEW q \in Run, NEW o \in finishing[q], FinishRun(q, o) PROVE Kept
    <2>1. UNCHANGED <<captured, claimed>>
      BY <1>9 DEF FinishRun
    <2>2. CASE q \in Settled
      BY <1>9, <2>1, <2>2 DEF FinishRun, AlreadySettled, Settled
    <2>3. CASE q \notin Settled
      BY <1>9, <2>1, <2>3, FinishStep
    <2> QED
      BY <2>2, <2>3
  <1>10. CASE Tick \/ UNCHANGED vars
    BY <1>10 DEF Tick, vars, Settled
  <1> QED
    BY <1>1, <1>2, <1>3, <1>4, <1>5, <1>6, <1>7, <1>8, <1>9, <1>10
    DEF Next, Api, Worker, Recovery, Finish

\* A run that a step settles is settled by finish_run.
LEMMA SettledBy ==
    ASSUME TypeOK, [Next]_vars, NEW r \in Settled', r \notin Settled
    PROVE  r \in Run /\ \E o \in finishing[r] : FinishRun(r, o)
  <1> USE DEF leases, evidence, dispatch, authority, account
  <1>1. \/ \E q \in Run : \E o \in finishing[q] : FinishRun(q, o)
        \/ UNCHANGED result
    BY DEF Next, vars, Api, CreateRun, Authority, RevokeTarget, RevokeObserver,
           RequestDeletion, CancelDeletion, Launcher, FetchPending, LaunchJob,
           MarkDispatched, AbortBatch, PrepareDispatch, PrepareRejected, Worker,
           Claim, Renew, Observe, Complete, Fail, EndLease, Local, LocalStart,
           LocalRecheck, LocalCapture, LocalComplete, LocalFail, LocalEnd,
           LocalCrash, RetireRoute, Recovery, RecoverCompletion, RetryUnclaimed,
           TimeOut, Finish, LoseFinish, Tick
  <1>2. PICK q \in Run : \E o \in finishing[q] : FinishRun(q, o)
    BY <1>1 DEF Settled
  <1>3. q \notin Settled
    BY <1>2 DEF FinishRun, AlreadySettled, Settled
  <1>4. q = r
    BY <1>2, <1>3, FinishStep
  <1> QED
    BY <1>2, <1>4

\* Settlement charges what was started and keeps the failures that were captured.
LEMMA SettlementStep ==
    ASSUME TypeOK, FencingInv, PhaseInv, SettlementInv, [Next]_vars
    PROVE  SettlementInv'
  <1> SUFFICES ASSUME NEW r \in Settled'
               PROVE  /\ claimed'[r] # {} \/ captured'[r] # <<>>
                            => result'[r].units = Units[r]
                      /\ result'[r].units > 0 => claimed'[r] # {} \/ LocalMode
                      /\ FailureCaptured(r)' =>
                            /\ result'[r].security_verdict = "FAIL"
                            /\ result'[r].release_action = "BLOCK"
    BY DEF SettlementInv, ChargedIffStarted, FailurePreserved
  <1>1. CASE r \in Settled
    BY <1>1, SettledStep
    DEF SettlementInv, ChargedIffStarted, FailurePreserved, FailureCaptured
  <1>2. CASE r \notin Settled
    <2>1. PICK o \in finishing[r] : r \in Run /\ FinishRun(r, o)
      BY <1>2, SettledBy
    <2>2. PICK c \in BOOLEAN : result'[r] = ResultOf(r, o, c)
      BY <1>2, <2>1, FinishStep
    <2>3. claimed' = claimed /\ captured' = captured
      BY <2>1 DEF FinishRun, leases, evidence
    <2>4. RunPhase(r) /\ status[r] \notin Terminal
      BY <1>2, <2>1 DEF PhaseInv, RunPhase
    <2>5. result'[r].units = Charge(r, o)
      BY <2>2 DEF ResultOf
    <2>6. claimed[r] # {} \/ captured[r] # <<>> => Charge(r, o) = Units[r]
      BY <2>4 DEF RunPhase, Begun, Charge
    <2>7. Charge(r, o) > 0 => claimed[r] # {} \/ LocalMode
      BY <2>1, <2>4 DEF RunPhase, Begun, Charge
    <2>8. FailureCaptured(r) => FinalVerdict(r, o) = "FAIL"
      BY DEF FinalVerdict
    <2>9. FailureCaptured(r) => /\ result'[r].security_verdict = "FAIL"
                                /\ result'[r].release_action = "BLOCK"
      BY <2>2, <2>8 DEF ResultOf
    <2>10. FailureCaptured(r)' <=> FailureCaptured(r)
      BY <2>3 DEF FailureCaptured
    <2> QED
      BY <2>3, <2>5, <2>6, <2>7, <2>9, <2>10
  <1> QED
    BY <1>1, <1>2

\* The authority of a lease never outlasts its window: every renewal is granted
\* within the run limit, and time moves held up as it moves ttl down.
LEMMA WindowStep ==
    ASSUME TypeOK, FencingInv, PhaseInv, WindowInv, [Next]_vars
    PROVE  WindowInv'
  <1> USE DEF leases, evidence, dispatch, authority, account
  <1>0. \A r \in Live' : r \in Run /\ (r \in Live \/ claimed[r] = {})
    <2> TAKE r \in Live'
    <2>1. r \in Run /\ r \notin Settled
      BY SettledStep DEF Live, Created
    <2> QED
      BY <2>1 DEF Live, Created, PhaseInv, RunPhase, Begun, Terminal
  <1>1. ASSUME UNCHANGED <<claimed, ttl, held>> PROVE WindowInv'
    BY <1>0, <1>1 DEF WindowInv
  <1>2. ASSUME NEW d \in Dispatcher, NEW r \in Run, PrepareDispatch(d, r)
        PROVE  WindowInv'
    <2>1. claimed[r] = {} /\ UNCHANGED <<claimed, held>>
      BY <1>2 DEF PrepareDispatch, Dispatchable, PhaseInv, RunPhase, Begun, Terminal
    <2>2. \A q \in Run \ {r} : ttl'[q] = ttl[q]
      BY <1>2 DEF PrepareDispatch, TypeOK
    <2> QED
      BY <1>0, <2>1, <2>2 DEF WindowInv
  <1>3. ASSUME NEW r \in Run, NEW f \in Fence, Claim(r, f) PROVE WindowInv'
    <2>1. ttl'[r] = LeaseTTL /\ held'[r] = 0
      BY <1>3 DEF Claim, TypeOK
    <2>2. \A q \in Run \ {r} : /\ ttl'[q] = ttl[q] /\ held'[q] = held[q]
                               /\ claimed'[q] = claimed[q]
      BY <1>3 DEF Claim, TypeOK
    <2> QED
      BY <1>0, <2>1, <2>2, Bounds DEF WindowInv
  <1>4. ASSUME NEW r \in Run, NEW f \in Fence, Renew(r, f) PROVE WindowInv'
    <2>1. ttl'[r] = LeaseTTL /\ UNCHANGED <<held, claimed>>
      BY <1>4 DEF Renew, TypeOK
    <2>2. held[r] \in Nat /\ held[r] <= MaxRun
      BY <1>4 DEF Renew, Renewable, TypeOK
    <2>3. \A q \in Run \ {r} : ttl'[q] = ttl[q]
      BY <1>4 DEF Renew, TypeOK
    <2> QED
      BY <1>0, <2>1, <2>2, <2>3, Bounds DEF WindowInv
  <1>5. CASE Tick
    <2> SUFFICES ASSUME NEW r \in Live', claimed'[r] # {}, ttl'[r] > 0
                 PROVE  held'[r] + ttl'[r] <= MaxRun + LeaseTTL
      BY DEF WindowInv
    <2>1. r \in Live /\ r \in Run /\ claimed[r] # {}
      BY <1>0, <1>5 DEF Tick
    <2>2. ttl'[r] = Down(ttl[r]) /\ held'[r] = Up(held[r], MaxHeld)
      BY <1>5, <2>1 DEF Tick
    <2>3. ttl[r] \in Nat /\ held[r] \in Nat
      BY <2>1 DEF TypeOK
    <2>4. ttl[r] > 0 /\ ttl'[r] = ttl[r] - 1
      BY <2>2, <2>3 DEF Down
    <2>5. held[r] + ttl[r] <= MaxRun + LeaseTTL
      BY <2>1, <2>4 DEF WindowInv
    <2>6. held'[r] \in Nat /\ held'[r] <= held[r] + 1
      BY <2>2, <2>3, <2>4, <2>5, Bounds DEF Up, MaxHeld
    <2> QED
      BY <2>3, <2>4, <2>5, <2>6, Bounds
  <1>6. \/ UNCHANGED <<claimed, ttl, held>>
        \/ Tick
        \/ \E d \in Dispatcher, r \in Run : PrepareDispatch(d, r)
        \/ \E r \in Run, f \in Fence : Claim(r, f) \/ Renew(r, f)
    <2> DEFINE Still == UNCHANGED <<claimed, ttl, held>>
    <2>1. Authority \/ UNCHANGED vars => Still
      BY DEF Authority, RevokeTarget, RevokeObserver, RequestDeletion,
             CancelDeletion, vars
    <2>2. Launcher => Still \/ \E d \in Dispatcher, r \in Run : PrepareDispatch(d, r)
      BY DEF Launcher, FetchPending, LaunchJob, MarkDispatched, AbortBatch,
             PrepareRejected
    <2>3. ASSUME NEW r \in Run, Worker(r)
          PROVE  Still \/ \E f \in Fence : Claim(r, f) \/ Renew(r, f)
      BY <2>3 DEF Worker, Observe, Complete, Fail, EndLease
    <2>4. ASSUME NEW r \in Run, Api(r) \/ Local(r) PROVE Still
      BY <2>4 DEF Api, CreateRun, Local, LocalStart, LocalRecheck, LocalCapture,
                  LocalComplete, LocalFail, LocalEnd, LocalCrash
    <2>5. ASSUME NEW r \in Run, RetireRoute(r) \/ Recovery(r) \/ LoseFinish(r)
          PROVE  Still
      BY <2>5 DEF RetireRoute, Recovery, RecoverCompletion, RetryUnclaimed,
                  TimeOut, LoseFinish
    <2>6. ASSUME NEW r \in Run, Finish(r) PROVE Still
      BY <2>6 DEF Finish, FinishRun
    <2> QED
      BY <2>1, <2>2, <2>3, <2>4, <2>5, <2>6 DEF Next
  <1> QED
    BY <1>1, <1>2, <1>3, <1>4, <1>5, <1>6

-----------------------------------------------------------------------------
(* What a run may be allowed on *)

\* A set of samples evaluates to a clean verdict only if every one is clean.
LEMMA EvaluateAll ==
    ASSUME NEW samples \in Seq(Sample)
    PROVE  /\ Evaluate(samples).security_verdict = "PASS" =>
                 \A i \in DOMAIN samples : samples[i].security_verdict = "PASS"
           /\ Evaluate(samples).task_outcome = "SUCCESS" =>
                 \A i \in DOMAIN samples : samples[i].task_outcome = "SUCCESS"
           /\ Evaluate(samples).execution_status = "COMPLETED"
  <1>0. \A i \in DOMAIN samples : samples[i] \in Sample
    OBVIOUS
  <1>1. \A i \in DOMAIN samples : /\ samples[i].security_verdict \in Verdict
                                  /\ samples[i].task_outcome \in Task
    BY <1>0 DEF Sample
  <1> QED
    BY <1>1 DEF Evaluate, Verdict, Task

\* The evidence of a run whose captures, ends and executor a step leaves alone.
LEMMA EvidenceFrame ==
    ASSUME NEW q \in Run, RunEvidence(q), captured'[q] = captured[q],
           completion'[q] \subseteq completion[q], finishing'[q] \subseteq finishing[q],
           executor'[q] = "trial" => executor[q] = "trial"
    PROVE  RunEvidence(q)'
  BY DEF RunEvidence

\* A run that gains an end: an unfinished one, one already recorded, or the
\* evaluation of the captures it has.
LEMMA EvidenceGain ==
    ASSUME TypeOK, NEW q \in Run, RunEvidence(q), captured'[q] = captured[q], NEW o,
           completion'[q] \subseteq completion[q] \cup {o},
           finishing'[q] \subseteq finishing[q] \cup {o},
           executor'[q] = "trial" => executor[q] = "trial",
           \/ o \in Completions(q) \cup completion[q]
           \/ o.execution_status # "COMPLETED"
    PROVE  RunEvidence(q)'
  <1>1. q \in Streamed /\ o \in Completions(q) =>
           Len(captured[q]) = Slots /\ o = Evaluate(captured[q])
    BY DEF Completions
  <1> QED
    BY <1>1 DEF RunEvidence

\* A run that gains a capture had not ended with a complete set of them.
LEMMA EvidenceCapture ==
    ASSUME TypeOK, NEW q \in Run, RunEvidence(q), Len(captured[q]) < Slots,
           NEW t \in Trial, captured' = [captured EXCEPT ![q] = Append(@, t)],
           completion'[q] = completion[q], finishing'[q] = finishing[q],
           executor'[q] # "trial"
    PROVE  RunEvidence(q)'
  <1>1. /\ captured[q] \in Seq(Trial) /\ captured'[q] = Append(captured[q], t)
        /\ Slots \in Nat
    BY BoundAssumption DEF TypeOK
  <1>2. Len(captured'[q]) <= Slots
    BY <1>1
  <1>3. q \in Streamed => \A o \in completion[q] \cup finishing[q] :
           o.execution_status # "COMPLETED"
    BY <1>1 DEF RunEvidence
  <1> QED
    BY <1>2, <1>3 DEF RunEvidence

\* Captures stop when a run has ended its work, so that what it reported stays the
\* evaluation of everything it captured: a job observes only before its set is
\* complete, the local executor captures only after a recheck that found it so.
LEMMA EvidenceStep ==
    ASSUME TypeOK, FencingInv, PhaseInv, EvidenceInv, [Next]_vars
    PROVE  EvidenceInv'
  <1> USE DEF leases, evidence, dispatch, authority, account
  <1>0. \A q \in Run : RunEvidence(q)
    BY DEF EvidenceInv
  <1>1. ASSUME NEW r \in Run, CreateRun(r) PROVE EvidenceInv'
    BY <1>0, <1>1, EvidenceFrame DEF CreateRun, EvidenceInv, TypeOK
  <1>2. CASE Authority \/ Launcher \/ Tick \/ UNCHANGED vars
    <2>1. UNCHANGED <<captured, completion, finishing, executor>>
      BY <1>2 DEF Authority, RevokeTarget, RevokeObserver, RequestDeletion,
             CancelDeletion, Launcher, FetchPending, LaunchJob, MarkDispatched,
             AbortBatch, PrepareDispatch, PrepareRejected, Tick, vars
    <2> QED
      BY <1>0, <2>1, EvidenceFrame DEF EvidenceInv
  <1>3. ASSUME NEW r \in Run,
               \/ \E f \in Fence : Claim(r, f) \/ Renew(r, f)
               \/ RetireRoute(r) \/ RetryUnclaimed(r)
        PROVE  EvidenceInv'
    <2>1. UNCHANGED <<captured, completion, finishing, executor>>
      BY <1>3 DEF Claim, Renew, RetireRoute, RetryUnclaimed
    <2> QED
      BY <1>0, <2>1, EvidenceFrame DEF EvidenceInv
  <1>4. ASSUME NEW r \in Run, NEW f \in Fence, Observe(r, f) PROVE EvidenceInv'
    <2>1. PICK t \in Trial : captured' = [captured EXCEPT ![r] = Append(@, t)]
      BY <1>4 DEF Observe, TrialOf
    <2>2. /\ UNCHANGED <<completion, finishing, executor>>
          /\ Len(captured[r]) < Slots /\ f \in claimed[r] /\ status[r] = "RUNNING"
      BY <1>4 DEF Observe, LeaseAuthorized
    <2>3. \A q \in Run \ {r} : RunEvidence(q)'
      BY <1>0, <2>1, <2>2, EvidenceFrame DEF TypeOK
    <2>4. executor[r] # "trial"
      <3>1. f = fence[r] /\ f > 0
        BY <2>2, Bounds DEF PhaseInv, RunPhase, Fence
      <3> QED
        BY <3>1 DEF FencingInv
    <2>5. RunEvidence(r)'
      BY <1>0, <2>1, <2>2, <2>4, EvidenceCapture
    <2> QED
      BY <2>3, <2>5 DEF EvidenceInv
  <1>5. ASSUME NEW r \in Run, NEW f \in Fence, Complete(r, f) \/ Fail(r, f)
        PROVE  EvidenceInv'
    <2>1. PICK o : /\ EndLease(r, f, o)
                   /\ o \in Completions(r) \/ o = Unfinished("ERROR")
      BY <1>5 DEF Complete, Fail
    <2>2. /\ UNCHANGED <<captured, executor>>
          /\ completion' = [completion EXCEPT ![r] = @ \cup {o}]
          /\ finishing' = [finishing EXCEPT ![r] = @ \cup {o}]
      BY <2>1 DEF EndLease
    <2>3. \A q \in Run \ {r} : RunEvidence(q)'
      BY <1>0, <2>2, EvidenceFrame DEF TypeOK
    <2>4. o \in Completions(r) \/ o.execution_status # "COMPLETED"
      BY <2>1 DEF Unfinished
    <2>5. /\ completion'[r] = completion[r] \cup {o}
          /\ finishing'[r] = finishing[r] \cup {o}
      BY <2>2 DEF TypeOK
    <2>6. RunEvidence(r)'
      BY <1>0, <2>2, <2>4, <2>5, EvidenceGain
    <2> QED
      BY <2>3, <2>6 DEF EvidenceInv
  <1>6. ASSUME NEW r \in Run, LocalStart(r) \/ LocalCrash(r) PROVE EvidenceInv'
    <2>1. /\ UNCHANGED <<captured, completion, finishing>>
          /\ \A q \in Run : executor'[q] = "trial" => executor[q] = "trial"
      BY <1>6 DEF LocalStart, LocalCrash, TypeOK
    <2> QED
      BY <1>0, <2>1, EvidenceFrame DEF EvidenceInv
  <1>7. ASSUME NEW r \in Run, LocalRecheck(r) PROVE EvidenceInv'
    <2>1. /\ UNCHANGED <<captured, completion, finishing>>
          /\ executor' = [executor EXCEPT ![r] = "trial"]
          /\ Len(captured[r]) < Slots
      BY <1>7 DEF LocalRecheck
    <2>2. \A q \in Run \ {r} : RunEvidence(q)'
      BY <1>0, <2>1, EvidenceFrame DEF TypeOK
    <2>3. RunEvidence(r)'
      BY <1>0, <2>1 DEF RunEvidence
    <2> QED
      BY <2>2, <2>3 DEF EvidenceInv
  <1>8. ASSUME NEW r \in Run, LocalCapture(r) PROVE EvidenceInv'
    <2>1. PICK t \in Trial : captured' = [captured EXCEPT ![r] = Append(@, t)]
      BY <1>8 DEF LocalCapture, TrialOf
    <2>2. /\ UNCHANGED <<completion, finishing>>
          /\ executor' = [executor EXCEPT ![r] = "running"]
          /\ executor[r] = "trial"
      BY <1>8 DEF LocalCapture
    <2>3. \A q \in Run \ {r} : RunEvidence(q)'
      BY <1>0, <2>1, <2>2, EvidenceFrame DEF TypeOK
    <2>4. Len(captured[r]) < Slots /\ executor'[r] # "trial"
      BY <1>0, <2>2 DEF RunEvidence, TypeOK
    <2>5. RunEvidence(r)'
      BY <1>0, <2>1, <2>2, <2>4, EvidenceCapture
    <2> QED
      BY <2>3, <2>5 DEF EvidenceInv
  <1>9. ASSUME NEW r \in Run, LocalComplete(r) \/ LocalFail(r) PROVE EvidenceInv'
    <2>1. PICK o : /\ LocalEnd(r, o)
                   /\ o \in Completions(r) \/ o = Unfinished("ERROR")
      BY <1>9 DEF LocalComplete, LocalFail
    <2>2. /\ UNCHANGED <<captured, completion>>
          /\ executor' = [executor EXCEPT ![r] = "none"]
          /\ finishing' = [finishing EXCEPT ![r] = @ \cup {o}]
      BY <2>1 DEF LocalEnd
    <2>3. \A q \in Run \ {r} : RunEvidence(q)'
      BY <1>0, <2>2, EvidenceFrame DEF TypeOK
    <2>4. o \in Completions(r) \/ o.execution_status # "COMPLETED"
      BY <2>1 DEF Unfinished
    <2>5. finishing'[r] = finishing[r] \cup {o} /\ executor'[r] = "none"
      BY <2>2 DEF TypeOK
    <2>6. RunEvidence(r)'
      BY <1>0, <2>2, <2>4, <2>5, EvidenceGain
    <2> QED
      BY <2>3, <2>6 DEF EvidenceInv
  <1>10. ASSUME NEW r \in Run, RecoverCompletion(r) \/ TimeOut(r) PROVE EvidenceInv'
    <2>1. PICK o : /\ finishing' = [finishing EXCEPT ![r] = @ \cup {o}]
                   /\ o \in completion[r] \/ o = Unfinished("TIMEOUT")
      BY <1>10 DEF RecoverCompletion, TimeOut
    <2>2. UNCHANGED <<captured, completion, executor>>
      BY <1>10 DEF RecoverCompletion, TimeOut
    <2>3. \A q \in Run \ {r} : RunEvidence(q)'
      BY <1>0, <2>1, <2>2, EvidenceFrame DEF TypeOK
    <2>4. o \in completion[r] \/ o.execution_status # "COMPLETED"
      BY <2>1 DEF Unfinished
    <2>5. finishing'[r] = finishing[r] \cup {o}
      BY <2>1 DEF TypeOK
    <2>6. RunEvidence(r)'
      BY <1>0, <2>2, <2>4, <2>5, EvidenceGain
    <2> QED
      BY <2>3, <2>6 DEF EvidenceInv
  <1>11. ASSUME NEW r \in Run,
                LoseFinish(r) \/ \E o \in finishing[r] : FinishRun(r, o)
         PROVE  EvidenceInv'
    <2>1. /\ UNCHANGED <<captured, completion, executor>>
          /\ \A q \in Run : finishing'[q] \subseteq finishing[q]
      <3>1. CASE LoseFinish(r)
        BY <3>1 DEF LoseFinish, TypeOK
      <3>2. ASSUME NEW o \in finishing[r], FinishRun(r, o)
            PROVE  /\ UNCHANGED <<captured, completion, executor>>
                   /\ \A q \in Run : finishing'[q] \subseteq finishing[q]
        <4>1. /\ UNCHANGED <<captured, completion, executor>>
              /\ finishing' = [finishing EXCEPT ![r] = @ \ {o}]
          BY <3>2 DEF FinishRun
        <4> QED
          BY <4>1 DEF TypeOK
      <3> QED
        BY <1>11, <3>1, <3>2
    <2> QED
      BY <1>0, <2>1, EvidenceFrame DEF EvidenceInv
  <1> QED
    BY <1>1, <1>2, <1>3, <1>4, <1>5, <1>6, <1>7, <1>8, <1>9, <1>10, <1>11
    DEF Next, Api, Worker, Local, Recovery, Finish

\* What finish_run may allow a run on: the clean evaluation of a complete set.
LEMMA AllowedBy ==
    ASSUME TypeOK, EvidenceInv, NEW r \in Run, NEW o \in finishing[r],
           NEW c \in BOOLEAN, ResultOf(r, o, c).release_action = "ALLOW"
    PROVE  LET res == ResultOf(r, o, c)
           IN  /\ res.execution_status = "COMPLETED"
               /\ res.security_verdict = "PASS" /\ res.task_outcome = "SUCCESS"
               /\ r \in Observed => res.candidate_observed
               /\ r \in Streamed =>
                     LET e == Evaluate(captured[r])
                     IN  /\ Len(captured[r]) = Slots
                         /\ e.security_verdict = "PASS"
                         /\ e.task_outcome = "SUCCESS"
  <1>1. /\ FinalVerdict(r, o) = "PASS" /\ o.task_outcome = "SUCCESS"
        /\ o.execution_status = "COMPLETED"
        /\ r \in Observed => o.candidate_observed
    BY DEF ResultOf
  <1>2. o.security_verdict = "PASS"
    BY <1>1 DEF FinalVerdict
  <1>3. r \in Streamed => Len(captured[r]) = Slots /\ o = Evaluate(captured[r])
    BY <1>1 DEF EvidenceInv, RunEvidence
  <1>4. LET res == ResultOf(r, o, c)
        IN  /\ res.execution_status = o.execution_status
            /\ res.security_verdict = FinalVerdict(r, o)
            /\ res.task_outcome = o.task_outcome
            /\ res.candidate_observed = o.candidate_observed
    BY DEF ResultOf
  <1> QED
    BY <1>1, <1>2, <1>3, <1>4

\* Every run that is allowed was allowed on such a set, which then stays as it is.
LEMMA AllowedStep ==
    ASSUME TypeOK, PhaseInv, EvidenceInv, AllowedInv, [Next]_vars
    PROVE  AllowedInv'
  <1> SUFFICES ASSUME NEW r \in Settled', result'[r].release_action = "ALLOW"
               PROVE  /\ result'[r].execution_status = "COMPLETED"
                      /\ result'[r].security_verdict = "PASS"
                      /\ result'[r].task_outcome = "SUCCESS"
                      /\ r \in Observed => result'[r].candidate_observed
                      /\ r \in Streamed =>
                            LET e == Evaluate(captured'[r])
                            IN  /\ Len(captured'[r]) = Slots
                                /\ e.security_verdict = "PASS"
                                /\ e.task_outcome = "SUCCESS"
    BY DEF AllowedInv
  <1>1. CASE r \in Settled
    BY <1>1, SettledStep DEF AllowedInv
  <1>2. CASE r \notin Settled
    <2>1. PICK o \in finishing[r] : r \in Run /\ FinishRun(r, o)
      BY <1>2, SettledBy
    <2>2. PICK c \in BOOLEAN : result'[r] = ResultOf(r, o, c)
      BY <1>2, <2>1, FinishStep
    <2>3. captured' = captured
      BY <2>1 DEF FinishRun, evidence
    <2> QED
      BY <2>1, <2>2, <2>3, AllowedBy
  <1> QED
    BY <1>1, <1>2

\* Lifting a deletion request gives no target back: the request revoked them all,
\* and revocations are not undone.
LEMMA FreezeStep ==
    ASSUME TypeOK, FreezeInv, [Next]_vars
    PROVE  /\ FreezeInv'
           /\ targetRevoked \subseteq targetRevoked'
           /\ observerRevoked \subseteq observerRevoked'
  <1> USE DEF leases, evidence, dispatch, authority, account
  <1>1. CASE Authority
    BY <1>1 DEF Authority, RevokeTarget, RevokeObserver, RequestDeletion,
                CancelDeletion, RevokedByDeletion, FreezeInv, TypeOK
  <1>2. CASE UNCHANGED authority
    BY <1>2 DEF FreezeInv
  <1>3. \A r \in Run : \A o \in finishing[r] : FinishRun(r, o) => UNCHANGED authority
    BY DEF FinishRun
  <1>4. Authority \/ UNCHANGED authority
    BY <1>3 DEF Next, vars, Api, CreateRun, Launcher, FetchPending, LaunchJob,
           MarkDispatched, AbortBatch, PrepareDispatch, PrepareRejected, Worker,
           Claim, Renew, Observe, Complete, Fail, EndLease, Local, LocalStart,
           LocalRecheck, LocalCapture, LocalComplete, LocalFail, LocalEnd,
           LocalCrash, RetireRoute, Recovery, RecoverCompletion, RetryUnclaimed,
           TimeOut, Finish, LoseFinish, Tick
  <1> QED
    BY <1>1, <1>2, <1>4

\* Captures are only added.
LEMMA CapturedStep ==
    ASSUME TypeOK, [Next]_vars, NEW q \in Run
    PROVE  \/ captured'[q] = captured[q]
           \/ \E t \in Trial : captured'[q] = Append(captured[q], t)
  <1> USE DEF leases, evidence, dispatch, authority, account
  <1>1. ASSUME NEW r \in Run, NEW t \in TrialOf(r),
               captured' = [captured EXCEPT ![r] = Append(@, t)]
        PROVE  \/ captured'[q] = captured[q]
               \/ \E u \in Trial : captured'[q] = Append(captured[q], u)
    BY <1>1 DEF TrialOf, TypeOK
  <1>2. \A r \in Run : \A o \in finishing[r] : FinishRun(r, o) => UNCHANGED captured
    BY DEF FinishRun
  <1>3. \/ UNCHANGED captured
        \/ \E r \in Run : \E t \in TrialOf(r) :
              captured' = [captured EXCEPT ![r] = Append(@, t)]
    BY <1>2 DEF Next, vars, Api, CreateRun, Authority, RevokeTarget, RevokeObserver,
           RequestDeletion, CancelDeletion, Launcher, FetchPending, LaunchJob,
           MarkDispatched, AbortBatch, PrepareDispatch, PrepareRejected, Worker,
           Claim, Renew, Observe, Complete, Fail, EndLease, Local, LocalStart,
           LocalRecheck, LocalCapture, LocalComplete, LocalFail, LocalEnd,
           LocalCrash, RetireRoute, Recovery, RecoverCompletion, RetryUnclaimed,
           TimeOut, Finish, LoseFinish, Tick
  <1> QED
    BY <1>1, <1>3

\* A confirmed failure stays one, so that the runs it is adverse to stay blocked.
LEMMA AdverseStep ==
    ASSUME TypeOK, [Next]_vars, NEW r, AdverseRuns(r) # {}
    PROVE  AdverseRuns(r)' # {}
  <1>1. PICK q \in (Observed \ Qualifying) \ {r} :
           scopeOf[q] = scopeOf[r] /\ ConfirmedFailure(q)
    BY DEF AdverseRuns
  <1>2. q \in Run /\ captured[q] \in Seq(Trial)
    BY RunAssumption DEF TypeOK
  <1>3. PICK i \in DOMAIN captured[q] : /\ captured[q][i].security_verdict = "FAIL"
                                        /\ captured[q][i].candidate_observed
    BY <1>1 DEF ConfirmedFailure
  <1>4. ASSUME NEW t \in Trial, captured'[q] = Append(captured[q], t)
        PROVE  i \in DOMAIN captured'[q] /\ captured'[q][i] = captured[q][i]
    BY <1>2, <1>4
  <1>5. i \in DOMAIN captured'[q] /\ captured'[q][i] = captured[q][i]
    BY <1>2, <1>4, CapturedStep
  <1>6. ConfirmedFailure(q)'
    BY <1>3, <1>5 DEF ConfirmedFailure
  <1> QED
    BY <1>1, <1>6 DEF AdverseRuns

LEMMA ReleaseInit == Init => ReleaseInv
  <1> SUFFICES ASSUME Init PROVE ReleaseInv
    OBVIOUS
  <1>1. EvidenceInv
    BY BoundAssumption DEF Init, EvidenceInv, RunEvidence
  <1>2. AllowedInv /\ FreezeInv
    BY DEF Init, AllowedInv, Settled, FreezeInv
  <1> QED
    BY <1>1, <1>2 DEF ReleaseInv

-----------------------------------------------------------------------------
(* The theorems *)

\* The strengthening holds in every reachable state.
THEOREM Invariance == Spec => [](TypeOK /\ IInv)
  <1>1. Init => TypeOK /\ IInv
    BY TypeInit, InvInit
  <1>2. TypeOK /\ IInv /\ [Next]_vars => (TypeOK /\ IInv)'
    BY TypeStep, FencingStep, PhaseStep, SettlementStep, WindowStep DEF IInv
  <1> QED
    BY <1>1, <1>2, PTL DEF Spec

\* At most one lease of a run is ever claimed, and it is the newest one.
THEOREM ExecutedOnceAlways == Spec => []ExecutedOnce
  <1>1. TypeOK /\ IInv => ExecutedOnce
    BY DEF IInv, PhaseInv, RunPhase, ExecutedOnce
  <1> QED
    BY <1>1, Invariance, PTL

\* A lease that is not revoked is the newest of its run, and the run has not ended.
THEOREM FencingAlways == Spec => []OnlyNewestLeaseUsable
  <1>1. ASSUME TypeOK, IInv PROVE OnlyNewestLeaseUsable
    <2> SUFFICES ASSUME NEW r \in Run, NEW f \in 1..fence[r], f \notin revoked[r]
                 PROVE  f = fence[r] /\ completion[r] = {}
      BY DEF OnlyNewestLeaseUsable
    <2>1. f = fence[r]
      BY <1>1, FenceRange DEF IInv, FencingInv
    <2> QED
      BY <1>1, <2>1 DEF IInv, PhaseInv, RunPhase
  <1> QED
    BY <1>1, Invariance, PTL

\* A usable claimed lease is never older than the run limit plus one renewal.
THEOREM AuthorityWindowAlways == Spec => []AuthorityWindow
  <1>1. ASSUME TypeOK, IInv PROVE AuthorityWindow
    <2> SUFFICES ASSUME NEW r \in Live, NEW f \in claimed[r] \ revoked[r],
                        Unexpired(r, f)
                 PROVE  held[r] <= MaxRun + LeaseTTL
      BY DEF AuthorityWindow
    <2>1. r \in Run /\ f = fence[r]
      BY <1>1 DEF IInv, PhaseInv, RunPhase, Live, Created
    <2>2. ttl[r] > 0 /\ ttl[r] \in Nat /\ held[r] \in Nat
      BY <1>1, <2>1 DEF Unexpired, TypeOK
    <2>3. held[r] + ttl[r] <= MaxRun + LeaseTTL
      BY <1>1, <2>2 DEF IInv, WindowInv
    <2> QED
      BY <2>2, <2>3, Bounds
  <1> QED
    BY <1>1, Invariance, PTL

\* A settled run is charged if and only if its work began.
THEOREM ChargedIffStartedAlways == Spec => []ChargedIffStarted
  <1>1. IInv => ChargedIffStarted
    BY DEF IInv, SettlementInv
  <1> QED
    BY <1>1, Invariance, PTL

\* A captured failure is in the result of its run, however the run ends.
THEOREM FailurePreservedAlways == Spec => []FailurePreserved
  <1>1. IInv => FailurePreserved
    BY DEF IInv, SettlementInv
  <1> QED
    BY <1>1, Invariance, PTL

\* No step changes the result, the status or the captures of a settled run.
THEOREM SettledForGood == Spec => SettledIsFinal
  <1>1. TypeOK /\ IInv /\ [Next]_vars =>
           [\A r \in Settled : /\ result'[r] = result[r]
                               /\ status'[r] = status[r]
                               /\ captured'[r] = captured[r]]_vars
    BY SettledStep DEF IInv
  <1> QED
    BY <1>1, Invariance, PTL DEF Spec, SettledIsFinal

\* The evidence behind a release action is kept in every reachable state.
THEOREM ReleaseInvariance == Spec => []ReleaseInv
  <1>1. Init => ReleaseInv
    BY ReleaseInit
  <1>2. TypeOK /\ IInv /\ ReleaseInv /\ [Next]_vars => ReleaseInv'
    BY EvidenceStep, AllowedStep, FreezeStep DEF IInv, ReleaseInv
  <1> QED
    BY <1>1, <1>2, Invariance, PTL DEF Spec

\* GET /v1/runs shows ALLOW only for a complete set of clean samples, under current
\* authority, and while no run of the scope holds a confirmed failure.
THEOREM AllowIsSoundAlways == Spec => []AllowIsSound
  <1>1. ASSUME TypeOK, ReleaseInv PROVE AllowIsSound
    <2> SUFFICES ASSUME NEW r \in Run, CurrentAction(r) = "ALLOW"
                 PROVE  /\ result[r].execution_status = "COMPLETED" /\ Authorized(r)
                        /\ result[r].security_verdict = "PASS"
                        /\ result[r].task_outcome = "SUCCESS"
                        /\ r \in Streamed =>
                              /\ Len(captured[r]) = Slots
                              /\ \A i \in 1..Slots :
                                    /\ captured[r][i].security_verdict = "PASS"
                                    /\ captured[r][i].task_outcome = "SUCCESS"
                        /\ r \in Observed =>
                              \A q \in Observed \ (Qualifying \cup {r}) :
                                 scopeOf[q] = scopeOf[r] => ~ConfirmedFailure(q)
      BY DEF AllowIsSound
    <2>1. /\ r \in Settled /\ result[r].release_action = "ALLOW"
          /\ Authorized(r) /\ ~HistoryBlocked(r, result[r])
      BY DEF CurrentAction
    <2>2. /\ result[r].execution_status = "COMPLETED"
          /\ result[r].security_verdict = "PASS" /\ result[r].task_outcome = "SUCCESS"
          /\ r \in Observed => result[r].candidate_observed
          /\ r \in Streamed => LET e == Evaluate(captured[r])
                               IN  /\ Len(captured[r]) = Slots
                                   /\ e.security_verdict = "PASS"
                                   /\ e.task_outcome = "SUCCESS"
      BY <1>1, <2>1 DEF ReleaseInv, AllowedInv
    <2>3. captured[r] \in Seq(Sample)
      <3>1. captured[r] \in Seq(Trial) /\ Trial \subseteq Sample
        BY <1>1, BoundAssumption DEF TypeOK
      <3> QED
        BY <3>1
    <2>4. r \in Streamed =>
            \A i \in 1..Slots : /\ captured[r][i].security_verdict = "PASS"
                                /\ captured[r][i].task_outcome = "SUCCESS"
      BY <2>2, <2>3, EvaluateAll
    <2>5. r \in Observed => AdverseRuns(r) = {}
      BY <2>1, <2>2 DEF HistoryBlocked
    <2> QED
      BY <2>1, <2>2, <2>4, <2>5 DEF AdverseRuns
  <1> QED
    BY <1>1, Invariance, ReleaseInvariance, PTL

\* A run shown as BLOCK stays so: failures, lost authority and the result itself are
\* never taken back.
THEOREM BlockedForGood == Spec => BlockIsForever
  <1>1. ASSUME TypeOK, IInv, ReleaseInv, [Next]_vars, NEW r \in Run,
               r \in Settled, CurrentAction(r) = "BLOCK"
        PROVE  CurrentAction(r)' = "BLOCK"
    <2>1. r \in Settled' /\ result'[r] = result[r]
      BY <1>1, SettledStep DEF IInv
    <2>2. HistoryBlocked(r, result[r]) => HistoryBlocked(r, result[r])'
      BY <1>1, <2>1, AdverseStep DEF HistoryBlocked
    <2>3. ~Authorized(r) => ~Authorized(r)'
      <3>1. scopeOf[r] \in Scope
        BY RunAssumption
      <3>2. ~TargetAuthorized(r) => scopeOf[r] \in targetRevoked
        BY <1>1, <3>1 DEF TargetAuthorized, ReleaseInv, FreezeInv
      <3> QED
        BY <1>1, <3>2, FreezeStep DEF Authorized, TargetAuthorized, ReleaseInv
    <2> QED
      BY <1>1, <2>1, <2>2, <2>3 DEF CurrentAction
  <1>2. TypeOK /\ IInv /\ ReleaseInv /\ [Next]_vars =>
           [\A r \in Run : (r \in Settled /\ CurrentAction(r) = "BLOCK")
                               => CurrentAction(r)' = "BLOCK"]_vars
    BY <1>1
  <1> QED
    BY <1>2, Invariance, ReleaseInvariance, PTL DEF Spec, BlockIsForever

-----------------------------------------------------------------------------
(* The ledger *)

\* Where a run stands for its account, from its status alone.
LEMMA PhaseIs ==
    ASSUME NEW r \in Run, RunPhase(r)
    PROVE  /\ phase[r] = IF r \in Settled THEN "settled"
                         ELSE IF status[r] = "NONE" THEN "absent"
                         ELSE IF status[r] = "RUNNING" THEN "started" ELSE "reserved"
           /\ charge[r] = IF r \in Settled THEN result[r].units ELSE 0
           /\ DOMAIN phase = Run /\ DOMAIN charge = Run
  BY DEF phase, charge

\* A step that leaves the status, the result and the account alone is a stutter of
\* the ledger.
LEMMA LedgerStutter ==
    ASSUME UNCHANGED <<status, result, reserved, consumed>>
    PROVE  UNCHANGED <<phase, charge, reserved, consumed>>
  BY DEF phase, charge, Settled

\* A step that moves one run between stages without charging it.
LEMMA LedgerMove ==
    ASSUME NEW r \in Run, TypeOK, UNCHANGED result, r \notin Settled,
           NEW to \in {"QUEUED", "DISPATCHED", "RUNNING"},
           status' = [status EXCEPT ![r] = to]
    PROVE  /\ phase' = [phase EXCEPT ![r] = IF to = "RUNNING" THEN "started"
                                            ELSE "reserved"]
           /\ charge' = charge
  <1>1. /\ status'[r] = to /\ \A q \in Run \ {r} : status'[q] = status[q]
        /\ Settled' = Settled
    BY DEF TypeOK, Settled
  <1>2. \A q \in Run \ {r} : phase'[q] = phase[q]
    BY <1>1 DEF phase
  <1>3. phase'[r] = IF to = "RUNNING" THEN "started" ELSE "reserved"
    BY <1>1 DEF phase
  <1>4. charge' = charge
    BY <1>1 DEF charge
  <1>5. phase = [q \in Run |-> phase[q]] /\ phase' = [q \in Run |-> phase'[q]]
    BY DEF phase
  <1> QED
    BY <1>2, <1>3, <1>4, <1>5

\* The initial states of the protocol are those of the ledger.
LEMMA LedgerInitMaps == Init => Ledger!LedgerInit
  BY DEF Init, Ledger!LedgerInit, phase, charge, Settled

\* Every step of the protocol is a step of the ledger or leaves it alone: creating
\* a run reserves, the claim or the local executor starts, finish_run settles.
LEMMA LedgerStep ==
    ASSUME TypeOK, FencingInv, PhaseInv, [Next]_vars
    PROVE  [Ledger!LedgerNext]_(Ledger!ledgerVars)
  <1> USE DEF leases, evidence, dispatch, authority, account
  <1> DEFINE Goal == \/ \E r \in Run : \/ Ledger!Reserve(r) \/ Ledger!Start(r)
                                       \/ Ledger!Settle(r)
                     \/ UNCHANGED <<phase, charge, reserved, consumed>>
  <1> SUFFICES Goal
    BY DEF Ledger!LedgerNext, Ledger!ledgerVars
  <1>0. \A r \in Run : RunPhase(r)
    BY DEF PhaseInv
  <1>1. ASSUME NEW r \in Run, CreateRun(r) PROVE Goal
    <2>1. r \notin Settled /\ phase[r] = "absent"
      BY <1>0, <1>1, PhaseIs DEF CreateRun, RunPhase, Terminal
    <2>2. /\ phase' = [phase EXCEPT ![r] = "reserved"] /\ charge' = charge
      BY <1>1, <2>1, LedgerMove DEF CreateRun
    <2>3. reserved + consumed + Units[r] <= Limit
      BY <1>1, Bounds DEF CreateRun, WithinBudget, TypeOK
    <2>4. Ledger!Reserve(r)
      BY <1>1, <2>1, <2>2, <2>3 DEF CreateRun, Ledger!Reserve
    <2> QED
      BY <2>4
  <1>2. CASE Authority
    BY <1>2, LedgerStutter DEF Authority, RevokeTarget, RevokeObserver,
                               RequestDeletion, CancelDeletion
  <1>3. ASSUME NEW d \in Dispatcher,
               \/ FetchPending(d) \/ AbortBatch(d) \/ LaunchJob(d) \/ MarkDispatched(d)
               \/ \E r \in Run : PrepareRejected(d, r)
        PROVE  Goal
    BY <1>3, LedgerStutter DEF FetchPending, AbortBatch, LaunchJob, MarkDispatched,
                               PrepareRejected
  <1>4. ASSUME NEW d \in Dispatcher, NEW r \in Run, PrepareDispatch(d, r) PROVE Goal
    <2>1. r \notin Settled /\ phase[r] = "reserved"
      BY <1>0, <1>4, PhaseIs DEF PrepareDispatch, Dispatchable, RunPhase, Terminal
    <2>2. phase' = [phase EXCEPT ![r] = "reserved"] /\ charge' = charge
      BY <1>4, <2>1, LedgerMove DEF PrepareDispatch
    <2>3. phase' = phase
      BY <2>1, <2>2 DEF phase
    <2> QED
      BY <1>4, <2>2, <2>3 DEF PrepareDispatch
  <1>5. ASSUME NEW r \in Run, NEW f \in Fence, Claim(r, f) PROVE Goal
    <2>1. r \notin Settled /\ phase[r] = "reserved"
      BY <1>0, <1>5, PhaseIs DEF Claim
    <2>2. phase' = [phase EXCEPT ![r] = "started"] /\ charge' = charge
      BY <1>5, <2>1, LedgerMove DEF Claim
    <2> QED
      BY <1>5, <2>1, <2>2 DEF Claim, Ledger!Start
  <1>6. ASSUME NEW r \in Run, NEW f \in Fence,
               Renew(r, f) \/ Observe(r, f) \/ Complete(r, f) \/ Fail(r, f)
        PROVE  Goal
    BY <1>6, LedgerStutter DEF Renew, Observe, Complete, Fail, EndLease
  <1>7. ASSUME NEW r \in Run, LocalStart(r) PROVE Goal
    <2>1. CASE status[r] = "QUEUED" /\ TargetAuthorized(r)
      <3>1. r \notin Settled /\ phase[r] = "reserved"
        BY <1>0, <2>1, PhaseIs DEF RunPhase, Terminal
      <3>2. phase' = [phase EXCEPT ![r] = "started"] /\ charge' = charge
        BY <1>7, <2>1, <3>1, LedgerMove DEF LocalStart
      <3> QED
        BY <1>7, <3>1, <3>2 DEF LocalStart, Ledger!Start
    <2>2. CASE ~(status[r] = "QUEUED" /\ TargetAuthorized(r))
      BY <1>7, <2>2, LedgerStutter DEF LocalStart
    <2> QED
      BY <2>1, <2>2
  <1>8. ASSUME NEW r \in Run,
               \/ LocalRecheck(r) \/ LocalCapture(r) \/ LocalComplete(r)
               \/ LocalFail(r) \/ LocalCrash(r)
        PROVE  Goal
    BY <1>8, LedgerStutter DEF LocalRecheck, LocalCapture, LocalComplete, LocalFail,
                               LocalEnd, LocalCrash
  <1>9. ASSUME NEW r \in Run,
               \/ RetireRoute(r) \/ RecoverCompletion(r) \/ TimeOut(r)
               \/ LoseFinish(r)
        PROVE  Goal
    BY <1>9, LedgerStutter DEF RetireRoute, RecoverCompletion, TimeOut, LoseFinish
  <1>10. ASSUME NEW r \in Run, RetryUnclaimed(r) PROVE Goal
    <2>1. r \notin Settled /\ status[r] # "RUNNING" /\ status[r] # "NONE"
      BY <1>0, <1>10 DEF RetryUnclaimed, Retryable, LeaseExpired, Reconcile,
                         RunPhase, FencingInv
    <2>2. phase[r] = "reserved"
      BY <1>0, <2>1, PhaseIs
    <2>3. phase' = [phase EXCEPT ![r] = "reserved"] /\ charge' = charge
      BY <1>10, <2>1, LedgerMove DEF RetryUnclaimed
    <2>4. phase' = phase
      BY <2>2, <2>3 DEF phase
    <2> QED
      BY <1>10, <2>3, <2>4 DEF RetryUnclaimed
  <1>11. ASSUME NEW r \in Run, NEW o \in finishing[r], FinishRun(r, o) PROVE Goal
    <2>1. CASE r \in Settled
      BY <1>11, <2>1, LedgerStutter DEF FinishRun, AlreadySettled
    <2>2. CASE r \notin Settled
      <3> DEFINE due == IF phase[r] = "started" THEN Units[r] ELSE 0
      <3>1. PICK c \in BOOLEAN :
              /\ Settled' = Settled \cup {r}
              /\ result'[r] = ResultOf(r, o, c)
              /\ status' = [status EXCEPT ![r] = o.execution_status]
              /\ \A q \in Settled : result'[q] = result[q]
              /\ reserved' = reserved - Units[r]
              /\ consumed' = consumed + ResultOf(r, o, c).units
        BY <1>11, <2>2, FinishStep
      <3>2. status[r] # "NONE" /\ (o.execution_status = "COMPLETED" => status[r] = "RUNNING")
        BY <1>0, <2>2 DEF RunPhase, Begun
      <3>3. phase[r] = IF status[r] = "RUNNING" THEN "started" ELSE "reserved"
        BY <1>0, <2>2, <3>2, PhaseIs
      <3>4. ResultOf(r, o, c).units = due
        BY <3>2, <3>3 DEF ResultOf, Charge
      <3>5. \A q \in Run \ {r} : phase'[q] = phase[q] /\ charge'[q] = charge[q]
        <4>1. \A q \in Run \ {r} : status'[q] = status[q]
          BY <3>1 DEF TypeOK
        <4> QED
          BY <3>1, <4>1 DEF phase, charge
      <3>6. phase'[r] = "settled" /\ charge'[r] = due
        BY <3>1, <3>4 DEF phase, charge
      <3>7. /\ phase' = [phase EXCEPT ![r] = "settled"]
            /\ charge' = [charge EXCEPT ![r] = due]
        <4>1. /\ phase = [q \in Run |-> phase[q]] /\ phase' = [q \in Run |-> phase'[q]]
              /\ charge = [q \in Run |-> charge[q]]
              /\ charge' = [q \in Run |-> charge'[q]]
          BY DEF phase, charge
        <4> HIDE DEF due
        <4> QED
          BY <3>5, <3>6, <4>1
      <3>8. Ledger!Settle(r)
        BY <3>1, <3>3, <3>4, <3>7 DEF Ledger!Settle
      <3> QED
        BY <3>8
    <2> QED
      BY <2>1, <2>2
  <1>12. CASE Tick \/ UNCHANGED vars
    BY <1>12, LedgerStutter DEF Tick, vars
  <1> QED
    BY <1>1, <1>2, <1>3, <1>4, <1>5, <1>6, <1>7, <1>8, <1>9, <1>10, <1>11, <1>12
    DEF Next, Api, Launcher, Worker, Local, Recovery, Finish

\* For the account, the protocol is the ledger.
THEOREM LedgerImplemented == Spec => ImplementsLedger
  <1>1. TypeOK /\ IInv /\ [Next]_vars => [Ledger!LedgerNext]_(Ledger!ledgerVars)
    BY LedgerStep DEF IInv
  <1> QED
    BY <1>1, LedgerInitMaps, Invariance, PTL
    DEF Spec, ImplementsLedger, Ledger!LedgerSpec
=============================================================================
