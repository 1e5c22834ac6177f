------------------------------- MODULE Erasure -------------------------------
(***************************************************************************)
(* Raw evidence on the local disk and its end: captures that store it      *)
(* (captures.py, evidence_storage.py), its retention, and the erasure of   *)
(* an organization by an operator (erasure.py), which crosses the file     *)
(* system and the database and may stop anywhere.                          *)
(*                                                                         *)
(* Operators exclude each other by a file lock; captures, requests and     *)
(* erasures exclude each other by the rows of the systems and the account. *)
(***************************************************************************)
EXTENDS Integers, FiniteSets

CONSTANTS
    Object,      \* raw objects: a run and the digest of an observation
    Request,     \* erasure requests, numbered in the order they are made
    NoObject

VARIABLES
    organization, \* it exists
    disk,         \* objects that are stored
    captured,     \* objects that trial_capture records refer to; kept when these are gone
    expired,      \* objects past the retention of their captures, or of orphans
    writing,      \* the object that a capture has stored and not yet committed
    requests,     \* erasure requests so far
    cancelled,    \* those that were cancelled
    report,       \* the manifest of each request
    operator      \* what the operator that holds the file lock is doing

erasureVars == <<organization, disk, captured, expired, writing, requests, cancelled, report,
                 operator>>

NoReport == [status |-> "none", objects |-> {}]
Away == [at |-> "away", request |-> NoObject, objects |-> {}]

ErasureInit ==
    /\ organization = TRUE
    /\ disk = {} /\ captured = {} /\ expired = {}
    /\ writing = NoObject
    /\ requests = 0 /\ cancelled = {}
    /\ report = [r \in Request |-> NoReport]
    /\ operator = Away

\* pending_deletion
Pending(r) == r \in 1..requests /\ r \notin cancelled
Frozen == \E r \in Request : Pending(r)
\* Fault: an operator does not lock the systems and the account.
Unlocked == TRUE
\* The rows are locked by nobody: an operator holds them from writing the manifest to
\* the commit, a capture while it stores its object.
RowsFree == writing = NoObject /\ operator.at # "prepared"

-----------------------------------------------------------------------------
(* persist_capture, store_observation *)

\* A run, and so every capture of it, ends long before its objects expire.
StoreObservation(o) ==
    /\ organization /\ ~Frozen /\ RowsFree
    /\ o \notin captured \cup expired
    /\ disk' = disk \cup {o}
    /\ writing' = o
    /\ UNCHANGED <<organization, captured, expired, requests, cancelled, report, operator>>
CommitCapture ==
    /\ writing # NoObject
    /\ captured' = captured \cup {writing}
    /\ writing' = NoObject
    /\ UNCHANGED <<organization, disk, expired, requests, cancelled, report, operator>>
\* The process stops and leaves an orphan, or the transaction is rolled back.
AbortCapture ==
    /\ writing # NoObject
    /\ writing' = NoObject
    /\ UNCHANGED <<organization, disk, captured, expired, requests, cancelled, report, operator>>

Expire(o) ==
    /\ o \in disk \ expired /\ o # writing
    /\ expired' = expired \cup {o}
    /\ UNCHANGED <<organization, disk, captured, writing, requests, cancelled, report, operator>>
\* purge_local_expired: one object whose references have all expired, or an old orphan.
PurgeExpired(o) ==
    /\ o \in disk \cap expired
    /\ disk' = disk \ {o}
    /\ UNCHANGED <<organization, captured, expired, writing, requests, cancelled, report, operator>>

-----------------------------------------------------------------------------
(* request_deletion, cancel_deletion *)

RequestDeletion ==
    /\ organization /\ ~Frozen /\ RowsFree
    /\ requests + 1 \in Request
    /\ requests' = requests + 1
    /\ UNCHANGED <<organization, disk, captured, expired, writing, cancelled, report, operator>>
CancelDeletionOf(r) ==
    /\ organization /\ Pending(r) /\ RowsFree
    /\ cancelled' = cancelled \cup {r}
    /\ UNCHANGED <<organization, disk, captured, expired, writing, requests, report, operator>>

-----------------------------------------------------------------------------
(* erase_local_organization, under the file lock *)

\* All captures are enumerated in the transaction that will delete them, and the manifest
\* is written before anything is deleted.
PrepareErasure(r) ==
    /\ operator = Away /\ organization /\ RowsFree
    /\ Pending(r)
    /\ report' = [report EXCEPT ![r] = [status |-> "PREPARED", objects |-> captured]]
    /\ operator' = [at |-> "prepared", request |-> r, objects |-> captured]
    /\ UNCHANGED <<organization, disk, captured, expired, writing, requests, cancelled>>
CommitErasure ==
    /\ operator.at = "prepared"
    /\ organization' = FALSE
    /\ operator' = [operator EXCEPT !.at = "cleaning"]
    /\ UNCHANGED <<disk, captured, expired, writing, requests, cancelled, report>>
\* The organization is gone: only what the manifest lists may be retried.
ResumeErasure(r) ==
    /\ operator = Away /\ ~organization
    /\ report[r].status = "PREPARED"
    /\ operator' = [at |-> "cleaning", request |-> r, objects |-> report[r].objects]
    /\ UNCHANGED <<organization, disk, captured, expired, writing, requests, cancelled, report>>
\* delete_local_object: an object that is gone already is no error.
DeleteObject ==
    /\ operator.at = "cleaning"
    /\ \E o \in operator.objects :
          /\ disk' = disk \ {o}
          /\ operator' = [operator EXCEPT !.objects = @ \ {o}]
    /\ UNCHANGED <<organization, captured, expired, writing, requests, cancelled, report>>
ReportErased ==
    /\ operator.at = "cleaning" /\ operator.objects = {}
    /\ report' = [report EXCEPT ![operator.request].status = "CORE_ERASED"]
    /\ operator' = Away
    /\ UNCHANGED <<organization, disk, captured, expired, writing, requests, cancelled>>
\* The operator's process stops, or an object cannot be deleted; what the database has
\* not committed is rolled back.
StopErasure ==
    /\ operator # Away
    /\ operator' = Away
    /\ UNCHANGED <<organization, disk, captured, expired, writing, requests, cancelled, report>>

-----------------------------------------------------------------------------

Evidence ==
    \/ \E o \in Object : StoreObservation(o) \/ Expire(o) \/ PurgeExpired(o)
    \/ CommitCapture \/ AbortCapture
Withdrawal ==
    \/ RequestDeletion \/ (\E r \in Request : CancelDeletionOf(r))
    \/ \E r \in Request : PrepareErasure(r) \/ ResumeErasure(r)
    \/ CommitErasure \/ DeleteObject \/ ReportErased \/ StopErasure
ErasureNext == Evidence \/ Withdrawal

ErasureSpec == ErasureInit /\ [][ErasureNext]_erasureVars

-----------------------------------------------------------------------------
(* Properties *)

\* Erasure is all or nothing, wherever it stops and however often it is repeated: while
\* the organization exists, everything its captures refer to and that has not expired is
\* there; once the report of a request that stands says it was erased, the organization
\* and all of it are gone.
ErasureIsAllOrNothing ==
    /\ organization => captured \ expired \subseteq disk
    /\ \A r \in Request :
         Pending(r) /\ report[r].status = "CORE_ERASED" =>
             ~organization /\ captured \cap disk = {}

-----------------------------------------------------------------------------
(* The inductive invariant behind the proof *)

Report == [status : {"none", "PREPARED", "CORE_ERASED"}, objects : SUBSET Object]
Operator == [at : {"away", "prepared", "cleaning"}, request : Request \cup {NoObject},
             objects : SUBSET Object]
\* Every variable that the argument reads has its type.
ErasureTypes ==
    /\ organization \in BOOLEAN
    /\ disk \subseteq Object /\ captured \subseteq Object
    /\ writing \in Object \cup {NoObject}
    /\ requests \in Nat
    /\ report \in [Request -> Report]
    /\ operator \in Operator

\* What a live organization has captured and what it is writing is stored; at most one
\* request stands, and none is reported erased.
LiveInv ==
    /\ organization =>
          /\ captured \ expired \subseteq disk
          /\ \A r \in Request : report[r].status # "CORE_ERASED"
    /\ writing # NoObject => organization /\ writing \in disk \ expired
    /\ \A r, q \in Request : Pending(r) /\ Pending(q) => r = q
\* The operator between writing the manifest and the commit: nobody else writes.
PreparedInv ==
    operator.at = "prepared" =>
        /\ organization /\ writing = NoObject
        /\ operator.request \in Request /\ Pending(operator.request)
        /\ report[operator.request] = [status |-> "PREPARED", objects |-> captured]
        /\ operator.objects = captured
\* Once the organization is gone, what is left of its evidence is in the manifest of the
\* request that stands, and in what the operator has still to delete.
CleaningInv ==
    /\ operator.at = "cleaning" =>
          /\ ~organization /\ operator.request \in Request
          /\ Pending(operator.request) => captured \cap disk \subseteq operator.objects
    /\ ~organization => \A r \in Request : Pending(r) =>
          /\ report[r].status = "PREPARED" => captured \cap disk \subseteq report[r].objects
          /\ report[r].status = "CORE_ERASED" => captured \cap disk = {}
=============================================================================
