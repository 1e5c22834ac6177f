--------------------------- MODULE MessageDelivery ---------------------------
(***************************************************************************)
(* Delivery of an invitation by e-mail, or of a request for a demo to the  *)
(* CRM (integrations/revenue_delivery.py).  process_one claims the outbox  *)
(* row in one transaction, and in a second one, which holds the row's lock *)
(* while the provider answers, sends what the first attempt has frozen.    *)
(*                                                                         *)
(* Time is counted in hours.  A lease of two minutes and the delays of     *)
(* retries are shorter, and may have ended whenever somebody looks.        *)
(***************************************************************************)
EXTENDS Integers

CONSTANTS
    Sender,       \* concurrent calls of deliver_pending
    MaxTries,
    RetryWindow,  \* EMAIL_RETRY_WINDOW
    KeyWindow,    \* for so long the provider of e-mail knows an idempotency key
    NoCall

\* A message is retried for 23 hours, a key is known for 24.
ASSUME MessageAssumption ==
    RetryWindow \in Nat \ {0} /\ KeyWindow \in Nat /\ RetryWindow < KeyWindow

VARIABLES
    topic,    \* of the message: invitation.email or lead.crm
    status, attempts,
    first,    \* time since the first attempt, up to KeyWindow
    token,    \* the call whose attempt_token the row holds
    sender,   \* what each call is doing: idle, or claimed for 0 or 1 hours
    valid,    \* the invitation is active, the contact has consented
    configured,  \* the provider is configured
    known,    \* time since the provider first took the idempotency key, or Never
    sent      \* how many messages it sent

messageVars == <<topic, status, attempts, first, token, sender, valid, configured, known, sent>>
attempt == <<attempts, first, token>>
delivery == <<known, sent>>
world == <<topic, valid, configured>>

Active == {"pending", "retry", "processing", "awaiting_config"}
Idle == -1
Never == -1

MessageInit ==
    /\ topic \in {"invitation.email", "lead.crm"}
    /\ status = "pending" /\ attempts = 0 /\ first = Never /\ token = NoCall
    /\ sender = [p \in Sender |-> Idle]
    /\ valid \in BOOLEAN /\ configured \in BOOLEAN
    /\ known = Never /\ sent = 0

\* Fault: the age of the first attempt is not looked at.
AttemptsSpent == attempts >= MaxTries
\* No further attempt once a second delivery could no longer be told from the first.
Exhausted ==
    \/ attempts >= MaxTries
    \/ topic = "invitation.email" /\ first # Never /\ first >= RetryWindow

\* The first transaction.  The row is due: pending, or its delay or lease has ended.  The
\* consent of a contact is looked at before the configuration, an invitation after it.
ClaimMessage(p) ==
    /\ sender[p] = Idle /\ status \in Active
    /\ IF configured /\ valid /\ ~Exhausted
       THEN /\ status' = "processing"
            /\ attempts' = attempts + 1
            /\ first' = IF first = Never THEN 0 ELSE first
            /\ token' = p
            /\ sender' = [sender EXCEPT ![p] = 0]
       ELSE /\ status' = IF ~valid /\ (configured \/ topic = "lead.crm") THEN "blocked"
                         ELSE IF ~configured THEN "awaiting_config" ELSE "needs_review"
            /\ UNCHANGED <<attempt, sender>>
    /\ UNCHANGED <<world, delivery>>

\* The provider answers a key it knows from its memory; a CRM contact is one row,
\* however often it is written.
Taken ==
    /\ known' = IF known = Never \/ known >= KeyWindow THEN 0 ELSE known
    /\ sent' = IF topic = "lead.crm" THEN 1
               ELSE IF known = Never \/ known >= KeyWindow THEN sent + 1 ELSE sent

AfterError(retryable) ==
    IF retryable /\ attempts < MaxTries THEN "retry" ELSE "needs_review"
\* The second transaction.  It does nothing for a call whose claim was taken over.
Send(p) ==
    /\ sender[p] # Idle
    /\ sender' = [sender EXCEPT ![p] = Idle]
    /\ IF status = "processing" /\ token = p
       THEN \/ valid /\ Taken /\ status' = "accepted"
            \* No answer, or one that does not say what became of it.
            \/ valid /\ Taken /\ status' \in {AfterError(TRUE), "needs_review"}
            \* Refused, unavailable, no longer valid, or the contact is being written.
            \/ /\ \E retryable \in BOOLEAN : status' = AfterError(retryable)
               /\ UNCHANGED delivery
       ELSE UNCHANGED <<status, delivery>>
    /\ UNCHANGED <<attempt, world>>

\* The process stops before or after the provider took the message.
CrashSender(p) ==
    /\ sender[p] # Idle
    /\ sender' = [sender EXCEPT ![p] = Idle]
    /\ \/ status = "processing" /\ token = p /\ valid /\ Taken
       \/ UNCHANGED delivery
    /\ UNCHANGED <<status, attempt, world>>

\* The invitation is used or expires; the operator configures the provider.
WorldChanges ==
    /\ \/ valid /\ valid' = FALSE /\ UNCHANGED configured
       \/ configured' = ~configured /\ UNCHANGED valid
    /\ UNCHANGED <<topic, status, attempt, sender, delivery>>

\* Assumption: a call is not held up for more than an hour between its transactions.
Older(age) == IF age = Never \/ age = KeyWindow THEN age ELSE age + 1
Hour ==
    /\ \A p \in Sender : sender[p] < 1
    /\ Older(first) # first \/ Older(known) # known
    /\ first' = Older(first) /\ known' = Older(known)
    /\ sender' = [p \in Sender |-> IF sender[p] = Idle THEN Idle ELSE sender[p] + 1]
    /\ UNCHANGED <<status, attempts, token, world, sent>>

MessageNext ==
    \/ \E p \in Sender : ClaimMessage(p) \/ Send(p) \/ CrashSender(p)
    \/ WorldChanges \/ Hour

MessageSpec == MessageInit /\ [][MessageNext]_messageVars

-----------------------------------------------------------------------------
(* Properties *)

\* However many calls deliver at once, stop between claim, sending and commit, or get no
\* answer, the invited person gets one e-mail at most: every attempt is made while the
\* provider still knows the key of the first.
SentAtMostOnce == sent <= 1

-----------------------------------------------------------------------------
(* The inductive invariant behind the proof *)

\* Every variable that the argument reads has its type.
MessageTypes ==
    /\ topic \in {"invitation.email", "lead.crm"}
    /\ first \in Never..KeyWindow /\ known \in Never..KeyWindow
    /\ sender \in [Sender -> Idle..1]
    /\ sent \in {0, 1}

\* The key became known after the first attempt, and a call that may still send has
\* claimed the message within the retry window.
KeyInv ==
    topic = "invitation.email" =>
        /\ known = Never => sent = 0
        /\ known <= first
        /\ \A p \in Sender :
              sender[p] # Idle => first # Never /\ first < RetryWindow + sender[p]
=============================================================================
