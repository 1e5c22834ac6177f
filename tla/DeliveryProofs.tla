---------------------------- MODULE DeliveryProofs ----------------------------
(***************************************************************************)
(* Proofs about what enters and what leaves the platform: the batches of a *)
(* source (Sources) and the catalogs of a tool server (Intake), messages   *)
(* to people (MessageDelivery) and release decisions on their way to       *)
(* GitHub (CheckDelivery).  They hold for any calls, retries and crashes,  *)
(* and for whatever the other side sends, in whatever order.               *)
(***************************************************************************)
EXTENDS Sources, Intake, MessageDelivery, CheckDelivery, SequenceLemmas,
        FiniteSetTheorems, TLAPS

-----------------------------------------------------------------------------
(* MessageDelivery: for any limit of attempts and any windows of which the  *)
(* provider's is the longer one, an invited person gets one e-mail at most. *)

MessageInv == MessageTypes /\ KeyInv

LEMMA MessageInitially == MessageInit => MessageInv
BY MessageAssumption DEF MessageInit, MessageInv, MessageTypes, KeyInv, Never, Idle

\* A provider that knows no key, or still knows the first one, sends once.
LEMMA TakenOnce ==
    ASSUME MessageInv, NEW p \in Sender, sender[p] # Idle, Taken, UNCHANGED <<topic, first>>,
           sender' = [sender EXCEPT ![p] = Idle]
    PROVE  MessageInv'
<1>1. sent' \in {0, 1} /\ known' \in Never..KeyWindow
  <2>1. CASE topic = "lead.crm"
    BY <2>1, MessageAssumption DEF MessageInv, MessageTypes, Taken, Never
  <2>2. CASE topic = "invitation.email"
    BY <2>2, MessageAssumption DEF MessageInv, MessageTypes, KeyInv, Taken, Never, Idle
  <2> QED BY <2>1, <2>2 DEF MessageInv, MessageTypes
<1>2. MessageTypes'
  BY <1>1 DEF MessageInv, MessageTypes, Idle
<1>3. ASSUME topic = "invitation.email"
      PROVE  /\ known' # Never
             /\ known' <= first
             /\ \A q \in Sender : sender'[q] # Idle => first # Never /\ first < RetryWindow + sender'[q]
  <2>1. known' # Never
    BY <1>3, MessageAssumption DEF MessageInv, MessageTypes, Taken, Never
  <2>2. known' <= first
    BY <1>3, MessageAssumption DEF MessageInv, MessageTypes, KeyInv, Taken, Never
  <2>3. \A q \in Sender : sender'[q] # Idle => first # Never /\ first < RetryWindow + sender'[q]
    BY <1>3 DEF MessageInv, MessageTypes, KeyInv
  <2> QED BY <2>1, <2>2, <2>3
<1> QED BY <1>2, <1>3 DEF MessageInv, KeyInv

\* A call that ends without the provider.
LEMMA NotTaken ==
    ASSUME MessageInv, NEW p \in Sender, UNCHANGED <<topic, first, known, sent>>,
           sender' = [sender EXCEPT ![p] = Idle]
    PROVE  MessageInv'
BY DEF MessageInv, MessageTypes, KeyInv, Idle, Never

LEMMA MessageStep == MessageInv /\ [MessageNext]_messageVars => MessageInv'
<1> SUFFICES ASSUME MessageInv, [MessageNext]_messageVars PROVE MessageInv'
  OBVIOUS
<1>1. ASSUME NEW p \in Sender, ClaimMessage(p) PROVE MessageInv'
  <2>1. CASE configured /\ valid /\ ~Exhausted
    <3>1. /\ first' = IF first = Never THEN 0 ELSE first
          /\ sender' = [sender EXCEPT ![p] = 0]
          /\ UNCHANGED <<topic, known, sent>>
      BY <1>1, <2>1 DEF ClaimMessage, world, delivery
    <3>2. MessageTypes'
      BY <3>1, MessageAssumption DEF MessageInv, MessageTypes, Idle, Never
    <3>3. ASSUME topic = "invitation.email" PROVE first' < RetryWindow /\ first' # Never
      BY <2>1, <3>1, <3>3, MessageAssumption
      DEF MessageInv, MessageTypes, Exhausted, Never
    <3>4. KeyInv'
      <4> SUFFICES ASSUME topic = "invitation.email"
                   PROVE  /\ known' = Never => sent' = 0
                          /\ known' <= first'
                          /\ \A q \in Sender : sender'[q] # Idle =>
                                first' # Never /\ first' < RetryWindow + sender'[q]
        BY <3>1 DEF KeyInv
      <4>1. known' = Never => sent' = 0
        BY <3>1 DEF MessageInv, KeyInv
      <4>2. known' <= first'
        BY <3>1 DEF MessageInv, MessageTypes, KeyInv, Never
      <4>3. \A q \in Sender : sender'[q] # Idle =>
                first' # Never /\ first' < RetryWindow + sender'[q]
        BY <3>1, <3>2, <3>3, MessageAssumption DEF MessageTypes, Idle, Never
      <4> QED BY <4>1, <4>2, <4>3
    <3> QED BY <3>2, <3>4 DEF MessageInv
  <2>2. CASE ~(configured /\ valid /\ ~Exhausted)
    BY <1>1, <2>2 DEF ClaimMessage, attempt, world, delivery, MessageInv, MessageTypes, KeyInv
  <2> QED BY <2>1, <2>2
<1>2. ASSUME NEW p \in Sender, Send(p) PROVE MessageInv'
  <2>1. /\ sender[p] # Idle /\ sender' = [sender EXCEPT ![p] = Idle]
        /\ UNCHANGED <<topic, first>>
        /\ Taken \/ UNCHANGED <<known, sent>>
    BY <1>2 DEF Send, world, attempt, delivery
  <2> QED BY <2>1, TakenOnce, NotTaken
<1>3. ASSUME NEW p \in Sender, CrashSender(p) PROVE MessageInv'
  <2>1. /\ sender[p] # Idle /\ sender' = [sender EXCEPT ![p] = Idle]
        /\ UNCHANGED <<topic, first>>
        /\ Taken \/ UNCHANGED <<known, sent>>
    BY <1>3 DEF CrashSender, world, attempt, delivery
  <2> QED BY <2>1, TakenOnce, NotTaken
<1>4. CASE WorldChanges
  BY <1>4 DEF WorldChanges, attempt, delivery, MessageInv, MessageTypes, KeyInv
<1>5. CASE Hour
  <2>1. /\ \A p \in Sender : sender[p] < 1
        /\ first' = Older(first) /\ known' = Older(known)
        /\ sender' = [p \in Sender |-> IF sender[p] = Idle THEN Idle ELSE sender[p] + 1]
        /\ UNCHANGED <<topic, sent>>
    BY <1>5 DEF Hour, world
  <2>2. MessageTypes'
    BY <2>1, MessageAssumption DEF MessageInv, MessageTypes, Older, Idle, Never
  <2>3. ASSUME topic = "invitation.email"
        PROVE  /\ known' = Never => sent' = 0
               /\ known' <= first'
               /\ \A p \in Sender : sender'[p] # Idle =>
                     first' # Never /\ first' < RetryWindow + sender'[p]
    <3>1. known' = Never => sent' = 0
      BY <2>1, <2>3, MessageAssumption DEF MessageInv, MessageTypes, KeyInv, Older, Never
    <3>2. known' <= first'
      BY <2>1, <2>3, MessageAssumption DEF MessageInv, MessageTypes, KeyInv, Older, Never
    <3>3. ASSUME NEW p \in Sender, sender'[p] # Idle
          PROVE  first' # Never /\ first' < RetryWindow + sender'[p]
      <4>1. sender[p] # Idle /\ sender'[p] = sender[p] + 1 /\ sender[p] \in Idle..1
        BY <2>1, <3>3 DEF MessageInv, MessageTypes
      <4>2. first # Never /\ first < RetryWindow + sender[p]
        BY <2>3, <4>1 DEF MessageInv, KeyInv
      <4> QED BY <2>1, <4>1, <4>2, MessageAssumption
              DEF MessageInv, MessageTypes, Older, Idle, Never
    <3> QED BY <3>1, <3>2, <3>3
  <2> QED BY <2>1, <2>2, <2>3 DEF MessageInv, KeyInv
<1>6. CASE UNCHANGED messageVars
  BY <1>6 DEF messageVars, MessageInv, MessageTypes, KeyInv
<1> QED BY <1>1, <1>2, <1>3, <1>4, <1>5, <1>6 DEF MessageNext

\* The invited person gets one e-mail at most, whatever is lost, retried or repeated.
THEOREM SentAtMostOnceAlways == MessageSpec => []SentAtMostOnce
<1>1. MessageInv => SentAtMostOnce
  BY DEF MessageInv, MessageTypes, SentAtMostOnce
<1> QED BY <1>1, MessageInitially, MessageStep, PTL DEF MessageSpec

-----------------------------------------------------------------------------
(* CheckDelivery: for any leases and limits a release never has two check   *)
(* runs: the started flag of the row is tested with the claim, and while    *)
(* publish_release keeps a row that it will write back, the lock of the     *)
(* binding keeps everybody from setting the flag.                           *)

DeliveryInv == DeliveryTypes /\ StartInv /\ AskedInv /\ CreateInv

LEMMA DeliveryInitially == DeliveryInit => DeliveryInv
<1> SUFFICES ASSUME DeliveryInit PROVE DeliveryInv
  OBVIOUS
<1>1. NoRow \in Row
  BY DEF NoRow, Row, RowStatus
<1>2. Unoccupied \in Place
  BY DEF Unoccupied, Place
<1>3. DeliveryTypes
  BY <1>1, <1>2 DEF DeliveryInit, DeliveryTypes, Unoccupied, NotAsked
<1>4. StartInv
  BY DEF DeliveryInit, StartInv, NoRow
<1>5. CreateInv
  BY DEF DeliveryInit, CreateInv, OnlyOne, Creating, NoRow, Unoccupied
<1>6. AskedInv
  BY DEF DeliveryInit, AskedInv, Unoccupied
<1> QED BY <1>3, <1>4, <1>5, <1>6 DEF DeliveryInv

-----------------------------------------------------------------------------
(* Steps that start no attempt *)

\* Rows change, and with them nobody's progress: a row keeps its started flag, may lose its
\* claim or get back the one that publish_release has read, and is not taken back to before
\* it was enqueued.
LEMMA RowsOnly ==
    ASSUME DeliveryInv, UNCHANGED <<lock, pc, late, checks>>,
           row' \in [Releases -> Row], installs' \in Nat,
           \A r \in Releases :
              /\ row'[r].started = row[r].started
              /\ \/ row'[r].claim \in {row[r].claim, Nobody}
                 \/ asked # NotAsked /\ r = asked.release /\ row'[r].claim = asked.row.claim
              /\ row'[r].status \in {"none", "unrouted"} =>
                    row[r].status \in {"none", "unrouted"},
           asked' \in [release : Releases \cup {0}, row : Row, seen : SUBSET Releases],
           asked' # NotAsked =>
              /\ asked # NotAsked /\ asked'.release = asked.release
              /\ asked'.row.status = asked.row.status /\ asked'.row.started = asked.row.started
              /\ asked'.row.claim \in {asked.row.claim, Nobody}
              /\ row[asked.release].status = "unrouted" => row'[asked.release].status = "unrouted"
    PROVE  DeliveryInv'
<1>1. DeliveryTypes'
  BY DEF DeliveryInv, DeliveryTypes
<1>2. StartInv'
  <2>1. ASSUME NEW r \in Releases, row'[r].status \in {"none", "unrouted"}
        PROVE  ~row'[r].started
    BY <2>1 DEF DeliveryInv, StartInv
  <2>2. ASSUME NEW r \in Releases, NEW p \in Reconciler, MayCreate(p, r)', row'[r].claim = p
        PROVE  ~row'[r].started
    <3>1. MayCreate(p, r)
      BY <2>2 DEF MayCreate
    <3>2. CASE row[r].claim = p
      BY <3>1, <3>2 DEF DeliveryInv, StartInv
    <3>3. CASE asked # NotAsked /\ r = asked.release /\ asked.row.claim = p
      BY <3>1, <3>3 DEF DeliveryInv, AskedInv
    <3> QED BY <2>2, <3>2, <3>3, DeliveryAssumption
  <2> QED BY <2>1, <2>2 DEF StartInv
<1>3. CreateInv'
  BY DEF DeliveryInv, CreateInv, OnlyOne, Creating
<1>4. AskedInv'
  <2>1. \A p \in Reconciler : (pc[p].at \in {"ready", "sent"})' => lock' = p
    BY DEF DeliveryInv, AskedInv
  <2>2. ASSUME asked' # NotAsked
        PROVE  /\ lock' = Nobody /\ asked'.release \in Releases
               /\ IF asked'.row.status = "unrouted" THEN row'[asked'.release].status = "unrouted"
                  ELSE row'[asked'.release].status \notin {"none", "unrouted"}
               /\ asked'.row.started = row'[asked'.release].started
    BY <2>2 DEF DeliveryInv, AskedInv
  <2>3. ASSUME asked' # NotAsked, NEW p \in Reconciler, MayCreate(p, asked.release)',
               asked'.row.claim = p
        PROVE  ~asked'.row.started
    <3>1. MayCreate(p, asked.release) /\ asked.row.claim = p
      BY <2>3, DeliveryAssumption DEF MayCreate, DeliveryInv, AskedInv
    <3> QED BY <2>3, <3>1 DEF DeliveryInv, AskedInv
  <2> QED BY <2>1, <2>2, <2>3 DEF AskedInv, MayCreate
<1> QED BY <1>1, <1>2, <1>3, <1>4 DEF DeliveryInv

\* What publish_release has read stays true while one call goes on.
LEMMA StillAsked ==
    ASSUME DeliveryInv, NEW p \in Reconciler, NEW place \in Place,
           pc' = [pc EXCEPT ![p] = place], UNCHANGED asked,
           place.at \in {"ready", "sent"} => lock' = p,
           \A q \in Reconciler : q # p /\ lock = q => lock' = q,
           asked # NotAsked =>
              /\ lock' = Nobody
              /\ row'[asked.release].started = row[asked.release].started
              /\ IF row[asked.release].status \in {"none", "unrouted"}
                 THEN row'[asked.release].status = row[asked.release].status
                 ELSE row'[asked.release].status \notin {"none", "unrouted"},
           \A r \in Releases : MayCreate(p, r)' => MayCreate(p, r)
    PROVE  AskedInv'
<1>0. pc'[p] = place /\ \A q \in Reconciler : q # p => pc'[q] = pc[q]
  BY DEF DeliveryInv, DeliveryTypes
<1>1. \A q \in Reconciler : pc'[q].at \in {"ready", "sent"} => lock' = q
  BY <1>0 DEF DeliveryInv, AskedInv
<1>2. \A q \in Reconciler, r \in Releases : MayCreate(q, r)' => MayCreate(q, r)
  BY <1>0 DEF MayCreate
<1>3. ASSUME asked # NotAsked
      PROVE  /\ asked.release \in Releases
             /\ IF asked.row.status = "unrouted" THEN row'[asked.release].status = "unrouted"
                ELSE row'[asked.release].status \notin {"none", "unrouted"}
             /\ asked.row.started = row'[asked.release].started
  BY <1>3 DEF DeliveryInv, AskedInv
<1>4. ASSUME asked # NotAsked, NEW q \in Reconciler, MayCreate(q, asked.release)',
             asked.row.claim = q
      PROVE  ~asked.row.started
  BY <1>2, <1>3, <1>4 DEF DeliveryInv, AskedInv
<1> QED BY <1>1, <1>3, <1>4 DEF AskedInv, MayCreate

\* One call goes on or stops; it does not begin to create, and what may create a check
\* was allowed to before.
LEMMA CallOnly ==
    ASSUME DeliveryInv, NEW p \in Reconciler,
           UNCHANGED <<row, asked, late, checks, installs>>,
           NEW place \in Place, pc' = [pc EXCEPT ![p] = place],
           place.at # "idle" => place.release \in Releases,
           place.at = "failed" => place.what \in {"retry", "ambiguous"},
           place.at # "sent" \/ place.what # "create",
           place.at \in {"ready", "sent"} => lock' = p,
           \A q \in Reconciler : q # p /\ lock = q => lock' = q,
           asked # NotAsked => lock' = Nobody,
           \A r \in Releases : MayCreate(p, r)' => MayCreate(p, r)
    PROVE  DeliveryInv'
<1>1. DeliveryTypes'
  BY DEF DeliveryInv, DeliveryTypes
<1>2. \A q \in Reconciler, r \in Releases :
        /\ MayCreate(q, r)' => MayCreate(q, r)
        /\ Creating(q, r)' => Creating(q, r)
  BY DEF DeliveryInv, DeliveryTypes, MayCreate, Creating
<1>3. StartInv'
  BY <1>2 DEF DeliveryInv, StartInv
<1>4. CreateInv'
  BY <1>2 DEF DeliveryInv, CreateInv, OnlyOne
<1>5. AskedInv'
  BY StillAsked
<1> QED BY <1>1, <1>3, <1>4, <1>5 DEF DeliveryInv

\* Fields of a row, changed one after the other.
LEMMA Fields ==
    ASSUME NEW x \in Row, NEW now \in RowStatus, NEW n \in Int, NEW due \in Int,
           NEW p \in Reconciler \cup {Nobody}, NEW b \in BOOLEAN
    PROVE  /\ [x EXCEPT !.status = now, !.attempts = n, !.due = due, !.claim = p, !.started = b]
                 \in Row
           /\ [x EXCEPT !.status = now, !.claim = p, !.due = due, !.attempts = n] \in Row
<1> DEFINE s == [x EXCEPT !.status = now]
           c == [s EXCEPT !.claim = p]
           sa == [s EXCEPT !.attempts = n]
           sd == [sa EXCEPT !.due = due]
           sc == [sd EXCEPT !.claim = p]
           cd == [c EXCEPT !.due = due]
<1>1. s \in Row
  BY DEF Row
<1>2. sa \in Row /\ c \in Row
  <2> HIDE DEF s
  <2> QED BY <1>1 DEF Row
<1>3. sd \in Row
  <2> HIDE DEF sa
  <2> QED BY <1>2 DEF Row
<1>4. sc \in Row
  <2> HIDE DEF sd
  <2> QED BY <1>3 DEF Row
<1>5. [sc EXCEPT !.started = b] \in Row
  <2> HIDE DEF sc
  <2> QED BY <1>4 DEF Row
<1>6. cd \in Row
  <2> HIDE DEF c
  <2> QED BY <1>2 DEF Row
<1>7. [cd EXCEPT !.attempts = n] \in Row
  <2> HIDE DEF cd
  <2> QED BY <1>6 DEF Row
<1> QED BY <1>5, <1>7

\* What publish_release writes over a row.
LEMMA RefreshedRow ==
    ASSUME NEW now \in Row, NEW read \in Row
    PROVE  /\ Refreshed(now, read) \in Row
           /\ Refreshed(now, read).started = read.started
           /\ Refreshed(now, read).claim = read.claim
           /\ Refreshed(now, read).status \in {now.status, "retry"}
<1> DEFINE s == IF read.status = "retry" THEN now.status ELSE "retry"
           n == IF read.attempts = 0 THEN now.attempts ELSE 0
           x == [now EXCEPT !.status = s, !.attempts = n, !.due = 0, !.claim = read.claim,
                            !.started = read.started]
<1>1. /\ s \in RowStatus /\ s \in {now.status, "retry"} /\ n \in Int /\ 0 \in Int
      /\ read.claim \in Reconciler \cup {Nobody} /\ read.started \in BOOLEAN
  BY DEF Row, RowStatus, Live
<1>2. Refreshed(now, read) = x
  BY DEF Refreshed
<1> HIDE DEF s, n
<1>3. x \in Row
  BY <1>1, Fields, Zenon
<1>4. x.started = read.started /\ x.claim = read.claim /\ x.status = s
  BY DEF Row
<1> HIDE DEF x
<1> QED BY <1>1, <1>2, <1>3, <1>4

LEMMA EnqueuedRow ==
    ASSUME DeliveryInv, NEW r \in Releases, row[r].status \in {"none", "unrouted"},
           NEW seen \in SUBSET Releases
    PROVE  /\ Enqueued(r, seen) \in [Releases -> Row]
           /\ \A q \in Releases :
                 /\ Enqueued(r, seen)[q].started = row[q].started
                 /\ Enqueued(r, seen)[q].claim \in {row[q].claim, Nobody}
                 /\ Enqueued(r, seen)[q].status \in {"none", "unrouted"} =>
                       row[q].status \in {"none", "unrouted"}
                 /\ q # r /\ row[q].status = "unrouted" =>
                       Enqueued(r, seen)[q].status = "unrouted"
<1>1. ~row[r].started
  BY DEF DeliveryInv, StartInv
<1>2. row \in [Releases -> Row] /\ installs \in Nat
  BY DEF DeliveryInv, DeliveryTypes
<1>3. [NoRow EXCEPT !.status = "pending", !.install = installs] \in Row
  <2> DEFINE x == [NoRow EXCEPT !.status = "pending"]
  <2>0. NoRow \in Row
    BY DEF NoRow, Row, RowStatus
  <2>1. x \in Row
    BY <2>0 DEF Row, RowStatus, Live
  <2>2. [x EXCEPT !.install = installs] \in Row
    <3> HIDE DEF x
    <3> QED BY <1>2, <2>1 DEF Row
  <2> QED BY <2>2
<1>4. \A q \in Releases : [row[q] EXCEPT !.status = "superseded"] \in Row
  BY <1>2 DEF Row, RowStatus
<1>5. Enqueued(r, seen) \in [Releases -> Row]
  BY <1>2, <1>3, <1>4 DEF Enqueued
<1>6. \A q \in Releases \ {r} :
         Enqueued(r, seen)[q] = row[q] \/ /\ row[q].status \in Live
                                          /\ Enqueued(r, seen)[q] = [row[q] EXCEPT !.status = "superseded"]
  BY DEF Enqueued
<1>7. /\ Enqueued(r, seen)[r].started = FALSE /\ Enqueued(r, seen)[r].claim = Nobody
      /\ Enqueued(r, seen)[r].status = "pending"
  BY DEF Enqueued, NoRow
<1> QED BY <1>1, <1>2, <1>5, <1>6, <1>7 DEF Row, Live

\* publish_release keeps the row as it is, which nobody is about to start.
LEMMA ReadStep ==
    ASSUME DeliveryInv, NEW r \in Releases, ReadPublish(r)
    PROVE  DeliveryInv'
<1>1. /\ lock = Nobody /\ UNCHANGED <<row, lock, pc, late, checks, installs>>
      /\ row[r].status \in {"unrouted", "delivered", "retry", "needs_attention", "ambiguous"}
      /\ asked'.release = r /\ asked'.row = row[r]
      /\ asked' \in [release : Releases \cup {0}, row : Row, seen : SUBSET Releases]
  BY DEF ReadPublish, BindingFree, DeliveryInv, DeliveryTypes
<1>2. DeliveryTypes'
  BY <1>1 DEF DeliveryInv, DeliveryTypes
<1>3. StartInv' /\ CreateInv'
  BY <1>1 DEF DeliveryInv, StartInv, MayCreate, CreateInv, OnlyOne, Creating
<1>4. \A p \in Reconciler : MayCreate(p, r) /\ row[r].claim = p => ~row[r].started
  BY DEF DeliveryInv, StartInv
<1>5. AskedInv'
  BY <1>1, <1>4 DEF DeliveryInv, AskedInv, MayCreate
<1> QED BY <1>2, <1>3, <1>5 DEF DeliveryInv

\* What it writes back: the flag is as it was read.
LEMMA CommitStep == DeliveryInv /\ CommitPublish => DeliveryInv'
<1> SUFFICES ASSUME DeliveryInv, CommitPublish PROVE DeliveryInv'
  OBVIOUS
<1> DEFINE r == asked.release
<1>0. /\ asked # NotAsked /\ asked' = NotAsked /\ UNCHANGED <<lock, pc, late, checks, installs>>
      /\ row \in [Releases -> Row] /\ installs \in Nat /\ r \in Releases
      /\ asked.row \in Row /\ asked.seen \in SUBSET Releases
  BY DEF CommitPublish, DeliveryInv, DeliveryTypes, AskedInv
<1>1. asked' \in [release : Releases \cup {0}, row : Row, seen : SUBSET Releases]
  BY <1>0 DEF NotAsked, NoRow, Row, RowStatus
<1>2. CASE asked.row.status = "unrouted"
  <2>1. row[r].status = "unrouted" /\ row' = Enqueued(r, asked.seen)
    BY <1>0, <1>2 DEF CommitPublish, DeliveryInv, AskedInv
  <2> QED BY <1>0, <1>1, <2>1, EnqueuedRow, RowsOnly
<1>3. CASE asked.row.status # "unrouted"
  <2> DEFINE x == Refreshed(row[r], asked.row)
  <2>1. row' = [row EXCEPT ![r] = x]
    BY <1>3 DEF CommitPublish
  <2>2. /\ x \in Row /\ x.started = asked.row.started /\ x.claim = asked.row.claim
        /\ x.status \in {row[r].status, "retry"}
    BY <1>0, RefreshedRow
  <2>3. row[r].status \notin {"none", "unrouted"} /\ asked.row.started = row[r].started
    BY <1>0, <1>3 DEF DeliveryInv, AskedInv
  <2> HIDE DEF x
  <2>4. row' \in [Releases -> Row] /\ row'[r] = x /\ \A q \in Releases : q # r => row'[q] = row[q]
    BY <1>0, <2>1, <2>2
  <2> QED BY <1>0, <1>1, <2>2, <2>3, <2>4, RowsOnly
<1> QED BY <1>2, <1>3

LEMMA PeopleStep == DeliveryInv /\ People => DeliveryInv'
<1> SUFFICES ASSUME DeliveryInv, People PROVE DeliveryInv'
  OBVIOUS
<1>0. /\ row \in [Releases -> Row] /\ installs \in Nat
      /\ asked \in [release : Releases \cup {0}, row : Row, seen : SUBSET Releases]
      /\ asked # NotAsked => asked.release \in Releases /\ row[asked.release].status # "none"
  BY DEF DeliveryInv, DeliveryTypes, AskedInv
<1>1. ASSUME NEW r \in Releases, IssueRelease(r) PROVE DeliveryInv'
  <2>1. row[r].status = "none" /\ UNCHANGED <<lock, asked, pc, late, checks, installs>>
    BY <1>1 DEF IssueRelease
  <2>2. CASE row' = Enqueued(r, Releases)
    BY <1>0, <2>1, <2>2, EnqueuedRow, RowsOnly
  <2>3. CASE row' = [row EXCEPT ![r].status = "unrouted"]
    <3>1. row' \in [Releases -> Row]
      BY <1>0, <2>3 DEF Row, RowStatus
    <3> QED BY <1>0, <2>1, <2>3, <3>1, RowsOnly DEF Row
  <2> QED BY <1>1, <2>2, <2>3 DEF IssueRelease
<1>2. ASSUME NEW r \in Releases, ReadPublish(r) PROVE DeliveryInv'
  BY <1>2, ReadStep
<1>3. CASE CommitPublish
  BY <1>3, CommitStep
<1>4. CASE RollbackPublish
  <2>1. asked' = NotAsked /\ UNCHANGED <<row, lock, pc, late, checks, installs>>
    BY <1>4 DEF RollbackPublish
  <2>2. NotAsked \in [release : Releases \cup {0}, row : Row, seen : SUBSET Releases]
    BY DEF NotAsked, NoRow, Row, RowStatus
  <2> QED BY <1>0, <2>1, <2>2, RowsOnly
<1>5. CASE RevokeInstallation \/ RegisterInstallation
  BY <1>0, <1>5, RowsOnly DEF RevokeInstallation, RegisterInstallation
<1> QED BY <1>1, <1>2, <1>3, <1>4, <1>5 DEF People

LEMMA ElapseStep == DeliveryInv /\ Elapse => DeliveryInv'
<1> SUFFICES ASSUME DeliveryInv, Elapse PROVE DeliveryInv'
  OBVIOUS
<1>1. /\ row \in [Releases -> Row] /\ installs \in Nat
      /\ asked \in [release : Releases \cup {0}, row : Row, seen : SUBSET Releases]
      /\ asked # NotAsked => asked.release \in Releases
  BY DEF DeliveryInv, DeliveryTypes, AskedInv
<1>2. row' = [r \in Releases |-> [row[r] EXCEPT !.due = IF @ > 0 THEN @ - 1 ELSE 0]]
  BY DEF Elapse
<1>3. row' \in [Releases -> Row]
  BY <1>1, <1>2 DEF Row
<1>4. \A r \in Releases : /\ row'[r].started = row[r].started
                          /\ row'[r].claim = row[r].claim
                          /\ row'[r].status = row[r].status
  BY <1>1, <1>2 DEF Row
<1> QED BY <1>1, <1>3, <1>4, RowsOnly DEF Elapse

-----------------------------------------------------------------------------
(* The steps of a call *)

\* A claim that may create is made of a row that was not started.
LEMMA ClaimStep ==
    ASSUME DeliveryInv, NEW p \in Reconciler, NEW r \in Releases, Claim(p, r)
    PROVE  DeliveryInv'
<1>0. /\ row \in [Releases -> Row] /\ installs \in Nat /\ pc \in [Reconciler -> Place]
      /\ asked \in [release : Releases \cup {0}, row : Row, seen : SUBSET Releases]
      /\ UNCHANGED <<lock, late, checks, installs>>
      /\ row[r].status \in Live
  BY DEF DeliveryInv, DeliveryTypes, Claim, Claimable
<1>a. /\ asked' \in [release : Releases \cup {0}, row : Row, seen : SUBSET Releases]
      /\ asked'.release = asked.release
      /\ asked'.row.status = asked.row.status /\ asked'.row.started = asked.row.started
      /\ asked'.row.claim \in {asked.row.claim, Nobody} /\ asked'.row.claim # p
      /\ asked' # NotAsked => asked # NotAsked /\ asked.release \in Releases
  <2> DEFINE x == [asked.row EXCEPT !.claim = Nobody]
  <2>1. asked # NotAsked => asked.release \in Releases
    BY DEF DeliveryInv, AskedInv
  <2>2. CASE asked.row.claim = p
    <3>1. asked' = [asked EXCEPT !.row = x] /\ asked # NotAsked
      BY <2>2, DeliveryAssumption DEF Claim, NotAsked, NoRow
    <3>2. x \in Row /\ x.status = asked.row.status /\ x.started = asked.row.started /\ x.claim = Nobody
      BY <1>0 DEF Row
    <3> HIDE DEF x
    <3> QED BY <1>0, <2>1, <3>1, <3>2, DeliveryAssumption
  <2>3. CASE asked.row.claim # p
    BY <1>0, <2>1, <2>3 DEF Claim
  <2> QED BY <2>2, <2>3
<1>1. CASE Attempts(r) >= MaxAttempts
  <2>1. row' = [row EXCEPT ![r].status = "needs_attention"] /\ UNCHANGED pc
    BY <1>1 DEF Claim
  <2>2. row' \in [Releases -> Row]
    BY <1>0, <2>1 DEF Row, RowStatus
  <2>3. \A q \in Releases : /\ row'[q].started = row[q].started /\ row'[q].claim = row[q].claim
                            /\ \/ row'[q].status = row[q].status
                               \/ q = r /\ row'[q].status = "needs_attention"
    BY <1>0, <2>1 DEF Row
  <2>4. row[r].status \notin {"none", "unrouted"}
    BY <1>0 DEF Live
  <2> QED BY <1>0, <1>a, <2>1, <2>2, <2>3, <2>4, RowsOnly
<1>2. CASE ~(Attempts(r) >= MaxAttempts)
  <2> DEFINE what == IF row[r].started THEN "mayUpdate" ELSE "mayCreate"
             place == [at |-> "claimed", release |-> r, what |-> what]
  <2>1. /\ row' = [row EXCEPT ![r] = [@ EXCEPT !.status = "claimed", !.claim = p,
                      !.due = 1, !.attempts = Attempts(r) + 1]]
        /\ pc' = [pc EXCEPT ![p] = place]
    BY <1>2 DEF Claim
  <2>2. Attempts(r) \in Int
    BY <1>0 DEF Attempts, Row
  <2>3. row' \in [Releases -> Row]
    <3>1. "claimed" \in RowStatus
      BY DEF RowStatus, Live
    <3>2. /\ row[r] \in Row /\ 1 \in Int /\ Attempts(r) + 1 \in Int
          /\ p \in Reconciler \cup {Nobody}
      BY <1>0, <2>2
    <3>3. [row[r] EXCEPT !.status = "claimed", !.claim = p, !.due = 1,
              !.attempts = Attempts(r) + 1] \in Row
      BY <3>1, <3>2, Fields, Zenon
    <3> QED BY <1>0, <2>1, <3>3
  <2>4. pc' \in [Reconciler -> Place] /\ place \in Place
    BY <1>0, <2>1 DEF Place
  <2>5. DeliveryTypes'
    BY <1>0, <1>a, <2>1, <2>3, <2>4 DEF DeliveryInv, DeliveryTypes
  <2>6. \A q \in Releases :
          /\ row'[q].started = row[q].started
          /\ q # r => row'[q] = row[q]
    BY <1>0, <2>1 DEF Row
  <2>7. row'[r].claim = p /\ row'[r].status = "claimed"
    BY <1>0, <2>1 DEF Row
  <2>8. \A q \in Reconciler : q # p => pc'[q] = pc[q]
    BY <1>0, <2>1
  <2>9. pc'[p] = place
    BY <1>0, <2>1
  <2>10. StartInv'
    <3>1. ASSUME NEW s \in Releases, row'[s].status \in {"none", "unrouted"}
          PROVE  ~row'[s].started
      BY <2>6, <2>7, <3>1 DEF DeliveryInv, StartInv
    <3>2. ASSUME NEW s \in Releases, NEW q \in Reconciler, MayCreate(q, s)',
                 row'[s].claim = q
          PROVE  ~row'[s].started
      <4>1. CASE q = p
        BY <2>6, <2>9, <3>2, <4>1 DEF MayCreate
      <4>2. CASE q # p
        BY <2>6, <2>7, <2>8, <3>2, <4>2 DEF MayCreate, DeliveryInv, StartInv
      <4> QED BY <4>1, <4>2
    <3> QED BY <3>1, <3>2 DEF StartInv
  <2>11. \A q \in Reconciler, s \in Releases : Creating(q, s)' => Creating(q, s)
    BY <2>8, <2>9 DEF Creating
  <2>12. CreateInv'
    BY <1>0, <2>6, <2>11 DEF DeliveryInv, CreateInv, OnlyOne
  <2>13. \A q \in Reconciler : pc'[q].at \in {"ready", "sent"} => lock' = q
    BY <1>0, <2>8, <2>9 DEF DeliveryInv, AskedInv
  <2>14. ASSUME asked' # NotAsked
         PROVE  /\ lock' = Nobody /\ asked'.release \in Releases
                /\ IF asked'.row.status = "unrouted" THEN row'[asked'.release].status = "unrouted"
                   ELSE row'[asked'.release].status \notin {"none", "unrouted"}
                /\ asked'.row.started = row'[asked'.release].started
    BY <1>0, <1>a, <2>6, <2>7, <2>14 DEF DeliveryInv, AskedInv, Live
  <2>15. ASSUME asked' # NotAsked, NEW q \in Reconciler, MayCreate(q, asked.release)',
                asked'.row.claim = q
         PROVE  ~asked'.row.started
    <3>1. q # p /\ asked.row.claim = q
      BY <1>a, <2>15, DeliveryAssumption
    <3>2. MayCreate(q, asked.release)
      BY <1>a, <2>8, <2>15, <3>1 DEF MayCreate
    <3> QED BY <1>a, <2>15, <3>1, <3>2 DEF DeliveryInv, AskedInv
  <2>16. AskedInv'
    BY <2>13, <2>14, <2>15 DEF AskedInv, MayCreate
  <2> QED BY <2>5, <2>10, <2>12, <2>16 DEF DeliveryInv
<1> QED BY <1>1, <1>2

LEMMA ReconcileStep ==
    ASSUME DeliveryInv, NEW p \in Reconciler, Reconcile(p)
    PROVE  DeliveryInv'
<1>0. /\ pc \in [Reconciler -> Place] /\ pc[p].at = "claimed" /\ pc[p].release \in Releases
      /\ lock = Nobody /\ asked = NotAsked /\ UNCHANGED <<row, asked, late, checks, installs>>
  BY DEF DeliveryInv, DeliveryTypes, Reconcile, BindingFree
<1>1. ASSUME NEW at \in {"failed", "ready"},
             NEW what \in {"retry", "ambiguous", "update", "create"},
             at = "failed" => what \in {"retry", "ambiguous"},
             at = "ready" => what = "update" \/ (what = "create" /\ pc[p].what = "mayCreate"),
             at = "ready" => lock' = p,
             Move(p, at, what)
      PROVE  DeliveryInv'
  <2> DEFINE place == [pc[p] EXCEPT !.at = at, !.what = what]
  <2>1. pc' = [pc EXCEPT ![p] = place] /\ place \in Place
    BY <1>0, <1>1 DEF Move, Place
  <2>2. place.at = at /\ place.what = what /\ place.release = pc[p].release
    BY <1>0 DEF Place
  <2>3. \A r \in Releases : MayCreate(p, r)' => MayCreate(p, r)
    BY <1>0, <1>1, <2>1, <2>2 DEF MayCreate
  <2> HIDE DEF place
  <2> QED BY <1>0, <1>1, <2>1, <2>2, <2>3, CallOnly, DeliveryAssumption
<1> QED BY <1>1 DEF Reconcile

\* Only the holder of the claim begins, and only if nobody did before it.
LEMMA BeginStep ==
    ASSUME DeliveryInv, NEW p \in Reconciler, BeginWrite(p),
           NEW r \in Releases, pc[p].release = r
    PROVE  DeliveryInv'
<1> DEFINE place == [pc[p] EXCEPT !.at = "sent", !.what = pc[p].what]
<1>0. /\ pc \in [Reconciler -> Place] /\ pc[p].at = "ready"
      /\ row \in [Releases -> Row]
      /\ lock = p /\ asked = NotAsked
      /\ UNCHANGED <<asked, late, checks, installs>>
  BY DeliveryAssumption DEF DeliveryInv, DeliveryTypes, AskedInv, BeginWrite
<1>1. CASE Move(p, "failed", "retry") /\ UNCHANGED row
  <2> DEFINE gone == [pc[p] EXCEPT !.at = "failed", !.what = "retry"]
  <2>1. pc' = [pc EXCEPT ![p] = gone] /\ gone \in Place
    BY <1>0, <1>1 DEF Move, Place
  <2>2. gone.at = "failed" /\ gone.what = "retry" /\ gone.release = r
    BY <1>0 DEF Place
  <2>3. \A s \in Releases : MayCreate(p, s)' => MayCreate(p, s)
    BY <1>0, <2>1, <2>2 DEF MayCreate
  <2> HIDE DEF gone
  <2> QED BY <1>0, <1>1, <2>1, <2>2, <2>3, CallOnly
<1>2. CASE /\ ClaimCurrent(p, r)
           /\ row' = [row EXCEPT ![r].started = TRUE]
           /\ Move(p, "sent", pc[p].what) /\ UNCHANGED lock
  <2>1. pc' = [pc EXCEPT ![p] = place] /\ place \in Place
    BY <1>0, <1>2 DEF Move, Place
  <2>2. place.at = "sent" /\ place.what = pc[p].what /\ place.release = r
    BY <1>0 DEF Place
  <2>3. row' \in [Releases -> Row] /\ row'[r].started
    BY <1>0, <1>2 DEF Row
  <2>4. \A s \in Releases : /\ row'[s].claim = row[s].claim /\ row'[s].status = row[s].status
                            /\ s # r => row'[s] = row[s]
    BY <1>0, <1>2 DEF Row
  <2>5. row[r].status = "claimed" /\ row[r].claim = p
    BY <1>2 DEF ClaimCurrent
  <2>6. pc'[p] = place /\ \A q \in Reconciler : q # p => pc'[q] = pc[q]
    BY <1>0, <2>1
  <2>7. DeliveryTypes'
    BY <1>0, <2>1, <2>2, <2>3 DEF DeliveryInv, DeliveryTypes
  <2>8. StartInv'
    <3>1. ASSUME NEW s \in Releases, row'[s].status \in {"none", "unrouted"}
          PROVE  ~row'[s].started
      BY <2>4, <2>5, <3>1 DEF DeliveryInv, StartInv
    <3>2. ASSUME NEW s \in Releases, NEW q \in Reconciler, MayCreate(q, s)',
                 row'[s].claim = q
          PROVE  ~row'[s].started
      <4>1. q # p
        BY <2>2, <2>6, <3>2 DEF MayCreate
      <4>2. s # r
        BY <2>4, <2>5, <3>2, <4>1
      <4> QED BY <2>4, <2>6, <3>2, <4>1, <4>2 DEF MayCreate, DeliveryInv, StartInv
    <3> QED BY <3>1, <3>2 DEF StartInv
  <2>a. AskedInv'
    BY <1>0, <1>2, <2>6 DEF DeliveryInv, AskedInv
  <2>9. CASE pc[p].what # "create"
    <3>1. \A q \in Reconciler, s \in Releases : Creating(q, s)' => Creating(q, s)
      BY <2>2, <2>6, <2>9 DEF Creating
    <3>2. CreateInv'
      BY <1>0, <2>3, <2>4, <3>1 DEF DeliveryInv, CreateInv, OnlyOne
    <3> QED BY <2>7, <2>8, <2>a, <3>2 DEF DeliveryInv
  <2>10. CASE pc[p].what = "create"
    <3>1. ~row[r].started
      BY <1>0, <2>5, <2>10 DEF DeliveryInv, StartInv, MayCreate
    <3>2. /\ checks[r] = 0 /\ Underway(r) \notin late
          /\ \A q \in Reconciler : ~Creating(q, r)
      BY <1>0, <3>1 DEF DeliveryInv, CreateInv, OnlyOne
    <3>3. \A q \in Reconciler : Creating(q, r)' => q = p
      BY <2>6, <3>2 DEF Creating
    <3>4. \A q \in Reconciler, s \in Releases : s # r /\ Creating(q, s)' => Creating(q, s)
      BY <2>2, <2>6 DEF Creating
    <3>5. ASSUME NEW s \in Releases PROVE OnlyOne(s)'
      <4>1. CASE s = r
        BY <1>0, <2>3, <3>2, <3>3, <4>1 DEF OnlyOne, Underway
      <4>2. CASE s # r
        <5>1. OnlyOne(s)
          BY DEF DeliveryInv, CreateInv
        <5> QED BY <1>0, <2>4, <3>4, <4>2, <5>1 DEF OnlyOne, Underway
      <4> QED BY <4>1, <4>2
    <3> QED BY <2>7, <2>8, <2>a, <3>5 DEF DeliveryInv, CreateInv
  <2> QED BY <2>9, <2>10
<1> QED BY <1>1, <1>2 DEF BeginWrite

\* A request that created, is lost or is still underway: there was only this one.
LEMMA SentStep ==
    ASSUME DeliveryInv, NEW p \in Reconciler, pc[p].at = "sent",
           NEW r \in Releases, pc[p].release = r, UNCHANGED <<row, asked, installs>>,
           lock' = Nobody,
           NEW place \in Place, pc' = [pc EXCEPT ![p] = place],
           place.at \in {"written", "failed", "idle"},
           place.at # "idle" => place.release \in Releases,
           place.at = "failed" => place.what \in {"retry", "ambiguous"},
           \/ UNCHANGED <<checks, late>>
           \/ checks' = Applied(Write(p)) /\ UNCHANGED late
           \/ late' = Delayed(p) /\ UNCHANGED checks
    PROVE  DeliveryInv'
<1>0. /\ pc \in [Reconciler -> Place] /\ row \in [Releases -> Row]
      /\ checks \in [Releases -> Nat] /\ late \subseteq [kind : {"create"}, release : Releases]
  BY DEF DeliveryInv, DeliveryTypes
<1>1. pc'[p] = place /\ \A q \in Reconciler : q # p => pc'[q] = pc[q]
  BY <1>0
<1>2. \A q \in Reconciler, s \in Releases :
        /\ MayCreate(q, s)' => MayCreate(q, s)
        /\ Creating(q, s)' => Creating(q, s) /\ q # p
  BY <1>1 DEF MayCreate, Creating
<1>3. StartInv'
  BY <1>2 DEF DeliveryInv, StartInv
<1>a. AskedInv'
  <2>1. lock = p /\ asked = NotAsked
    BY DeliveryAssumption DEF DeliveryInv, AskedInv
  <2>2. \A s \in Releases : MayCreate(p, s)' => MayCreate(p, s)
    BY <1>2
  <2> QED BY <2>1, <2>2, DeliveryAssumption, StillAsked
<1>4. CASE UNCHANGED <<checks, late>>
  <2>1. DeliveryTypes'
    BY <1>4 DEF DeliveryInv, DeliveryTypes
  <2>2. CreateInv'
    BY <1>2, <1>4 DEF DeliveryInv, CreateInv, OnlyOne
  <2> QED BY <1>3, <1>a, <2>1, <2>2 DEF DeliveryInv
<1>5. ASSUME pc[p].what = "create"
      PROVE  /\ row[r].started /\ checks[r] = 0 /\ Underway(r) \notin late
             /\ \A q \in Reconciler : ~Creating(q, r)'
             /\ Write(p) = Underway(r)
  <2>1. Creating(p, r)
    BY <1>5 DEF Creating
  <2>2. OnlyOne(r)
    BY <1>0 DEF DeliveryInv, CreateInv
  <2>3. row[r].started /\ checks[r] = 0 /\ Underway(r) \notin late
    BY <1>0, <2>1, <2>2 DEF OnlyOne
  <2>4. \A q \in Reconciler : ~Creating(q, r)'
    <3> SUFFICES ASSUME NEW q \in Reconciler, Creating(q, r)' PROVE FALSE
      OBVIOUS
    <3>1. Creating(q, r) /\ q # p
      BY <1>0, <1>2
    <3> QED BY <2>1, <2>2, <3>1 DEF OnlyOne
  <2> QED BY <1>5, <2>3, <2>4 DEF Write, Underway
<1>6. CASE pc[p].what # "create"
  <2>1. UNCHANGED <<checks, late>>
    BY <1>6 DEF Applied, Delayed, Write
  <2> QED BY <2>1, <1>4
<1>7. CASE pc[p].what = "create" /\ checks' = Applied(Write(p)) /\ UNCHANGED late
  <2>1. checks' = [checks EXCEPT ![r] = @ + 1]
    <3>1. Applied(Underway(r)) = [checks EXCEPT ![r] = @ + 1]
      BY DEF Applied, Underway
    <3>2. Write(p) = Underway(r)
      BY <1>5, <1>7
    <3> QED BY <1>7, <3>1, <3>2
  <2>2. checks' \in [Releases -> Nat] /\ checks'[r] = 1
        /\ \A s \in Releases : s # r => checks'[s] = checks[s]
    BY <1>0, <1>5, <1>7, <2>1
  <2>3. DeliveryTypes'
    BY <1>7, <2>2 DEF DeliveryInv, DeliveryTypes
  <2>4. ASSUME NEW s \in Releases PROVE OnlyOne(s)'
    <3>1. OnlyOne(s)
      BY DEF DeliveryInv, CreateInv
    <3>2. CASE s = r
      BY <1>0, <1>5, <1>7, <2>2, <3>2 DEF OnlyOne, Underway
    <3>3. CASE s # r
      BY <1>0, <1>2, <1>7, <2>2, <3>1, <3>3 DEF OnlyOne, Underway
    <3> QED BY <3>2, <3>3
  <2> QED BY <1>3, <1>a, <2>3, <2>4 DEF DeliveryInv, CreateInv
<1>8. CASE pc[p].what = "create" /\ late' = Delayed(p) /\ UNCHANGED checks
  <2>1. late' = late \cup {Underway(r)}
    BY <1>5, <1>8 DEF Delayed, Underway
  <2>2. \A s \in Releases : s # r => (Underway(s) \in late' <=> Underway(s) \in late)
    BY <2>1 DEF Underway
  <2>3. DeliveryTypes'
    BY <1>0, <1>8, <2>1 DEF DeliveryInv, DeliveryTypes, Underway
  <2>4. ASSUME NEW s \in Releases PROVE OnlyOne(s)'
    <3>1. OnlyOne(s)
      BY DEF DeliveryInv, CreateInv
    <3>2. CASE s = r
      BY <1>0, <1>5, <1>8, <2>2, <3>2 DEF OnlyOne, Underway
    <3>3. CASE s # r
      BY <1>0, <1>2, <1>8, <2>2, <3>1, <3>3 DEF OnlyOne, Underway
    <3> QED BY <3>2, <3>3
  <2> QED BY <1>3, <1>a, <2>3, <2>4 DEF DeliveryInv, CreateInv
<1> QED BY <1>4, <1>6, <1>7, <1>8

LEMMA AnswerStep ==
    ASSUME DeliveryInv, NEW p \in Reconciler, Answered(p) \/ NotAnswered(p)
    PROVE  DeliveryInv'
<1>0. /\ pc \in [Reconciler -> Place] /\ pc[p].at = "sent" /\ pc[p].release \in Releases
      /\ lock' = Nobody /\ UNCHANGED <<row, asked, installs>>
  BY DEF DeliveryInv, DeliveryTypes, Answered, NotAnswered
<1>1. ASSUME NEW at \in {"written", "failed"}, NEW what \in {"none", "retry", "ambiguous"},
             at = "failed" => what # "none", Move(p, at, what),
             \/ UNCHANGED <<checks, late>>
             \/ checks' = Applied(Write(p)) /\ UNCHANGED late
             \/ late' = Delayed(p) /\ UNCHANGED checks
      PROVE  DeliveryInv'
  <2> DEFINE place == [pc[p] EXCEPT !.at = at, !.what = what]
  <2>1. pc' = [pc EXCEPT ![p] = place] /\ place \in Place
    BY <1>0, <1>1 DEF Move, Place
  <2>2. place.at = at /\ place.what = what /\ place.release = pc[p].release
    BY <1>0 DEF Place
  <2> HIDE DEF place
  <2> QED BY <1>0, <1>1, <2>1, <2>2, SentStep
<1>2. CASE Answered(p)
  <2>1. Move(p, "written", "none") /\ checks' = Applied(Write(p)) /\ UNCHANGED late
    BY <1>2 DEF Answered
  <2> QED BY <2>1, <1>1
<1>3. CASE NotAnswered(p)
  <2>1. \/ Move(p, "failed", "retry") \/ Move(p, "failed", "ambiguous")
    BY <1>3 DEF NotAnswered
  <2>2. \/ UNCHANGED <<checks, late>>
        \/ checks' = Applied(Write(p)) /\ UNCHANGED late
        \/ late' = Delayed(p) /\ UNCHANGED checks
    BY <1>3 DEF NotAnswered
  <2>3. CASE Move(p, "failed", "retry")
    BY <2>2, <2>3, <1>1
  <2>4. CASE Move(p, "failed", "ambiguous")
    BY <2>2, <2>4, <1>1
  <2> QED BY <2>1, <2>3, <2>4
<1> QED BY <1>2, <1>3

LEMMA FinishStep ==
    ASSUME DeliveryInv, NEW p \in Reconciler, Finish(p)
    PROVE  DeliveryInv'
<1> DEFINE r == pc[p].release
<1>0. /\ pc \in [Reconciler -> Place] /\ pc[p].at \in {"written", "failed"} /\ r \in Releases
      /\ row \in [Releases -> Row] /\ installs \in Nat
      /\ pc' = [pc EXCEPT ![p] = Unoccupied]
      /\ UNCHANGED <<lock, asked, late, checks, installs>>
  BY DEF DeliveryInv, DeliveryTypes, Finish
<1>1. Unoccupied \in Place /\ Unoccupied.at = "idle"
  BY DEF Unoccupied, Place
<1>2. pc'[p] = Unoccupied /\ \A q \in Reconciler : q # p => pc'[q] = pc[q]
  BY <1>0
<1>3. \A q \in Reconciler, s \in Releases :
        /\ MayCreate(q, s)' => MayCreate(q, s)
        /\ Creating(q, s)' => Creating(q, s)
  BY <1>1, <1>2 DEF MayCreate, Creating
<1>4. /\ row' \in [Releases -> Row]
      /\ \A s \in Releases : /\ row'[s].started = row[s].started
                             /\ row'[s].claim = row[s].claim
                             /\ row'[s].status \in {"none", "unrouted"} =>
                                   row[s].status \in {"none", "unrouted"}
                             /\ row[s].status \in {"none", "unrouted"} =>
                                   row'[s].status = row[s].status
  <2>0. row' # row => row[r].status = "claimed"
    BY DEF Finish, Holds
  <2>1. CASE row' = row
    BY <1>0, <2>1
  <2>2. CASE row' # row /\ row' = [row EXCEPT ![r].status = "delivered", ![r].due = Poll]
    BY <1>0, <2>0, <2>2, DeliveryAssumption DEF Row, RowStatus, Live
  <2>3. CASE row' # row /\ pc[p].at = "failed" /\ row' = [row EXCEPT ![r].status = pc[p].what]
    <3>1. pc[p].what \in {"retry", "ambiguous"}
      BY <2>3 DEF DeliveryInv, DeliveryTypes
    <3> QED BY <1>0, <2>0, <2>3, <3>1 DEF Row, RowStatus, Live
  <2> QED BY <1>0, <2>1, <2>2, <2>3 DEF Finish
<1>5. DeliveryTypes'
  BY <1>0, <1>1, <1>2, <1>4 DEF DeliveryInv, DeliveryTypes
<1>6. StartInv'
  BY <1>3, <1>4 DEF DeliveryInv, StartInv
<1>7. CreateInv'
  BY <1>0, <1>3, <1>4 DEF DeliveryInv, CreateInv, OnlyOne
<1>8. AskedInv'
  <2>1. \A s \in Releases : MayCreate(p, s)' => MayCreate(p, s)
    BY <1>3
  <2>2. asked # NotAsked => lock = Nobody /\ asked.release \in Releases
    BY DEF DeliveryInv, AskedInv
  <2> QED BY <1>0, <1>1, <1>4, <2>1, <2>2, StillAsked
<1> QED BY <1>5, <1>6, <1>7, <1>8 DEF DeliveryInv

LEMMA CrashStep ==
    ASSUME DeliveryInv, NEW p \in Reconciler, Crash(p)
    PROVE  DeliveryInv'
<1>1. Unoccupied \in Place /\ Unoccupied.at = "idle"
  BY DEF Unoccupied, Place
<1>2. pc' = [pc EXCEPT ![p] = Unoccupied] /\ UNCHANGED <<row, asked, checks, installs>>
  BY DEF Crash
<1>3. CASE pc[p].at = "sent"
  <2>1. pc[p].release \in Releases /\ late' = Delayed(p) /\ lock' = Nobody
    BY <1>3 DEF Crash, DeliveryInv, DeliveryTypes, AskedInv
  <2> QED BY <1>1, <1>2, <1>3, <2>1, SentStep
<1>4. CASE pc[p].at # "sent"
  <2>1. UNCHANGED late
    BY <1>4 DEF Crash
  <2>2. \A r \in Releases : MayCreate(p, r)' => MayCreate(p, r)
    BY <1>1, <1>2 DEF MayCreate, DeliveryInv, DeliveryTypes
  <2>3. /\ \A q \in Reconciler : q # p /\ lock = q => lock' = q
        /\ asked # NotAsked => lock' = Nobody
    BY DEF Crash, DeliveryInv, AskedInv
  <2> QED BY <1>1, <1>2, <2>1, <2>2, <2>3, CallOnly
<1> QED BY <1>3, <1>4

LEMMA LateStep ==
    ASSUME DeliveryInv, NEW q \in late, LateWrite(q), NEW r \in Releases, q = Underway(r)
    PROVE  DeliveryInv'
<1>0. /\ q = Underway(r)
      /\ checks \in [Releases -> Nat] /\ late \subseteq [kind : {"create"}, release : Releases]
      /\ UNCHANGED <<row, lock, asked, pc, installs>> /\ late' = late \ {q}
  BY DEF DeliveryInv, DeliveryTypes, LateWrite, Underway
<1>1. checks' = [checks EXCEPT ![r] = @ + 1]
  BY <1>0 DEF LateWrite, Applied, Underway
<1>2. /\ row[r].started /\ checks[r] = 0
      /\ \A p \in Reconciler : ~Creating(p, r)
  BY <1>0 DEF DeliveryInv, CreateInv, OnlyOne
<1>3. /\ checks' \in [Releases -> Nat] /\ checks'[r] = 1
      /\ \A s \in Releases : s # r => checks'[s] = checks[s]
  BY <1>0, <1>1, <1>2
<1>4. /\ Underway(r) \notin late'
      /\ \A s \in Releases : Underway(s) \in late' => Underway(s) \in late
  BY <1>0
<1>5. DeliveryTypes'
  BY <1>0, <1>3 DEF DeliveryInv, DeliveryTypes
<1>6. StartInv'
  BY <1>0 DEF DeliveryInv, StartInv, MayCreate
<1>7. CreateInv'
  BY <1>0, <1>2, <1>3, <1>4 DEF DeliveryInv, CreateInv, OnlyOne, Creating
<1>8. AskedInv'
  BY <1>0 DEF DeliveryInv, AskedInv, MayCreate
<1> QED BY <1>5, <1>6, <1>7, <1>8 DEF DeliveryInv

-----------------------------------------------------------------------------

LEMMA DeliveryStep == DeliveryInv /\ [DeliveryNext]_deliveryVars => DeliveryInv'
<1> SUFFICES ASSUME DeliveryInv, [DeliveryNext]_deliveryVars PROVE DeliveryInv'
  OBVIOUS
<1>1. CASE People
  BY <1>1, PeopleStep
<1>2. ASSUME NEW p \in Reconciler, Step(p) PROVE DeliveryInv'
  <2>1. CASE BeginWrite(p)
    <3>1. pc[p].release \in Releases
      BY <2>1 DEF BeginWrite, DeliveryInv, DeliveryTypes
    <3> QED BY <2>1, <3>1, BeginStep
  <2> QED BY <1>2, <2>1, AnswerStep, FinishStep DEF Step
<1>3. ASSUME NEW p \in Reconciler, Reconcile(p) PROVE DeliveryInv'
  BY <1>3, ReconcileStep
<1>4. ASSUME NEW p \in Reconciler, Crash(p) PROVE DeliveryInv'
  BY <1>4, CrashStep
<1>5. ASSUME NEW p \in Reconciler, NEW r \in Releases, Claim(p, r) PROVE DeliveryInv'
  BY <1>5, ClaimStep
<1>6. ASSUME NEW q \in late, LateWrite(q) PROVE DeliveryInv'
  <2>1. q.release \in Releases /\ q = Underway(q.release)
    BY DEF DeliveryInv, DeliveryTypes, Underway
  <2> QED BY <1>6, <2>1, LateStep
<1>7. CASE Elapse
  BY <1>7, ElapseStep
<1>8. CASE UNCHANGED deliveryVars
  BY <1>8 DEF deliveryVars, DeliveryInv, DeliveryTypes, StartInv, AskedInv, CreateInv, OnlyOne,
             MayCreate, Creating
<1> QED BY <1>1, <1>2, <1>3, <1>4, <1>5, <1>6, <1>7, <1>8 DEF DeliveryNext

\* A release never has two check runs.
THEOREM CreatedAtMostOnceAlways == DeliverySpec => []CreatedAtMostOnce
<1>1. DeliveryInv => CreatedAtMostOnce
  BY DEF DeliveryInv, CreateInv, OnlyOne, CreatedAtMostOnce
<1> QED BY <1>1, DeliveryInitially, DeliveryStep, PTL DEF DeliverySpec

-----------------------------------------------------------------------------
(* Sources: for any components, senders, positions and lifetimes.           *)

LEMMA SourceInitially == SourcesInit => SourceInv
<1> SUFFICES ASSUME SourcesInit PROVE SourceInv
  OBVIOUS
<1> DEFINE C == [active : BOOLEAN, expires : Int]
<1>1. /\ batch = <<>> /\ change = <<>> /\ health = <<>> /\ time = 0
      /\ mode \in {"IMPORT", "PUSH", "POLL"}
  BY DEF SourcesInit
<1>2. PICK ttl \in Validity : configuration = <<[active |-> TRUE, expires |-> ttl]>>
  BY DEF SourcesInit
<1>3. configuration \in Seq(C) /\ Current > 0
  <2>1. [active |-> TRUE, expires |-> ttl] \in C
    BY SourcesAssumption
  <2> HIDE DEF C
  <2> QED
    BY <1>2, <2>1 DEF Current
<1>4. DOMAIN batch = {} /\ DOMAIN change = {} /\ DOMAIN health = {} /\ Projecting = {}
  BY <1>1 DEF Projecting
<1>5. SourceTypes
  BY <1>1, <1>3 DEF SourceTypes
<1> QED
  BY <1>4, <1>5 DEF SourceInv, ConfigInv, OrderInv, StatusInv, HoleInv, DifferencesAreAnnounced

\* What the sequences of records are made of.
LEMMA Delivered ==
    ASSUME SourceTypes
    PROVE  /\ Len(batch) \in Nat /\ DOMAIN batch = 1..Len(batch)
           /\ \A i \in DOMAIN batch : batch[i] \in BatchRecord
           /\ \A c \in DOMAIN change : change[c] \in ChangeRecord
           /\ \A h \in DOMAIN health : health[h] \in HealthRecord
           /\ Current \in Nat
<1>1. /\ batch \in Seq(BatchRecord) /\ change \in Seq(ChangeRecord)
      /\ health \in Seq(HealthRecord) /\ configuration \in Seq([active : BOOLEAN, expires : Int])
  BY DEF SourceTypes
<1> QED
  BY <1>1, LenProperties, ElementOfSeq DEF Current

LEMMA BatchFields ==
    ASSUME NEW b \in BatchRecord
    PROVE  /\ b.config \in Nat /\ b.valid \in Nat /\ b.complete \in BOOLEAN
           /\ b.components \in Reports /\ b.projects \in BOOLEAN
           /\ b.continuity \in Continuities /\ b.place \in Position \cup {Unplaced}
BY DEF BatchRecord

LEMMA BatchNumbers ==
    ASSUME SourceTypes
    PROVE  \A i \in DOMAIN batch : i \in Nat /\ batch[i].config \in Nat /\ batch[i].valid \in Nat
<1>1. ASSUME NEW i \in DOMAIN batch
      PROVE  i \in Nat /\ batch[i].config \in Nat /\ batch[i].valid \in Nat
  <2>1. batch[i] \in BatchRecord /\ i \in 1..Len(batch) /\ Len(batch) \in Nat
    BY Delivered
  <2>2. batch[i].config \in Nat /\ batch[i].valid \in Nat
    BY <2>1, BatchFields
  <2> QED
    BY <2>1, <2>2
<1> QED
  BY <1>1

LEMMA Configs ==
    ASSUME ConfigInv
    PROVE  /\ \A i \in DOMAIN batch : batch[i].config <= Current
           /\ \A i \in DOMAIN batch : batch[i].config < Current => Reconfigured(i)
           /\ \A i, j \in DOMAIN batch : i <= j => batch[i].config <= batch[j].config
           /\ \A c \in DOMAIN change : change[c].after <= Len(batch)
BY DEF ConfigInv

\* Of the batches that project there is a last one.
LEMMA PriorIsLast ==
    ASSUME SourceTypes
    PROVE  /\ Projecting \subseteq DOMAIN batch
           /\ \A i \in Projecting : batch[i].projects
           /\ Projecting # {} => /\ PriorBatch \in Projecting
                                 /\ \A i \in Projecting : i <= PriorBatch
           /\ PriorBatch # 0 <=> Projecting # {}
<1>1. Projecting \in SUBSET (1..Len(batch)) /\ Len(batch) \in Nat
  BY Delivered DEF Projecting
<1>2. Projecting # {} => /\ Max(Projecting) \in Projecting
                         /\ \A i \in Projecting : i <= Max(Projecting)
  BY <1>1, Largest
<1> QED
  BY <1>1, <1>2 DEF PriorBatch, Projecting

\* The parts of the invariant read the records, not the configuration's authority.
LEMMA TickKeeps ==
    ASSUME SourceInv, UNCHANGED <<mode, configuration, batch, change, health>>, time' \in Nat
    PROVE  SourceInv'
<1>1. SourceTypes'
  BY DEF SourceInv, SourceTypes, Current
<1>2. ConfigInv'
  BY DEF SourceInv, ConfigInv, Reconfigured, Current
<1>3. OrderInv' /\ DifferencesAreAnnounced'
  BY DEF SourceInv, OrderInv, DifferencesAreAnnounced, Projecting
<1>4. StatusInv'
  BY DEF SourceInv, StatusInv, Projecting, PriorBatch, LastStatus, StatusFrom
<1>5. HoleInv'
  BY DEF SourceInv, HoleInv, Projecting, PriorBatch, Closed
<1> QED
  BY <1>1, <1>2, <1>3, <1>4, <1>5 DEF SourceInv

LEMMA FailureKeeps ==
    ASSUME SourceInv, NEW code \in Failures, collect_failure(code)
    PROVE  SourceInv'
<1>1. /\ health' = Append(health, [status |-> code, at |-> time, of |-> Len(batch)])
      /\ UNCHANGED <<mode, configuration, batch, change, time>>
  BY DEF collect_failure, Failed
<1>2. SourceTypes /\ Len(batch) \in Nat /\ health \in Seq(HealthRecord)
  BY Delivered DEF SourceInv, SourceTypes
<1>3. [status |-> code, at |-> time, of |-> Len(batch)] \in HealthRecord
  <2>1. code \in Statuses /\ time \in Nat
    BY <1>2 DEF SourceTypes, Statuses
  <2> QED
    BY <1>2, <2>1 DEF HealthRecord
<1>4. /\ health' \in Seq(HealthRecord) /\ Len(health') = Len(health) + 1
      /\ Len(health) \in Nat
      /\ DOMAIN health' = DOMAIN health \cup {Len(health) + 1}
      /\ \A h \in DOMAIN health : health'[h] = health[h]
      /\ health'[Len(health) + 1] = [status |-> code, at |-> time, of |-> Len(batch)]
  BY <1>1, <1>2, <1>3, Appended
<1>5. health' # <<>> /\ LastStatus' = code
  BY <1>4 DEF LastStatus
<1>6. SourceTypes'
  BY <1>1, <1>2, <1>4 DEF SourceTypes, Current
<1>7. StatusInv'
  <2>1. \A h \in DOMAIN health' : health'[h].of <= Len(batch)
    BY <1>2, <1>4 DEF SourceInv, StatusInv
  <2>2. code \in Unreliable
    BY DEF Failures, Unreliable
  <2> QED
    BY <1>1, <1>5, <2>1, <2>2 DEF SourceInv, StatusInv, Projecting
<1>8. ConfigInv'
  BY <1>1 DEF SourceInv, ConfigInv, Reconfigured, Current
<1>9. OrderInv' /\ DifferencesAreAnnounced'
  <2>1. Projecting' = Projecting
    BY <1>1 DEF Projecting
  <2>2. OrderInv'
    BY <1>1, <2>1 DEF SourceInv, OrderInv
  <2>3. DifferencesAreAnnounced'
    BY <1>1, <2>1 DEF SourceInv, DifferencesAreAnnounced
  <2> QED
    BY <2>2, <2>3
<1>10. HoleInv'
  <2>1. Projecting' = Projecting /\ PriorBatch' = PriorBatch
    BY <1>1 DEF Projecting, PriorBatch
  <2>2. \A g : Closed(g)' <=> Closed(g)
    BY <1>1, <2>1 DEF Closed
  <2> QED
    BY <1>1, <2>1, <2>2 DEF SourceInv, HoleInv
<1> QED
  BY <1>6, <1>7, <1>8, <1>9, <1>10 DEF SourceInv

LEMMA ReconfigurationKeeps ==
    ASSUME SourceInv, NEW on \in BOOLEAN, NEW ttl \in Validity, reconfigure(on, ttl)
    PROVE  SourceInv'
<1> DEFINE C == [active : BOOLEAN, expires : Int]
           conf == [active |-> on, expires |-> time + ttl]
           names == IF batch = <<>> THEN {} ELSE {k \in Component : batch[Len(batch)].components[k] # 0}
           new == [names |-> names, after |-> Len(batch), kind |-> "CONNECTOR_CONFIGURATION"]
           bad == [status |-> "CONFIGURATION_CHANGED", at |-> time, of |-> Len(batch)]
<1>1. /\ configuration' = Append(configuration, conf)
      /\ change' = Append(change, new)
      /\ health' = Append(health, bad)
      /\ UNCHANGED <<mode, batch, time>>
  BY DEF reconfigure, Failed
<1>2. /\ SourceTypes /\ Len(batch) \in Nat /\ DOMAIN batch = 1..Len(batch)
      /\ health \in Seq(HealthRecord) /\ change \in Seq(ChangeRecord) /\ configuration \in Seq(C)
      /\ time \in Nat /\ Current \in Nat /\ Current > 0
  BY Delivered DEF SourceInv, SourceTypes
<1>3. bad \in HealthRecord /\ bad.of = Len(batch) /\ bad.status = "CONFIGURATION_CHANGED"
  BY <1>2 DEF HealthRecord, Statuses
<1>4. new \in ChangeRecord /\ new.after = Len(batch) /\ new.kind = "CONNECTOR_CONFIGURATION"
  <2>1. names \in SUBSET Component
    OBVIOUS
  <2> HIDE DEF names
  <2> QED
    BY <1>2, <2>1 DEF ChangeRecord
<1>5. conf \in C
  BY <1>2, SourcesAssumption
<1> HIDE DEF C, conf, names, new, bad
<1>6. /\ health' \in Seq(HealthRecord) /\ Len(health') = Len(health) + 1 /\ Len(health) \in Nat
      /\ DOMAIN health' = DOMAIN health \cup {Len(health) + 1}
      /\ \A h \in DOMAIN health : health'[h] = health[h]
      /\ health'[Len(health) + 1] = bad
  BY <1>1, <1>2, <1>3, Appended
<1>7. /\ change' \in Seq(ChangeRecord) /\ Len(change) \in Nat
      /\ DOMAIN change' = DOMAIN change \cup {Len(change) + 1}
      /\ \A c \in DOMAIN change : change'[c] = change[c]
      /\ change'[Len(change) + 1] = new
  BY <1>1, <1>2, <1>4, Appended
<1>8. configuration' \in Seq(C) /\ Current' = Current + 1
  BY <1>1, <1>2, <1>5, Appended DEF Current
<1>9. SourceTypes'
  BY <1>1, <1>2, <1>6, <1>7, <1>8 DEF SourceTypes, C
<1>10. ConfigInv'
  <2>1. \A i \in DOMAIN batch : Reconfigured(i)'
    <3> SUFFICES ASSUME NEW i \in DOMAIN batch
                 PROVE  \E c \in DOMAIN change' : /\ change'[c].kind = "CONNECTOR_CONFIGURATION"
                                                  /\ change'[c].after \in i..Len(batch')
      BY DEF Reconfigured
    <3> QED
      BY <1>1, <1>2, <1>4, <1>7
  <2>2. \A i \in DOMAIN batch : batch[i].config <= Current /\ batch[i].config \in Nat
    <3>1. \A i \in DOMAIN batch : batch[i].config \in Nat
      BY <1>2, BatchNumbers
    <3>2. \A i \in DOMAIN batch : batch[i].config <= Current
      BY Configs DEF SourceInv
    <3> QED
      BY <3>1, <3>2
  <2>3. \A c \in DOMAIN change' : change'[c].after <= Len(batch)
    BY <1>2, <1>4, <1>7 DEF SourceInv, ConfigInv
  <2> QED
    BY <1>1, <1>2, <1>8, <2>1, <2>2, <2>3 DEF SourceInv, ConfigInv
<1>11. OrderInv'
  BY <1>1 DEF SourceInv, OrderInv, Projecting
<1>12. StatusInv'
  <2>1. health' # <<>> /\ LastStatus' = "CONFIGURATION_CHANGED"
    BY <1>3, <1>6 DEF LastStatus
  <2>2. \A h \in DOMAIN health' : health'[h].of <= Len(batch)
    BY <1>2, <1>3, <1>6 DEF SourceInv, StatusInv
  <2> QED
    BY <1>1, <2>1, <2>2 DEF SourceInv, StatusInv, Projecting, Unreliable
<1>13. HoleInv'
  <2> SUFFICES ASSUME NEW c \in DOMAIN change', change'[c].kind = "SOURCE_GAP",
                      change'[c].after \in Projecting,
                      batch[PriorBatch].config = batch[change'[c].after].config
               PROVE  Closed(change'[c].after) \/ batch[PriorBatch].continuity = "CURSOR_GAP"
    <3>1. batch' = batch /\ Projecting' = Projecting /\ PriorBatch' = PriorBatch
      BY <1>1 DEF Projecting, PriorBatch
    <3>2. \A g : Closed(g)' <=> Closed(g)
      BY <3>1 DEF Closed
    <3> QED
      BY <3>1, <3>2 DEF HoleInv
  <2>1. c \in DOMAIN change /\ change'[c] = change[c]
    BY <1>4, <1>7
  <2> QED
    BY <2>1 DEF SourceInv, HoleInv
<1>14. DifferencesAreAnnounced'
  <2>1. \A c \in DOMAIN change : c \in DOMAIN change' /\ change'[c] = change[c]
    BY <1>7
  <2> QED
    BY <1>1, <2>1 DEF SourceInv, DifferencesAreAnnounced, Projecting
<1> QED
  BY <1>9, <1>10, <1>11, <1>12, <1>13, <1>14 DEF SourceInv


\* A batch of the configuration in force that is not late is not older than any other of
\* it; one of another configuration lies before a reconfiguration.
LEMMA PriorOf ==
    ASSUME SourceInv
    PROVE  /\ SameConfig => /\ PriorBatch \in Projecting /\ PriorBatch \in DOMAIN batch
                            /\ Old \in BatchRecord
           /\ \A i \in Projecting : batch[i].config = Current =>
                SameConfig /\ i <= PriorBatch /\ batch[i].valid <= Old.valid
           /\ Projecting # {} /\ ~SameConfig => Reconfigured(PriorBatch)
<1>0. ConfigInv
  BY DEF SourceInv
<1>1. SourceTypes
  BY DEF SourceInv
<1>2. /\ \A i \in DOMAIN batch : batch[i] \in BatchRecord
      /\ DOMAIN batch = 1..Len(batch) /\ Len(batch) \in Nat /\ Current \in Nat
  BY <1>1, Delivered
<1>3. \A i \in DOMAIN batch : batch[i].config \in Nat /\ i \in Nat
  BY <1>1, BatchNumbers
<1>4. /\ Projecting \subseteq DOMAIN batch
      /\ Projecting # {} => PriorBatch \in Projecting /\ \A i \in Projecting : i <= PriorBatch
      /\ PriorBatch # 0 <=> Projecting # {}
  BY <1>1, PriorIsLast
<1>5. ASSUME NEW i \in Projecting, batch[i].config = Current
      PROVE  SameConfig /\ i <= PriorBatch /\ batch[i].valid <= Old.valid
  <2>1. PriorBatch \in Projecting /\ i <= PriorBatch /\ PriorBatch # 0
    BY <1>4, <1>5
  <2>2. i \in DOMAIN batch /\ PriorBatch \in DOMAIN batch
    BY <1>4, <2>1
  <2>3. batch[PriorBatch].config = Current
    <3>1. batch[i].config <= batch[PriorBatch].config /\ batch[PriorBatch].config <= Current
      BY <1>0, <2>1, <2>2, Configs
    <3> QED
      BY <1>2, <1>3, <1>5, <2>2, <3>1
  <2> QED
    BY <1>5, <2>1, <2>3 DEF SourceInv, OrderInv, SameConfig, Old
<1>6. ASSUME Projecting # {}, ~SameConfig PROVE Reconfigured(PriorBatch)
  <2>1. PriorBatch \in DOMAIN batch /\ batch[PriorBatch].config # Current
    BY <1>4, <1>6 DEF SameConfig
  <2>2. batch[PriorBatch].config < Current
    <3>1. batch[PriorBatch].config <= Current /\ batch[PriorBatch].config \in Nat
      BY <1>0, <1>3, <2>1, Configs
    <3> QED
      BY <1>2, <2>1, <3>1
  <2> QED
    BY <1>0, <2>1, <2>2, Configs
<1>7. SameConfig => /\ PriorBatch \in Projecting /\ PriorBatch \in DOMAIN batch
                    /\ Old \in BatchRecord
  BY <1>2, <1>4 DEF SameConfig, Old
<1> QED
  BY <1>5, <1>6, <1>7

\* persist_batch, of a push or import as of a collection.
LEMMA BatchKeeps ==
    ASSUME SourceInv, NEW reported \in Reports, NEW complete \in BOOLEAN, NEW when \in Nat,
           NEW at \in Position \cup {Unplaced}, NEW reconciled \in BOOLEAN,
           persist_batch(reported, complete, when, at, reconciled)
    PROVE  SourceInv'
<1> DEFINE n == Len(batch) + 1
           tardy == Reordered(when, at)
           components == Merged(reported, complete)
           continuity == Continuity(reconciled, complete, when, at)
           names == ChangedComponents(components)
           new == [config |-> Current, valid |-> when, place |-> at, complete |-> complete,
                   components |-> components, projects |-> ~tardy, continuity |-> continuity]
           told == [names |-> names, after |-> n,
                    kind |-> IF Gap(at) THEN "SOURCE_GAP" ELSE "COMPONENT_CHANGE"]
           entry == [status |-> IF continuity = "SNAPSHOT_RECONCILED" THEN "CURRENT" ELSE continuity,
                     at |-> time, of |-> Len(batch)]
<1>1. /\ SourceTypes /\ ConfigInv /\ OrderInv /\ StatusInv /\ HoleInv /\ DifferencesAreAnnounced
      /\ batch \in Seq(BatchRecord) /\ change \in Seq(ChangeRecord) /\ health \in Seq(HealthRecord)
      /\ Len(batch) \in Nat /\ DOMAIN batch = 1..Len(batch) /\ time \in Nat /\ Current \in Nat
  BY Delivered DEF SourceInv, SourceTypes
<1>2. /\ batch' = Append(batch, new)
      /\ change' = IF names # {} \/ Gap(at) THEN Append(change, told) ELSE change
      /\ health' = IF tardy THEN health ELSE Append(health, entry)
      /\ UNCHANGED <<mode, configuration, time>>
  BY DEF persist_batch, Health
<1>3. SameConfig => Old \in BatchRecord /\ PriorBatch \in Projecting /\ PriorBatch \in DOMAIN batch
  BY PriorOf
<1>4. components \in Reports
  <2>1. OldComponents \in Reports
    BY <1>3, BatchFields DEF OldComponents, Absent, Reports
  <2> QED
    BY <2>1 DEF Merged, Reports
<1>5. continuity \in Continuities
  BY <1>3, BatchFields DEF Continuity, Reordered, Continuities
<1>6. tardy \in BOOLEAN /\ tardy => SameConfig
  BY DEF Reordered
<1>7. /\ ~tardy => \/ continuity = "SNAPSHOT_RECONCILED" /\ complete
                  \/ continuity = "CURSOR_GAP"
                  \/ /\ ~Gap(at) /\ ~(SameConfig /\ Old.continuity = "CURSOR_GAP")
                     /\ continuity = "PARTIAL" \/ complete
      /\ ~tardy /\ SameConfig => Old.valid <= when
  <2>1. SameConfig => Old.valid \in Nat
    BY <1>3, BatchFields
  <2> QED
    BY <2>1 DEF Continuity, Reordered
<1>8. names \in SUBSET Component /\ \A k \in Component : k \in names <=> components[k] # OldComponents[k]
  BY DEF ChangedComponents
<1>9. new \in BatchRecord /\ new.projects = ~tardy /\ new.config = Current /\ new.valid = when
      /\ new.components = components /\ new.continuity = continuity /\ new.complete = complete
  <2> HIDE DEF tardy, components, continuity
  <2> QED
    BY <1>1, <1>4, <1>5, <1>6 DEF BatchRecord
<1>10. told \in ChangeRecord /\ told.after = n /\ told.names = names
       /\ told.kind # "CONNECTOR_CONFIGURATION" /\ (Gap(at) <=> told.kind = "SOURCE_GAP")
  <2> HIDE DEF names
  <2> QED
    BY <1>1, <1>8 DEF ChangeRecord
<1>11. entry \in HealthRecord /\ entry.of = Len(batch)
       /\ entry.status = IF continuity = "SNAPSHOT_RECONCILED" THEN "CURRENT" ELSE continuity
  <2> HIDE DEF continuity
  <2> QED
    BY <1>1, <1>5 DEF HealthRecord, Statuses
<1> HIDE DEF tardy, components, continuity, names, new, told, entry
<1>12. /\ batch' \in Seq(BatchRecord) /\ Len(batch') = n
       /\ DOMAIN batch' = DOMAIN batch \cup {n}
       /\ \A i \in DOMAIN batch : batch'[i] = batch[i]
       /\ batch'[n] = new
       /\ n \notin DOMAIN batch
  BY <1>1, <1>2, <1>9, Appended
<1>13. /\ change' \in Seq(ChangeRecord)
       /\ DOMAIN change \subseteq DOMAIN change'
       /\ \A c \in DOMAIN change : change'[c] = change[c]
       /\ \A c \in DOMAIN change' \ DOMAIN change : change'[c] = told
       /\ names # {} \/ Gap(at) => \E c \in DOMAIN change' : change'[c] = told
  <2>1. CASE names # {} \/ Gap(at)
    BY <1>1, <1>2, <1>10, <2>1, Appended
  <2>2. CASE ~(names # {} \/ Gap(at))
    BY <1>1, <1>2, <2>2
  <2> QED
    BY <2>1, <2>2
<1>14. Current' = Current
  BY <1>2 DEF Current
<1>15. Projecting' = IF tardy THEN Projecting ELSE Projecting \cup {n}
  <2>1. Projecting' = {i \in DOMAIN batch' : batch'[i].projects}
    BY DEF Projecting
  <2> QED
    BY <1>9, <1>12, <2>1 DEF Projecting
<1>16. PriorBatch' = IF tardy THEN PriorBatch ELSE n
  <2>1. PriorBatch' = IF Projecting' = {} THEN 0 ELSE Max(Projecting')
    BY DEF PriorBatch
  <2>2. CASE tardy
    BY <1>15, <2>1, <2>2 DEF PriorBatch
  <2>3. CASE ~tardy
    <3>1. Projecting' \in SUBSET (1..n) /\ n \in Projecting' /\ n \in Nat
      BY <1>1, <1>15, <2>3 DEF Projecting
    <3>2. Max(Projecting') \in 1..n /\ n <= Max(Projecting')
      <4> HIDE DEF n
      <4> QED
        BY <3>1, Largest
    <3>3. Max(Projecting') = n
      BY <1>1, <3>2
    <3> QED
      BY <2>1, <2>3, <3>1, <3>3
  <2> QED
    BY <2>2, <2>3
<1>17. /\ Projecting \subseteq DOMAIN batch
       /\ Projecting # {} => PriorBatch \in Projecting /\ \A i \in Projecting : i <= PriorBatch
       /\ PriorBatch # 0 <=> Projecting # {}
  BY <1>1, PriorIsLast
<1>18. \A i \in DOMAIN batch : /\ i \in Nat /\ i < n /\ batch[i].config \in Nat /\ batch[i].valid \in Nat
                               /\ batch[i].config <= Current
  <2>1. \A i \in DOMAIN batch : i \in Nat /\ batch[i].config \in Nat /\ batch[i].valid \in Nat
    BY <1>1, BatchNumbers
  <2>2. \A i \in DOMAIN batch : i < n
    BY <1>1 DEF n
  <2>3. \A i \in DOMAIN batch : batch[i].config <= Current
    BY <1>1, Configs
  <2> QED
    BY <2>1, <2>2, <2>3

<1>19. SourceTypes'
  BY <1>1, <1>2, <1>11, <1>12, <1>13, Appended DEF SourceTypes, Current
<1>20. ConfigInv'
  <2>1. ASSUME NEW i \in DOMAIN batch', NEW j \in DOMAIN batch', i <= j
        PROVE  batch'[i].config <= batch'[j].config
    <3>1. CASE j \in DOMAIN batch
      <4>1. i \in DOMAIN batch
        BY <1>12, <1>18, <2>1, <3>1
      <4> QED
        BY <1>1, <1>12, <2>1, <3>1, <4>1 DEF ConfigInv
    <3>2. CASE j = n
      <4>1. batch'[j].config = Current /\ Current <= Current
        BY <1>1, <1>9, <1>12, <3>2
      <4> QED
        BY <1>9, <1>12, <1>18, <4>1
    <3> QED
      BY <1>12, <3>1, <3>2
  <2>2. ASSUME NEW i \in DOMAIN batch'
        PROVE  batch'[i].config <= Current' /\ (batch'[i].config < Current' => Reconfigured(i)')
    <3>1. CASE i = n
      BY <1>1, <1>9, <1>12, <1>14, <3>1
    <3>2. CASE i \in DOMAIN batch
      <4>1. Reconfigured(i) => Reconfigured(i)'
        <5> SUFFICES ASSUME NEW c \in DOMAIN change, change[c].kind = "CONNECTOR_CONFIGURATION",
                            change[c].after \in i..Len(batch)
                     PROVE  Reconfigured(i)'
          BY DEF Reconfigured
        <5>1. /\ c \in DOMAIN change' /\ change'[c].kind = "CONNECTOR_CONFIGURATION"
              /\ change'[c].after = change[c].after
          BY <1>13
        <5>2. change'[c].after \in i..n
          BY <1>1, <1>18, <3>2, <5>1
        <5> QED
          BY <1>12, <5>1, <5>2 DEF Reconfigured
      <4> QED
        <5>1. batch[i].config <= Current /\ (batch[i].config < Current => Reconfigured(i))
          BY <1>1, <3>2, Configs
        <5>2. batch'[i] = batch[i]
          BY <1>12, <3>2
        <5> QED
          BY <1>14, <4>1, <5>1, <5>2
    <3> QED
      BY <1>12, <3>1, <3>2
  <2>3. ASSUME NEW c \in DOMAIN change' PROVE change'[c].after <= Len(batch')
    <3>1. CASE c \in DOMAIN change
      <4>1. change'[c].after <= Len(batch) /\ change'[c].after \in Nat
        BY <1>1, <1>13, <3>1, Delivered DEF ConfigInv, ChangeRecord
      <4> QED
        BY <1>1, <1>12, <4>1
    <3>2. CASE c \notin DOMAIN change
      BY <1>1, <1>10, <1>12, <1>13, <3>2
    <3> QED
      BY <3>1, <3>2
  <2> QED
    BY <2>1, <2>2, <2>3 DEF ConfigInv
<1>21. OrderInv'
  <2> SUFFICES ASSUME NEW i \in Projecting', NEW j \in Projecting', i <= j,
                      batch'[i].config = batch'[j].config
               PROVE  batch'[i].valid <= batch'[j].valid
    BY DEF OrderInv
  <2>1. CASE j \in DOMAIN batch
    <3>1. i \in DOMAIN batch /\ j \in Projecting /\ i \in Projecting
      BY <1>1, <1>12, <1>15, <1>17, <1>18, <2>1
    <3> QED
      BY <1>1, <1>12, <2>1, <3>1 DEF OrderInv
  <2>2. CASE j = n
    <3>1. ~tardy /\ batch'[j].config = Current /\ batch'[j].valid = when
      BY <1>9, <1>12, <1>15, <1>17, <2>2
    <3>2. CASE i = n
      BY <2>2, <3>1, <3>2
    <3>3. CASE i \in Projecting
      <4>1. SameConfig /\ batch[i].valid <= Old.valid /\ batch[i].config = Current
        BY <1>12, <1>17, <3>1, <3>3, PriorOf
      <4>2. Old.valid <= when /\ Old.valid \in Nat /\ batch[i].valid \in Nat
        BY <1>3, <1>7, <1>17, <1>18, <3>1, <3>3, <4>1, BatchFields
      <4> QED
        BY <1>12, <1>17, <3>1, <3>3, <4>1, <4>2
    <3> QED
      BY <1>15, <3>1, <3>2, <3>3
  <2> QED
    BY <1>12, <1>15, <1>17, <2>1, <2>2
<1>22. StatusInv'
  <2>1. ASSUME NEW i \in Projecting', batch'[i].continuity \in Whole PROVE batch'[i].complete
    <3>1. CASE i \in Projecting
      BY <1>1, <1>12, <1>17, <2>1, <3>1 DEF StatusInv
    <3>2. CASE i = n /\ ~tardy
      BY <1>7, <1>9, <1>12, <2>1, <3>2 DEF Whole
    <3> QED
      BY <1>15, <3>1, <3>2
  <2>2. CASE tardy
    <3>1. /\ health' = health /\ Projecting' = Projecting /\ PriorBatch' = PriorBatch
          /\ LastStatus' = LastStatus
      BY <1>2, <1>15, <1>16, <2>2 DEF LastStatus
    <3>2. \A h \in DOMAIN health' : health'[h].of <= Len(batch')
      <4>1. \A h \in DOMAIN health : health[h].of \in Nat /\ health[h].of <= Len(batch)
        BY <1>1, Delivered DEF StatusInv, HealthRecord
      <4> QED
        BY <1>1, <1>12, <3>1, <4>1
    <3>3. Projecting # {} => StatusFrom(PriorBatch)' = StatusFrom(PriorBatch)
      BY <1>12, <1>17, <3>1 DEF StatusFrom
    <3> QED
      BY <1>1, <2>1, <3>1, <3>2, <3>3 DEF StatusInv
  <2>3. CASE ~tardy
    <3>1. /\ Len(health') = Len(health) + 1 /\ Len(health) \in Nat
          /\ DOMAIN health' = DOMAIN health \cup {Len(health) + 1}
          /\ \A h \in DOMAIN health : health'[h] = health[h]
          /\ health'[Len(health) + 1] = entry
      BY <1>1, <1>2, <1>11, <2>3, Appended
    <3>2. \A h \in DOMAIN health' : health'[h].of < n /\ health'[h].of <= Len(batch')
      <4>1. \A h \in DOMAIN health : health[h].of \in Nat /\ health[h].of <= Len(batch)
        BY <1>1, Delivered DEF StatusInv, HealthRecord
      <4> QED
        BY <1>1, <1>11, <1>12, <3>1, <4>1
    <3>3. health' # <<>> /\ LastStatus' = entry.status
      BY <3>1 DEF LastStatus
    <3>4. StatusFrom(PriorBatch)' = entry.status
      BY <1>9, <1>11, <1>12, <1>16, <2>3 DEF StatusFrom
    <3> QED
      BY <1>16, <2>1, <2>3, <3>2, <3>3, <3>4 DEF StatusInv
  <2> QED
    BY <1>6, <2>2, <2>3
<1>23. HoleInv'
  <2> SUFFICES ASSUME NEW c \in DOMAIN change', change'[c].kind = "SOURCE_GAP",
                      NEW g, g = change'[c].after, g \in Projecting',
                      batch'[PriorBatch'].config = batch'[g].config,
                      batch'[PriorBatch'].continuity # "CURSOR_GAP"
               PROVE  \E i \in Projecting' : /\ i >= g /\ batch'[i].config = batch'[g].config
                                             /\ batch'[i].continuity = "SNAPSHOT_RECONCILED"
    BY DEF HoleInv, Closed
  <2>1. CASE c \in DOMAIN change
    <3>1. g = change[c].after /\ change[c].kind = "SOURCE_GAP" /\ g <= Len(batch)
      BY <1>1, <1>13, <2>1 DEF ConfigInv
    <3>2. g \in DOMAIN batch' /\ g \in DOMAIN batch
      <4>1. change[c] \in ChangeRecord
        BY <1>1, <2>1, Delivered
      <4>2. g \in Nat
        BY <3>1, <4>1 DEF ChangeRecord
      <4>3. g # n
        BY <1>1, <3>1, <4>2 DEF n
      <4> QED
        BY <1>12, <1>15, <1>17, <4>3
    <3>3. g \in Projecting /\ batch'[g] = batch[g] /\ g \in Nat
      BY <1>12, <1>15, <1>18, <3>2
    <3>4. ASSUME Closed(g)
          PROVE  \E i \in Projecting' : /\ i >= g /\ batch'[i].config = batch'[g].config
                                        /\ batch'[i].continuity = "SNAPSHOT_RECONCILED"
      <4>1. PICK i \in Projecting : /\ i >= g /\ batch[i].config = batch[g].config
                                    /\ batch[i].continuity = "SNAPSHOT_RECONCILED"
        BY <3>4 DEF Closed
      <4>2. i \in Projecting' /\ batch'[i] = batch[i]
        BY <1>12, <1>15, <1>17
      <4> QED
        BY <3>3, <4>1, <4>2
    <3>5. CASE tardy
      <4>1. batch'[PriorBatch'] = batch[PriorBatch]
        BY <1>12, <1>16, <1>17, <3>3, <3>5
      <4>2. Closed(g)
        BY <1>1, <2>1, <3>1, <3>3, <4>1 DEF HoleInv
      <4> QED
        BY <3>4, <4>2
    <3>6. CASE ~tardy
      <4>1. batch'[PriorBatch'] = new /\ batch'[n] = new /\ n \in Projecting' /\ n >= g
        BY <1>1, <1>12, <1>15, <1>16, <1>18, <3>2, <3>6
      <4>2. batch[g].config = Current /\ continuity # "CURSOR_GAP"
        BY <1>9, <3>3, <4>1
      <4>3. SameConfig
        BY <3>3, <4>2, PriorOf
      <4>4. Closed(g) \/ Old.continuity = "CURSOR_GAP"
        BY <1>1, <2>1, <3>1, <3>3, <4>2, <4>3 DEF HoleInv, SameConfig, Old
      <4>5. Old.continuity = "CURSOR_GAP" => continuity = "SNAPSHOT_RECONCILED"
        BY <1>7, <3>6, <4>2, <4>3
      <4>6. CASE continuity = "SNAPSHOT_RECONCILED"
        BY <1>9, <3>3, <4>1, <4>2, <4>6
      <4> QED
        BY <3>4, <4>4, <4>5, <4>6
    <3> QED
      BY <1>6, <3>5, <3>6
  <2>2. CASE c \notin DOMAIN change
    <3>1. g = n /\ Gap(at) /\ ~tardy
      BY <1>10, <1>12, <1>13, <1>15, <1>17, <2>2
    <3>2. batch'[PriorBatch'] = new /\ batch'[n] = new
      BY <1>12, <1>16, <3>1
    <3>3. continuity # "CURSOR_GAP"
      BY <1>9, <3>2
    <3>4. continuity = "SNAPSHOT_RECONCILED"
      BY <1>7, <3>1, <3>3
    <3>5. n \in Nat /\ n >= n /\ n \in Projecting'
      BY <1>1, <1>15, <3>1 DEF n
    <3> QED
      BY <1>9, <3>1, <3>2, <3>4, <3>5
  <2> QED
    BY <2>1, <2>2
<1>24. DifferencesAreAnnounced'
  <2> SUFFICES ASSUME NEW i \in Projecting', NEW j \in Projecting', i < j, NEW k \in Component,
                      batch'[i].components[k] # batch'[j].components[k]
               PROVE  \E c \in DOMAIN change' :
                        /\ change'[c].after \in i..j
                        /\ k \in change'[c].names \/ change'[c].kind = "CONNECTOR_CONFIGURATION"
    BY DEF DifferencesAreAnnounced
  <2>1. i \in Nat /\ j \in Nat /\ n \in Nat
    BY <1>1, <1>15, <1>17, <1>18 DEF n
  <2>2. i \in Projecting /\ batch'[i] = batch[i] /\ i \in DOMAIN batch
    BY <1>1, <1>12, <1>15, <1>17, <1>18, <2>1
  <2>3. ASSUME NEW m \in Projecting, m <= j, i <= m, batch[i].components[k] # batch[m].components[k]
        PROVE  \E c \in DOMAIN change' :
                 /\ change'[c].after \in i..j
                 /\ k \in change'[c].names \/ change'[c].kind = "CONNECTOR_CONFIGURATION"
    <3>1. i < m /\ m \in Nat
      BY <1>17, <1>18, <2>1, <2>3
    <3>2. PICK c \in DOMAIN change :
            /\ change[c].after \in i..m
            /\ k \in change[c].names \/ change[c].kind = "CONNECTOR_CONFIGURATION"
      BY <1>1, <2>2, <2>3, <3>1 DEF DifferencesAreAnnounced
    <3>3. c \in DOMAIN change' /\ change'[c] = change[c]
      BY <1>13
    <3>4. change[c].after \in i..j
      BY <2>1, <2>3, <3>1, <3>2
    <3> QED
      BY <3>2, <3>3, <3>4
  <2>4. CASE j \in Projecting
    <3>1. j <= j /\ i <= j /\ batch'[j] = batch[j]
      BY <1>12, <1>17, <2>1, <2>4
    <3> QED
      BY <2>2, <2>3, <2>4, <3>1
  <2>5. CASE j \notin Projecting
    <3>1. j = n /\ ~tardy /\ batch'[j].components = components
      BY <1>9, <1>12, <1>15, <2>5
    <3>2. /\ PriorBatch \in Projecting /\ i <= PriorBatch /\ PriorBatch \in Nat
          /\ PriorBatch <= n /\ PriorBatch <= Len(batch)
      BY <1>1, <1>17, <1>18, <2>2
    <3>3. CASE batch[i].components[k] # batch[PriorBatch].components[k]
      BY <2>3, <3>1, <3>2, <3>3
    <3>4. CASE batch[i].components[k] = batch[PriorBatch].components[k] /\ SameConfig
      <4>1. k \in names
        BY <1>8, <2>2, <3>1, <3>4 DEF OldComponents, Old
      <4>2. PICK c \in DOMAIN change' : change'[c] = told
        BY <1>13, <4>1
      <4>3. n \in i..n
        BY <2>1, <3>1
      <4> QED
        BY <1>10, <3>1, <4>1, <4>2, <4>3
    <3>5. CASE ~SameConfig
      <4>1. Reconfigured(PriorBatch)
        BY <2>2, <3>5, PriorOf
      <4>2. PICK c \in DOMAIN change : /\ change[c].kind = "CONNECTOR_CONFIGURATION"
                                       /\ change[c].after \in PriorBatch..Len(batch)
        BY <4>1 DEF Reconfigured
      <4>3. c \in DOMAIN change' /\ change'[c] = change[c]
        BY <1>13
      <4>4. change[c].after \in i..n
        BY <1>1, <2>1, <3>2, <4>2 DEF n
      <4> QED
        BY <3>1, <4>2, <4>3, <4>4
    <3> QED
      BY <3>3, <3>4, <3>5
  <2> QED
    BY <2>4, <2>5
<1> QED
  BY <1>19, <1>20, <1>21, <1>22, <1>23, <1>24 DEF SourceInv

LEMMA SourceStep == SourceInv /\ [SourcesNext]_svars => SourceInv'
<1> SUFFICES ASSUME SourceInv, [SourcesNext]_svars PROVE SourceInv'
  OBVIOUS
<1>1. time \in Nat
  BY DEF SourceInv, SourceTypes
<1>2. ASSUME NEW snapshot \in imported_snapshot, NEW v \in 0..MaxSourceTime, NEW at \in Position,
             ingest(snapshot.reported, snapshot.complete, v, at)
      PROVE  SourceInv'
  <2>1. snapshot.reported \in Reports /\ snapshot.complete \in BOOLEAN /\ v \in Nat
    BY SourcesAssumption DEF imported_snapshot
  <2>2. persist_batch(snapshot.reported, snapshot.complete, v, at, FALSE)
    BY <1>2 DEF ingest
  <2> QED
    BY <2>1, <2>2, BatchKeeps
<1>3. ASSUME NEW snapshot \in Collected, collect_source(snapshot.reported, snapshot.complete)
      PROVE  SourceInv'
  <2>1. snapshot.reported \in Reports /\ snapshot.complete \in BOOLEAN
    BY DEF Collected, github_snapshot, cloud_run_snapshot, collect_mcp, Reports
  <2>2. persist_batch(snapshot.reported, snapshot.complete, time, Unplaced, TRUE)
    BY <1>3 DEF collect_source
  <2> QED
    BY <1>1, <2>1, <2>2, BatchKeeps
<1>4. ASSUME NEW code \in Failures, collect_failure(code) PROVE SourceInv'
  BY <1>4, FailureKeeps
<1>5. ASSUME NEW on \in BOOLEAN, NEW ttl \in Validity, reconfigure(on, ttl) PROVE SourceInv'
  BY <1>5, ReconfigurationKeeps
<1>6. CASE SourcesTick \/ UNCHANGED svars
  BY <1>1, <1>6, TickKeeps DEF SourcesTick, svars
<1> QED
  BY <1>2, <1>3, <1>4, <1>5, <1>6 DEF SourcesNext

\* The invariant holds for any components, senders and orders of delivery.
LEMMA SourceInvariance == SourcesSpec => []SourceInv
BY SourceInitially, SourceStep, PTL DEF SourcesSpec

\* No difference between two observations escapes: late, partial, repeated or skipped
\* batches and reconfigurations in between do not hide it.
THEOREM DifferencesAreAnnouncedAlways == SourcesSpec => []DifferencesAreAnnounced
<1>1. SourceInv => DifferencesAreAnnounced
  BY DEF SourceInv
<1> QED
  BY <1>1, SourceInvariance, PTL

\* installation_health reads CURRENT only of a source from which nothing is missing.
THEOREM FreshnessIsEarnedAlways == SourcesSpec => []FreshnessIsEarned
<1>1. SourceInv => FreshnessIsEarned
  <2> SUFFICES ASSUME SourceInv, Freshness = "CURRENT" PROVE FreshnessIsEarned
    BY DEF FreshnessIsEarned
  <2>1. /\ MayDeliver /\ SameConfig /\ ~(Old.valid + Lifetime <= time) /\ LastStatus \notin Unreliable
    BY DEF Freshness
  <2>2. /\ PriorBatch \in Projecting /\ Old \in BatchRecord
        /\ \A i \in Projecting : batch[i].config = Current => batch[i].valid <= Old.valid
    BY <2>1, PriorOf
  <2>3. LastStatus = StatusFrom(PriorBatch) /\ \A h \in DOMAIN health : health[h].of < PriorBatch
    BY <2>1, <2>2 DEF SourceInv, StatusInv
  <2>4. Old.continuity \in Whole /\ Old.complete
    <3>1. Old.continuity \in Continuities /\ LastStatus = IF Old.continuity = "SNAPSHOT_RECONCILED"
                                                        THEN "CURRENT" ELSE Old.continuity
      BY <2>2, <2>3, BatchFields DEF StatusFrom, Old
    <3>2. Old.continuity \in Whole
      BY <2>1, <3>1 DEF Continuities, Whole, Unreliable
    <3> QED
      BY <2>2, <3>2 DEF SourceInv, StatusInv, Old
  <2>5. Old.valid + Lifetime > time
    <3>1. Old.valid \in Nat /\ time \in Nat /\ Lifetime \in Int
      BY <2>2, BatchFields, SourcesAssumption DEF SourceInv, SourceTypes
    <3> QED
      BY <2>1, <3>1
  <2>6. \A h \in DOMAIN health : ~(health[h].of >= PriorBatch)
    <3>1. \A h \in DOMAIN health : health[h].of \in Nat
      BY Delivered DEF SourceInv, HealthRecord
    <3>2. PriorBatch \in Nat
      BY <2>2, Delivered DEF SourceInv, Projecting
    <3> QED
      BY <2>3, <3>1, <3>2
  <2>7. ASSUME NEW c \in DOMAIN change, change[c].kind = "SOURCE_GAP", change[c].after \in Projecting,
               batch[change[c].after].config = Current
        PROVE  Closed(change[c].after)
    BY <2>1, <2>4, <2>7 DEF SourceInv, HoleInv, SameConfig, Old, Whole
  <2> DEFINE mine == {i \in Projecting : batch[i].config = Current}
             holes == {change[c].after : c \in {d \in DOMAIN change : change[d].kind = "SOURCE_GAP"}}
  <2>8. ASSUME NEW g \in holes \cap mine
        PROVE  \E i \in mine : i >= g /\ batch[i].continuity = "SNAPSHOT_RECONCILED"
    <3>1. PICK c \in DOMAIN change : change[c].kind = "SOURCE_GAP" /\ g = change[c].after
      OBVIOUS
    <3>2. Closed(g) /\ batch[g].config = Current
      BY <2>7, <3>1
    <3> QED
      BY <3>2 DEF Closed
  <2>9. mine # {} /\ \A i \in mine : batch[i].valid <= Old.valid
    BY <2>1, <2>2 DEF SameConfig
  <2> QED
    BY <2>1, <2>4, <2>5, <2>6, <2>8, <2>9 DEF FreshnessIsEarned
<1> QED
  BY <1>1, SourceInvariance, PTL

-----------------------------------------------------------------------------
(* Intake: for any tools, page size and changes of the server.              *)

LEMMA IntakeInitially == IntakeInit => IntakeInv
<1> SUFFICES ASSUME IntakeInit PROVE IntakeInv
  OBVIOUS
<1>1. server \in Listing
  BY DEF IntakeInit, Listing, Contents
<1>2. discovery \in [page : Nat, after : Nat, found : Listing, seen : Listings]
  BY DEF IntakeInit, NotDiscovering, Listing, Listings, Contents
<1>3. catalogs \in Seq([tools : Listing, seen : Listings, complete : BOOLEAN]) /\ DOMAIN catalogs = {}
  BY DEF IntakeInit
<1>4. DiscoveryInv
  BY DEF IntakeInit, NotDiscovering, DiscoveryInv
<1> QED
  BY <1>1, <1>2, <1>3, <1>4 DEF IntakeInv, CatalogTypes, CatalogInv

\* Pages follow each other without a gap: a listed tool up to the last one of a page is
\* on the page, and a page that leaves tools for later is not empty.
LEMMA PageIsPrefix ==
    ASSUME server \in Listing, NEW a \in Nat
    PROVE  /\ Page(a) \subseteq {t \in Tools : t > a /\ server[t] # 0}
           /\ Rest(a) # {} =>
                /\ Max(Page(a)) \in Page(a)
                /\ \A t \in Tools : t > a /\ t <= Max(Page(a)) /\ server[t] # 0 => t \in Page(a)
<1> DEFINE rest == {t \in Tools : t > a /\ server[t] # 0}
           Before(t) == {u \in rest : u < t}
<1>1. Page(a) = {t \in rest : Cardinality(Before(t)) < PageSize} /\ Rest(a) = rest \ Page(a)
  BY DEF Page, Rest
<1>2. Len(Tool) \in Nat /\ rest \in SUBSET (1..Len(Tool)) /\ rest \in SUBSET Nat
  BY IntakeAssumption DEF Tools
<1>3. \A t \in rest : IsFiniteSet(Before(t)) /\ Cardinality(Before(t)) \in Nat
  <2>1. IsFiniteSet(1..Len(Tool))
    BY <1>2, FS_Interval
  <2> QED
    BY <1>2, <2>1, FS_Subset, FS_CardinalityType
<1>n. \A t \in rest : t \in Nat
  BY <1>2
<1> HIDE DEF rest
<1>4. ASSUME Rest(a) # {}
      PROVE  /\ Max(Page(a)) \in Page(a)
             /\ \A t \in rest : t <= Max(Page(a)) => t \in Page(a)
  <2>1. PICK x \in rest : \A y \in rest : x <= y
    BY <1>1, <1>2, <1>4, Least
  <2>2. Before(x) = {}
    <3>1. \A u \in rest : ~(u < x)
      BY <1>n, <2>1
    <3> QED
      BY <3>1
  <2>3. x \in Page(a)
    BY <1>1, <2>2, FS_EmptySet, IntakeAssumption
  <2>4. /\ Max(Page(a)) \in Page(a) /\ Max(Page(a)) \in rest
        /\ Cardinality(Before(Max(Page(a)))) < PageSize
    BY <1>1, <1>2, <2>3, Largest
  <2>5. ASSUME NEW t \in rest, t <= Max(Page(a)) PROVE t \in Page(a)
    <3>1. Before(t) \subseteq Before(Max(Page(a)))
      <4>1. \A u \in rest : u < t => u < Max(Page(a))
        BY <1>n, <2>4, <2>5
      <4> QED
        BY <4>1
    <3>2. Cardinality(Before(t)) <= Cardinality(Before(Max(Page(a))))
      <4> HIDE DEF Before
      <4> QED
        BY <1>3, <2>4, <3>1, FS_Subset
    <3>3. Cardinality(Before(t)) < PageSize
      <4> HIDE DEF Before
      <4>1. Cardinality(Before(t)) \in Nat /\ Cardinality(Before(Max(Page(a)))) \in Nat
        BY <1>3, <2>4, <2>5
      <4> QED
        BY <2>4, <3>2, <4>1, IntakeAssumption
    <3> QED
      BY <1>1, <3>3
  <2> QED
    BY <2>4, <2>5
<1>5. Page(a) \subseteq rest
  BY <1>1
<1> QED
  BY <1>4, <1>5 DEF rest

LEMMA CatalogRecord ==
    ASSUME NEW f \in Listing, NEW s \in Listings, NEW b \in BOOLEAN
    PROVE  /\ Catalog(f, s, b) \in [tools : Listing, seen : Listings, complete : BOOLEAN]
           /\ Catalog(f, s, b).tools = f /\ Catalog(f, s, b).seen = s
           /\ Catalog(f, s, b).complete = b
BY DEF Catalog

\* A catalog that says only what was seen may be appended.
LEMMA CatalogAdded ==
    ASSUME IntakeInv, NEW f \in Listing, NEW s \in Listings, NEW b \in BOOLEAN,
           b => \A t \in Tools : f[t] \in s[t],
           catalogs' = Append(catalogs, Catalog(f, s, b))
    PROVE  /\ catalogs' \in Seq([tools : Listing, seen : Listings, complete : BOOLEAN])
           /\ CatalogInv'
<1> DEFINE C == [tools : Listing, seen : Listings, complete : BOOLEAN]
<1>1. Catalog(f, s, b) \in C /\ catalogs \in Seq(C)
  BY CatalogRecord DEF IntakeInv, CatalogTypes
<1> HIDE DEF C
<1>2. /\ catalogs' \in Seq(C)
      /\ DOMAIN catalogs' = DOMAIN catalogs \cup {Len(catalogs) + 1}
      /\ \A i \in DOMAIN catalogs : catalogs'[i] = catalogs[i]
      /\ catalogs'[Len(catalogs) + 1] = Catalog(f, s, b)
  BY <1>1, Appended
<1>3. CatalogInv'
  <2> SUFFICES ASSUME NEW i \in DOMAIN catalogs', catalogs'[i].complete
               PROVE  \A t \in Tools : catalogs'[i].tools[t] \in catalogs'[i].seen[t]
    BY DEF CatalogInv, Tools
  <2>1. CASE i \in DOMAIN catalogs
    BY <1>2, <2>1 DEF IntakeInv, CatalogInv
  <2>2. CASE i = Len(catalogs) + 1
    BY <1>2, <2>2, CatalogRecord
  <2> QED
    BY <1>2, <2>1, <2>2
<1> QED
  BY <1>2, <1>3 DEF C

LEMMA ReadPageStep == ASSUME IntakeInv, ReadPage PROVE IntakeInv'
<1> DEFINE d == IF discovery.page = 0 THEN Begin ELSE discovery
           found == [t \in Tools |-> IF t \in Page(d.after) THEN server[t] ELSE d.found[t]]
           D == [page : Nat, after : Nat, found : Listing, seen : Listings]
<1>1. d \in D /\ discovery \in D /\ server \in Listing
  <2>1. Begin \in D
    BY DEF Begin, NotDiscovering, Listing, Listings, Contents, IntakeInv, CatalogTypes
  <2> QED
    BY <2>1 DEF IntakeInv, CatalogTypes
<1>2. \A t \in Tools : /\ server[t] \in d.seen[t]
                       /\ IF t <= d.after THEN d.found[t] \in d.seen[t] ELSE d.found[t] = 0
  <2>1. CASE discovery.page = 0
    BY <2>1, IntakeAssumption DEF Begin, NotDiscovering, Tools
  <2>2. CASE discovery.page # 0
    BY <2>2, <1>1 DEF IntakeInv, DiscoveryInv
  <2> QED
    BY <2>1, <2>2
<1>3. found \in Listing
  BY <1>1 DEF Listing, Contents
<1>4. /\ Len(catalogs) < MaxCatalogs
      /\ IF Rest(d.after) = {}
         THEN /\ catalogs' = Append(catalogs, Catalog(found, d.seen, TRUE))
              /\ discovery' = NotDiscovering
         ELSE /\ discovery' = [page |-> d.page + 1, after |-> Max(Page(d.after)),
                               found |-> found, seen |-> d.seen]
              /\ UNCHANGED catalogs
      /\ UNCHANGED server
  BY DEF ReadPage, LastPage
<1>5. \A t \in Tools : found[t] = IF t \in Page(d.after) THEN server[t] ELSE d.found[t]
  OBVIOUS
<1> HIDE DEF d, found
<1>6. CASE Rest(d.after) = {}
  <2>1. \A t \in Tools : found[t] \in d.seen[t]
    <3> SUFFICES ASSUME NEW t \in Tools PROVE found[t] \in d.seen[t]
      OBVIOUS
    <3>1. CASE t \in Page(d.after)
      BY <3>1, <1>2, <1>5
    <3>2. CASE t \notin Page(d.after) /\ t <= d.after
      BY <3>2, <1>2, <1>5
    <3>3. CASE t \notin Page(d.after) /\ t > d.after
      <4>1. server[t] = 0
        BY <1>6, <3>3 DEF Rest
      <4>2. d.found[t] = 0
        BY <1>1, <1>2, <3>3, IntakeAssumption DEF Tools
      <4> QED
        BY <3>3, <4>1, <4>2, <1>2, <1>5
    <3> QED
      BY <1>1, <3>1, <3>2, <3>3, IntakeAssumption DEF Tools
  <2>2. d.seen \in Listings
    BY <1>1
  <2>3. catalogs' \in Seq([tools : Listing, seen : Listings, complete : BOOLEAN]) /\ CatalogInv'
    BY <1>3, <1>4, <1>6, <2>1, <2>2, CatalogAdded
  <2>4. discovery' \in D /\ DiscoveryInv'
    BY <1>4, <1>6 DEF NotDiscovering, DiscoveryInv, Listing, Listings, Contents
  <2> QED
    BY <1>1, <1>4, <2>3, <2>4 DEF IntakeInv, CatalogTypes
<1>7. CASE Rest(d.after) # {}
  <2>1. d.after \in Nat /\ d.page \in Nat
    BY <1>1
  <2>2. /\ Max(Page(d.after)) \in Page(d.after)
        /\ \A t \in Page(d.after) : t \in Tools /\ t > d.after
        /\ \A t \in Tools : t > d.after /\ t <= Max(Page(d.after)) /\ server[t] # 0 => t \in Page(d.after)
    BY <1>1, <1>7, <2>1, PageIsPrefix
  <2>3. Max(Page(d.after)) \in Nat /\ Max(Page(d.after)) > d.after
    BY <2>1, <2>2, IntakeAssumption DEF Tools
  <2>4. /\ discovery' \in D /\ discovery'.seen = d.seen /\ discovery'.found = found
        /\ discovery'.after = Max(Page(d.after))
    <3>1. discovery' = [page |-> d.page + 1, after |-> Max(Page(d.after)), found |-> found,
                        seen |-> d.seen]
      BY <1>4, <1>7
    <3>2. d.page + 1 \in Nat /\ d.seen \in Listings
      BY <1>1, <2>1
    <3> QED
      BY <1>3, <2>3, <3>1, <3>2, Zenon
  <2>5. \A t \in Page(d.after) : t <= Max(Page(d.after))
    <3>1. Page(d.after) \in SUBSET (1..Len(Tool)) /\ Len(Tool) \in Nat
      BY <2>2, IntakeAssumption DEF Tools
    <3> QED
      BY <2>2, <3>1, Largest
  <2>6. DiscoveryInv'
    <3> SUFFICES ASSUME NEW t \in Tools
                 PROVE  /\ server[t] \in d.seen[t]
                        /\ IF t <= Max(Page(d.after)) THEN found[t] \in d.seen[t] ELSE found[t] = 0
      BY <1>4, <2>4 DEF DiscoveryInv, Tools
    <3>1. t \in Nat /\ server[t] \in d.seen[t]
      BY <1>2, IntakeAssumption DEF Tools
    <3>2. CASE t \in Page(d.after)
      BY <3>1, <3>2, <2>5, <1>5
    <3>3. CASE t \notin Page(d.after) /\ t <= d.after
      BY <3>1, <3>3, <2>1, <2>3, <1>2, <1>5
    <3>4. CASE t \notin Page(d.after) /\ t > d.after
      <4>1. found[t] = 0
        BY <3>1, <3>4, <2>1, <1>2, <1>5
      <4>2. t <= Max(Page(d.after)) => server[t] = 0
        BY <3>4, <2>2
      <4> QED
        BY <3>1, <4>1, <4>2
    <3> QED
      BY <3>1, <2>1, <3>2, <3>3, <3>4
  <2>7. CatalogInv' /\ catalogs' \in Seq([tools : Listing, seen : Listings, complete : BOOLEAN])
    BY <1>4, <1>7 DEF IntakeInv, CatalogTypes, CatalogInv, Tools
  <2> QED
    BY <1>1, <1>4, <2>4, <2>6, <2>7 DEF IntakeInv, CatalogTypes
<1> QED
  BY <1>6, <1>7

LEMMA IntakeStep == IntakeInv /\ [IntakeNext]_ivars => IntakeInv'
<1> SUFFICES ASSUME IntakeInv, [IntakeNext]_ivars PROVE IntakeInv'
  OBVIOUS
<1> DEFINE D == [page : Nat, after : Nat, found : Listing, seen : Listings]
<1>1. ASSUME NEW t \in Tools, NEW v \in Version \cup {0}, ServerChanges(t, v) PROVE IntakeInv'
  <2> DEFINE seen == [discovery.seen EXCEPT ![t] = @ \cup {v}]
  <2>1. /\ server' = [server EXCEPT ![t] = v] /\ UNCHANGED catalogs
        /\ discovery' = IF discovery.page = 0 THEN discovery
                        ELSE [discovery EXCEPT !.seen = seen]
    BY <1>1 DEF ServerChanges
  <2>2. server \in Listing /\ discovery \in D
    BY DEF IntakeInv, CatalogTypes
  <2>3. server' \in Listing /\ v \in Contents
    BY <2>1, <2>2 DEF Listing, Contents
  <2>4. seen \in Listings /\ \A u \in Tools : seen[u] = IF u = t THEN discovery.seen[u] \cup {v}
                                                       ELSE discovery.seen[u]
    BY <2>2, <2>3 DEF Listings
  <2> HIDE DEF seen
  <2>5. /\ discovery' \in D /\ discovery'.page = discovery.page /\ discovery'.found = discovery.found
        /\ discovery'.after = discovery.after
        /\ discovery.page # 0 => discovery'.seen = seen
    BY <2>1, <2>2, <2>4
  <2>6. ASSUME discovery.page > 0, NEW u \in Tools
        PROVE  /\ server'[u] \in discovery'.seen[u]
               /\ discovery.seen[u] \subseteq discovery'.seen[u]
    <3>1. discovery.seen \in [Tools -> SUBSET Contents] /\ server \in [Tools -> Contents]
      BY <2>2 DEF Listings, Listing
    <3>2. server[u] \in discovery.seen[u]
      BY <2>6 DEF IntakeInv, DiscoveryInv
    <3>0. discovery.page \in Nat
      BY <2>2
    <3>3. discovery'.seen = seen
      BY <2>5, <2>6, <3>0
    <3>6. discovery.seen[u] \subseteq seen[u]
      BY <2>4
    <3>4. server'[u] = IF u = t THEN v ELSE server[u]
      BY <2>1, <3>1
    <3>5. server'[u] \in seen[u]
      BY <2>4, <3>2, <3>4
    <3> QED
      BY <3>3, <3>5, <3>6
  <2>7. DiscoveryInv'
    <3> SUFFICES ASSUME discovery.page > 0, NEW u \in Tools
                 PROVE  /\ server'[u] \in discovery'.seen[u]
                        /\ IF u <= discovery.after THEN discovery.found[u] \in discovery'.seen[u]
                           ELSE discovery.found[u] = 0
      BY <2>5 DEF DiscoveryInv, Tools
    <3> QED
      BY <2>6 DEF IntakeInv, DiscoveryInv
  <2> QED
    BY <2>1, <2>3, <2>5, <2>7 DEF IntakeInv, CatalogTypes, CatalogInv, Tools
<1>2. CASE ReadPage
  BY <1>2, ReadPageStep
<1>3. CASE AbandonDiscovery
  BY <1>3 DEF AbandonDiscovery, NotDiscovering, IntakeInv, CatalogTypes, DiscoveryInv, CatalogInv, Listing, Listings, Contents, Tools
<1>4. CASE SubmitPage
  <2> DEFINE f == [t \in Tools |-> IF t \in Page(0) THEN server[t] ELSE 0]
  <2>1. f \in Listing /\ Begin.seen \in Listings
    BY DEF IntakeInv, CatalogTypes, Listing, Listings, Contents, Begin, NotDiscovering
  <2>2. catalogs' = Append(catalogs, Catalog(f, Begin.seen, FALSE)) /\ UNCHANGED <<server, discovery>>
    BY <1>4 DEF SubmitPage
  <2> HIDE DEF f
  <2>3. catalogs' \in Seq([tools : Listing, seen : Listings, complete : BOOLEAN]) /\ CatalogInv'
    BY <2>1, <2>2, CatalogAdded
  <2> QED
    BY <2>2, <2>3 DEF IntakeInv, CatalogTypes, DiscoveryInv, Tools
<1>5. CASE Importing \/ UNCHANGED ivars
  <2>1. UNCHANGED <<server, discovery, catalogs>>
    BY <1>5 DEF Importing, create_intake, approve_fingerprint, ivars
  <2> QED
    BY <2>1 DEF IntakeInv, CatalogTypes, DiscoveryInv, CatalogInv, Tools
<1> QED
  BY <1>1, <1>2, <1>3, <1>4, <1>5 DEF IntakeNext, Discovering

\* A comparison of two catalogs says of the server only what was so, whatever it changed
\* between and during the two discoveries.
THEOREM ComparisonIsTrueAlways == IntakeSpec => []ComparisonIsTrue
<1>1. IntakeInv => ComparisonIsTrue
  <2> SUFFICES ASSUME IntakeInv, NEW i \in DOMAIN catalogs, NEW j \in DOMAIN catalogs, i < j,
                      NEW t \in Tools
               PROVE  /\ DiffKind(catalogs[i], catalogs[j], t) = "REMOVED" => 0 \in catalogs[j].seen[t]
                      /\ DiffKind(catalogs[i], catalogs[j], t) = "ADDED" => 0 \in catalogs[i].seen[t]
                      /\ DiffStatus(catalogs[i], catalogs[j]) = "UNCHANGED" =>
                           catalogs[i].seen[t] \cap catalogs[j].seen[t] # {}
    BY DEF ComparisonIsTrue
  <2>1. \A n \in {i, j} : catalogs[n].complete => catalogs[n].tools[t] \in catalogs[n].seen[t]
    BY DEF IntakeInv, CatalogInv
  <2>2. DiffKind(catalogs[i], catalogs[j], t) = "UNCHANGED" => catalogs[i].tools[t] = catalogs[j].tools[t]
    BY DEF DiffKind
  <2>3. DiffStatus(catalogs[i], catalogs[j]) = "UNCHANGED" =>
          /\ catalogs[i].complete /\ catalogs[j].complete
          /\ catalogs[i].tools[t] = catalogs[j].tools[t]
    BY <2>2 DEF DiffStatus
  <2>4. DiffKind(catalogs[i], catalogs[j], t) = "REMOVED" =>
          catalogs[j].complete /\ catalogs[j].tools[t] = 0
    BY DEF DiffKind
  <2>5. DiffKind(catalogs[i], catalogs[j], t) = "ADDED" =>
          catalogs[i].complete /\ catalogs[i].tools[t] = 0
    BY DEF DiffKind
  <2> QED
    BY <2>1, <2>3, <2>4, <2>5
<1> QED
  BY <1>1, IntakeInitially, IntakeStep, PTL DEF IntakeSpec

-----------------------------------------------------------------------------
(* Intake: for any documents with any events in any order, and whatever a   *)
(* reviewer signs, no conflict of events becomes a fact.                    *)

\* The walk over the events exists, so the projection is what the loop computes.
LEMMA KnownIsTheWalk ==
    ASSUME NEW events \in Seq(TraceEvent), NEW s \in Slot
    PROVE  /\ Len(events) \in Nat
           /\ Known(events, s)[0] = Reported(Silent)
           /\ \A n \in 1..Len(events) :
                Known(events, s)[n] =
                    IF Counts(events[n], s) THEN Agreed(Known(events, s)[n - 1], events[n].reports[s])
                    ELSE Known(events, s)[n - 1]
<1> DEFINE N == Len(events)
           Values == {Reported(d) : d \in Int}
           Next1(n, v) == IF Counts(events[n], s) THEN Agreed(v, events[n].reports[s]) ELSE v
           step == [n \in 1..N |-> [v \in Values |-> Next1(n, v)]]
           IsKnown(f) == f = [n \in 0..N |->
                                 IF n = 0 THEN Reported(Silent)
                                 ELSE IF Counts(events[n], s)
                                      THEN Agreed(f[n - 1], events[n].reports[s])
                                      ELSE f[n - 1]]
<1>1. N \in Nat /\ \A n \in 1..N : events[n].reports[s] \in Int
  <2>1. N \in Nat /\ \A n \in 1..N : events[n] \in TraceEvent
    BY LenProperties, ElementOfSeq
  <2> QED BY <2>1 DEF TraceEvent
<1>2. Reported(Silent) \in Values /\ Unknown \in Values /\ \A d \in Int : Reported(d) \in Values
  <2>1. Unknown = Reported(0)
    BY DEF Unknown, Reported
  <2>2. Silent \in Int
    BY DEF Silent
  <2> QED BY <2>1, <2>2
<1>3. \A n \in 1..N, v \in Values : Next1(n, v) \in Values
  <2> SUFFICES ASSUME NEW n \in 1..N, NEW v \in Values PROVE Next1(n, v) \in Values
    OBVIOUS
  <2>1. Reported(events[n].reports[s]) \in Values
    BY <1>1, <1>2
  <2>2. Agreed(v, events[n].reports[s]) \in {Reported(events[n].reports[s]), Unknown}
    BY DEF Agreed
  <2>3. Agreed(v, events[n].reports[s]) \in Values
    <3> HIDE DEF Values
    <3> QED BY <2>1, <2>2, <1>2
  <2> HIDE DEF Values
  <2> QED BY <2>3
<1>4. step \in [1..N -> [Values -> Values]]
  <2> HIDE DEF Values, Next1
  <2> QED BY <1>3
<1>5. \E f : IsWalk(f, N, Values, Reported(Silent), step)
  <2>1. N \in Nat /\ Reported(Silent) \in Values
    BY <1>1, <1>2
  <2> HIDE DEF Values, step, N
  <2>2. step \in [1..N -> [Values -> Values]]
    BY <1>4
  <2> QED BY <2>1, <2>2, WalkExists
<1>6. PICK f \in [0..N -> Values] :
        f[0] = Reported(Silent) /\ \A n \in 1..N : f[n] = step[n][f[n - 1]]
  <2> HIDE DEF Values, step, N
  <2> QED BY <1>5 DEF IsWalk
<1>7. \A n \in 1..N : f[n - 1] \in Values /\ f[n] = Next1(n, f[n - 1])
  <2> SUFFICES ASSUME NEW n \in 1..N PROVE f[n - 1] \in Values /\ f[n] = Next1(n, f[n - 1])
    OBVIOUS
  <2>1. n - 1 \in 0..N
    BY <1>1
  <2>2. f[n - 1] \in Values
    BY <2>1
  <2>3. step[n][f[n - 1]] = Next1(n, f[n - 1])
    <3> HIDE DEF Values, Next1
    <3> QED BY <2>2
  <2> QED BY <1>6, <2>2, <2>3
<1>8. IsKnown(f)
  <2> HIDE DEF Values, step
  <2> QED BY <1>1, <1>6, <1>7
<1>9. Known(events, s) = CHOOSE g : IsKnown(g)
  BY DEF Known
<1>10. IsKnown(Known(events, s))
  <2> HIDE DEF IsKnown
  <2> QED BY <1>8, <1>9
<1>11. ASSUME NEW g, IsKnown(g)
       PROVE  g[0] = Reported(Silent) /\ \A n \in 1..N : g[n] = Next1(n, g[n - 1])
  <2>1. 0 \in 0..N /\ \A n \in 1..N : n \in 0..N /\ n # 0
    BY <1>1
  <2>2. g[0] = Reported(Silent)
    BY <1>11, <2>1
  <2>3. ASSUME NEW n \in 1..N PROVE g[n] = Next1(n, g[n - 1])
    BY <1>11, <2>1
  <2> QED BY <2>2, <2>3
<1> QED BY <1>1, <1>10, <1>11

\* What a report says that is taken for a fact.
LEMMA ReportFields ==
    /\ \A d \in Int : /\ Reported(d).digest = d
                      /\ Reported(d).provenance = "UNKNOWN" <=> d = 0
    /\ Silent \in Int /\ Silent # 0 /\ Unknown.provenance = "UNKNOWN"
BY DEF Reported, Silent, Unknown

\* A slot that is projected with a fact has the digest of every event that names it; of a
\* slot of which nothing is known, no event says anything.
LEMMA ProjectionIsAgreed ==
    ASSUME NEW events \in Seq(TraceEvent), NEW s \in Slot,
           Projected(events)[s].provenance # "UNKNOWN"
    PROVE  \A i \in 1..Len(events) :
             Counts(events[i], s) => events[i].reports[s] = Projected(events)[s].digest
<1> DEFINE N == Len(events)
           report(i) == events[i].reports[s]
           Fact(v, n) == v.provenance # "UNKNOWN" =>
                           \A i \in 1..n : Counts(events[i], s) => report(i) = v.digest
<1>1. PICK walk : walk = Known(events, s)
  OBVIOUS
<1>2. /\ N \in Nat /\ walk[0] = Reported(Silent)
      /\ \A n \in 1..N :
           walk[n] = IF Counts(events[n], s) THEN Agreed(walk[n - 1], report(n)) ELSE walk[n - 1]
  BY <1>1, KnownIsTheWalk
<1>3. \A n \in 1..N : report(n) \in Int
  <2>1. \A n \in 1..N : events[n] \in TraceEvent
    BY LenProperties, ElementOfSeq
  <2> QED BY <2>1 DEF TraceEvent
<1> DEFINE T == {n \in 0..N : Fact(walk[n], n)}
<1>4. 0 \in T
  BY <1>2
<1>5. ASSUME NEW n \in 1..N, n - 1 \in T PROVE n \in T
  <2>1. Fact(walk[n - 1], n - 1)
    BY <1>5
  <2>2. \A i \in 1..n : i = n \/ i \in 1..(n - 1)
    OBVIOUS
  <2>3. CASE ~Counts(events[n], s)
    <3>1. walk[n] = walk[n - 1]
      BY <1>2, <2>3
    <3>2. Fact(walk[n], n)
      BY <2>1, <2>2, <2>3, <3>1
    <3> QED BY <3>2
  <2>4. CASE Counts(events[n], s)
    <3>1. walk[n] = Agreed(walk[n - 1], report(n)) /\ report(n) # Silent
      BY <1>2, <2>4 DEF Counts
    <3>2. CASE walk[n - 1] = Reported(Silent)
      <4>1. walk[n] = Reported(report(n)) /\ walk[n].digest = report(n)
        BY <1>3, <3>1, <3>2, ReportFields DEF Agreed
      <4>2. \A i \in 1..(n - 1) : ~Counts(events[i], s)
        BY <2>1, <3>2, ReportFields DEF Counts
      <4>3. Fact(walk[n], n)
        BY <2>2, <4>1, <4>2
      <4> QED BY <4>3
    <3>3. CASE walk[n - 1] = Reported(report(n))
      <4>1. walk[n] = walk[n - 1] /\ walk[n].digest = report(n)
        BY <1>3, <3>1, <3>3, ReportFields DEF Agreed
      <4>2. Fact(walk[n], n)
        BY <2>1, <2>2, <4>1
      <4> QED BY <4>2
    <3>4. CASE walk[n - 1] # Reported(Silent) /\ walk[n - 1] # Reported(report(n))
      <4>1. walk[n] = Unknown
        BY <3>1, <3>4 DEF Agreed
      <4>2. Fact(walk[n], n)
        BY <4>1, ReportFields
      <4> QED BY <4>2
    <3> QED BY <3>2, <3>3, <3>4
  <2> QED BY <2>3, <2>4
<1>6. N \in T
  <2> HIDE DEF T
  <2>1. 0..N \subseteq T
    BY <1>2, <1>4, <1>5, UpTo
  <2> QED BY <1>2, <2>1
<1>7. Projected(events)[s] = walk[N]
  BY <1>1 DEF Projected
<1> QED BY <1>6, <1>7

LEMMA ReviewInitially == IntakeInit => TraceInv /\ ReviewInv
<1> SUFFICES ASSUME IntakeInit PROVE TraceInv /\ ReviewInv
  OBVIOUS
<1>1. DOMAIN intakes = {} /\ DOMAIN reviews = {}
  BY DEF IntakeInit
<1> QED BY <1>1 DEF TraceInv, ReviewInv

LEMMA ReviewStep ==
    ASSUME TraceInv, ReviewInv, [IntakeNext]_ivars
    PROVE  TraceInv' /\ ReviewInv'
<1>1. CASE UNCHANGED <<intakes, reviews>>
  BY <1>1 DEF TraceInv, ReviewInv
<1>2. ASSUME NEW key \in RequestKey, NEW doc \in Document, create_intake(key, doc)
      PROVE  TraceInv' /\ ReviewInv'
  <2>1. /\ key \notin DOMAIN intakes /\ reviews' = reviews
        /\ DOMAIN intakes' = DOMAIN intakes \cup {key}
        /\ \A k \in DOMAIN intakes : intakes'[k] = intakes[k]
        /\ intakes'[key].doc = doc /\ intakes'[key].facts = Normalized(doc).facts
    BY <1>2 DEF create_intake
  <2>2. doc.kind = "trace" => Normalized(doc).facts = Projected(doc.events)
    BY DEF Normalized
  <2>3. TraceInv'
    BY <2>1, <2>2 DEF TraceInv
  <2>4. ReviewInv'
    BY <2>1 DEF ReviewInv
  <2> QED BY <2>3, <2>4
<1>3. ASSUME NEW key \in RequestKey, NEW of \in RequestKey, NEW fingerprint \in Fingerprints,
             approve_fingerprint(key, of, fingerprint)
      PROVE  TraceInv' /\ ReviewInv'
  <2>1. /\ of \in DOMAIN intakes /\ intakes' = intakes
        /\ Retains(fingerprint, intakes[of].facts)
        /\ DOMAIN reviews' = DOMAIN reviews \cup {key} /\ key \notin DOMAIN reviews
        /\ \A k \in DOMAIN reviews : reviews'[k] = reviews[k]
        /\ reviews'[key].of = of
        /\ reviews'[key].facts = [s \in Slot |-> Declared(fingerprint[s])]
    BY <1>3 DEF approve_fingerprint
  <2>2. TraceInv'
    BY <2>1 DEF TraceInv
  <2>3. ReviewInv'
    BY <2>1 DEF ReviewInv
  <2> QED BY <2>2, <2>3
<1>4. CASE Discovering
  <2>1. UNCHANGED <<intakes, reviews>>
    BY <1>4 DEF Discovering, ServerChanges, ReadPage, AbandonDiscovery, SubmitPage
  <2> QED BY <2>1, <1>1
<1>5. CASE UNCHANGED ivars
  <2>1. UNCHANGED <<intakes, reviews>>
    BY <1>5 DEF ivars
  <2> QED BY <2>1, <1>1
<1> QED BY <1>2, <1>3, <1>4, <1>5 DEF IntakeNext, Importing

\* Whatever is imported, however its events are ordered, and whatever is signed: a
\* reviewed fingerprint states nothing as observed, and of a component that events name
\* only a content that all of them state.
THEOREM ReviewNeverPromotesAlways == IntakeSpec => []ReviewNeverPromotes
<1>1. TraceInv /\ ReviewInv => ReviewNeverPromotes
  <2> SUFFICES ASSUME TraceInv, ReviewInv, NEW r \in DOMAIN reviews, NEW s \in Slot
               PROVE  LET doc == intakes[reviews[r].of].doc
                      IN  /\ reviews[r].facts[s].provenance # "OBSERVED"
                          /\ (doc.kind = "trace" /\ reviews[r].facts[s].provenance # "UNKNOWN") =>
                               \A i \in DOMAIN doc.events :
                                  doc.events[i].supported /\ doc.events[i].reports[s] # Silent =>
                                    doc.events[i].reports[s] = reviews[r].facts[s].digest
    BY DEF ReviewNeverPromotes
  <2> DEFINE doc == intakes[reviews[r].of].doc
             facts == intakes[reviews[r].of].facts
  <2>1. reviews[r].of \in DOMAIN intakes
    BY DEF ReviewInv
  <2>2. PICK fingerprint \in Fingerprints :
          Retains(fingerprint, facts) /\ reviews[r].facts = [t \in Slot |-> Declared(fingerprint[t])]
    BY DEF ReviewInv
  <2>3. /\ reviews[r].facts[s].digest = fingerprint[s].digest
        /\ reviews[r].facts[s].provenance # "OBSERVED"
        /\ reviews[r].facts[s].provenance = "UNKNOWN" <=> fingerprint[s].provenance = "UNKNOWN"
    <3>1. reviews[r].facts[s] = Declared(fingerprint[s])
      BY <2>2
    <3>2. fingerprint[s] \in [digest : Int, provenance : {"OBSERVED", "DECLARED", "UNKNOWN"}]
      <4>1. \A c \in {Reported(Silent), Unknown} :
              c \in [digest : Int, provenance : {"OBSERVED", "DECLARED", "UNKNOWN"}]
        BY DEF Reported, Silent, Unknown
      <4>2. \A c \in [digest : {1, 2}, provenance : {"OBSERVED", "DECLARED"}] :
              c \in [digest : Int, provenance : {"OBSERVED", "DECLARED", "UNKNOWN"}]
        OBVIOUS
      <4> QED BY <2>2, <4>1, <4>2 DEF Fingerprints
    <3> QED BY <3>1, <3>2 DEF Declared
  <2>4. ASSUME doc.kind = "trace", reviews[r].facts[s].provenance # "UNKNOWN",
               NEW i \in DOMAIN doc.events, Counts(doc.events[i], s)
        PROVE  doc.events[i].reports[s] = reviews[r].facts[s].digest
    <3>1. doc \in Document /\ facts = Projected(doc.events)
      BY <2>1, <2>4 DEF TraceInv
    <3>2. doc.events \in Seq(TraceEvent)
      BY <2>4, <3>1, TraceAssumption
    <3>3. i \in 1..Len(doc.events)
      BY <3>2, LenProperties
    <3>4. facts[s].provenance # "UNKNOWN" => doc.events[i].reports[s] = facts[s].digest
      BY <2>4, <3>1, <3>2, <3>3, ProjectionIsAgreed
    <3>5. CASE s \in Present(facts)
      BY <2>2, <2>3, <2>4, <3>4, <3>5 DEF Retains
    <3>6. CASE s \notin Present(facts)
      <4>1. facts[s] = Reported(Silent)
        BY <3>6 DEF Present
      <4>2. doc.events[i].reports[s] = Silent
        BY <3>4, <4>1, ReportFields
      <4> QED BY <2>4, <4>2 DEF Counts
    <3> QED BY <3>5, <3>6
  <2>5. \A i \in DOMAIN doc.events :
          doc.events[i].supported /\ doc.events[i].reports[s] # Silent <=> Counts(doc.events[i], s)
    BY DEF Counts
  <2> QED BY <2>3, <2>4, <2>5
<1> QED BY <1>1, ReviewInitially, ReviewStep, PTL DEF IntakeSpec
===============================================================================
