------------------------------ MODULE Observers ------------------------------
(***************************************************************************)
(* Ground-truth observers of business effects: the contract of one of them *)
(* and its qualification (observer_platform.py), the read-only observer of *)
(* a table in the system of record (observer_sql.py), and what its facts    *)
(* establish about one attempted effect.                                    *)
(*                                                                         *)
(* The table changes while observers read it, twice and in two             *)
(* transactions; what they saw is recorded later, perhaps under another    *)
(* qualification, and recorded again when the answer was lost.             *)
(***************************************************************************)
EXTENDS Integers, FiniteSets

CONSTANTS
    Reader,     \* processes that run the observer
    Key,        \* bound: idempotency keys of observations
    RowLimit,   \* row_limit of the observer
    Requalify,  \* requalify_days
    MaxRows,    \* bound on the rows with the correlation value
    MaxClock    \* bound on the clock

ASSUME ClockAssumption == MaxClock \in Nat

VARIABLES
    covering,      \* observer_definition: commits are covered, absence reads as DENIED
    qualification, \* when the newest passed qualification was recorded, or whether one was tried
    revoked,       \* an observer_revocation exists
    facts,         \* business_effect_observation records
    table,         \* rows with the correlation value in the system of record
    committedAt,         \* when an effect of this tenant committed inside the window, or NotYet
    reader,        \* what each reader is doing
    clock

observerVars == <<covering, qualification, revoked, facts, table, committedAt, reader, clock>>

NotYet == MaxClock + 1
Fact == {"ATTEMPTED", "AUTHORIZED", "DISPATCHED", "COMMITTED", "DENIED", "COMPENSATED", "UNKNOWN"}
\* absence_needs_commit_coverage: absence reads as DENIED only where commits are seen.
Coverage == {c \in [covers : BOOLEAN, denial : BOOLEAN] : c.denial => c.covers}
Observed == Fact \ {"AUTHORIZED", IF covering.covers THEN "AUTHORIZED" ELSE "COMMITTED"}

Resting == [at |-> "rests", key |-> 0, rows |-> {}, effect |-> "UNKNOWN", observed |-> 0]

ObserverInit ==
    /\ covering \in Coverage
    /\ qualification = [state |-> "UNQUALIFIED", at |-> 0]
    /\ revoked = FALSE
    /\ facts = {} /\ table = {} /\ committedAt = NotYet
    /\ reader = [p \in Reader |-> Resting]
    /\ clock = 0

-----------------------------------------------------------------------------
(* The contract's qualification                                             *)

\* SCENARIOS: the one answer each of them must get.
Required ==
    [POSITIVE_COMMIT |-> "COMMITTED", DENIED |-> "DENIED", NO_EFFECT |-> "DENIED",
     COMPENSATED |-> "COMPENSATED", MISSING_CORRELATION |-> "UNKNOWN", STALE |-> "UNKNOWN",
     MULTIPLE_MATCHES |-> "UNKNOWN", OUTAGE |-> "UNKNOWN", WRONG_TENANT |-> "UNKNOWN",
     INSUFFICIENT_COVERAGE |-> "UNKNOWN"]
Outcome(results) ==
    IF {s \in DOMAIN Required : results[s] # Required[s]} = {} THEN "PASSED" ELSE "FAILED"

QualificationState ==
    IF revoked THEN "REVOKED"
    ELSE IF qualification.state # "PASSED" THEN qualification.state
    ELSE IF qualification.at + Requalify > clock THEN "QUALIFIED" ELSE "STALE"

\* A failed attempt takes nothing from an earlier passed one.
RecordQualification(results) ==
    /\ \/ /\ Outcome(results) = "PASSED"
          /\ qualification' = [state |-> "PASSED", at |-> clock]
       \/ /\ Outcome(results) = "FAILED"
          /\ qualification' = IF qualification.state = "PASSED" THEN qualification
                              ELSE [qualification EXCEPT !.state = "QUALIFICATION_PENDING"]
    /\ UNCHANGED <<covering, revoked, facts, table, committedAt, reader, clock>>

RevokeDefinition ==
    /\ ~revoked
    /\ revoked' = TRUE
    /\ UNCHANGED <<covering, qualification, facts, table, committedAt, reader, clock>>

-----------------------------------------------------------------------------
(* The system of record: rows of this tenant inside the window, in a state  *)
(* that the observer maps or not, and rows elsewhere, of another tenant or   *)
(* outside the window, whose state nobody reads.                             *)

RowOf == [scoped : {TRUE}, id : 1..MaxRows,
        state : {"DISPATCHED", "COMMITTED", "DENIED", "COMPENSATED", "unmapped"}]
       \cup [scoped : {FALSE}, id : 1..MaxRows, state : {"unread"}]
Committing(row) == row.scoped /\ row.state = "COMMITTED"
Seen(row) == IF Committing(row) /\ committedAt = NotYet THEN clock ELSE committedAt

Insert(row) ==
    /\ Cardinality(table) < MaxRows /\ row.id = Cardinality(table) + 1
    \* A reversal that is a row of its own follows the commit it reverses.
    /\ row.state = "COMPENSATED" => \E other \in table : Committing(other)
    /\ table' = table \cup {row}
    /\ committedAt' = Seen(row)
    /\ UNCHANGED <<covering, qualification, revoked, facts, reader, clock>>
Update(row, state) ==
    /\ <<row.state, state>> \in {<<"DISPATCHED", "COMMITTED">>, <<"DISPATCHED", "DENIED">>,
                                 <<"COMMITTED", "COMPENSATED">>}
    /\ LET new == [row EXCEPT !.state = state]
       IN table' = (table \ {row}) \cup {new} /\ committedAt' = Seen(new)
    /\ UNCHANGED <<covering, qualification, revoked, facts, reader, clock>>

-----------------------------------------------------------------------------
(* observe: a scoped read, and when it finds nothing an unscoped one         *)

Scoped == {row \in table : row.scoped}

Interpretation(rows) ==
    IF \E row \in rows : row.state = "unmapped" THEN "UNKNOWN"
    ELSE LET effects == {row.state : row \in rows}
         IN IF Cardinality(effects) # Cardinality(rows) THEN "UNKNOWN"
            ELSE IF "COMPENSATED" \in effects THEN "COMPENSATED"
            ELSE IF "COMMITTED" \in effects THEN "COMMITTED"
            ELSE IF "DENIED" \in effects THEN "DENIED" ELSE "UNKNOWN"

Fresh == {k \in Key : (\A f \in facts : f.key # k) /\ (\A p \in Reader : reader[p].key # k)}
Answers(p, effect) ==
    reader' = [reader EXCEPT ![p].at = "answered", ![p].effect = effect, ![p].observed = clock]

\* Nothing correlates, the effect is not covered, or the record cannot be read.
NotRead(p) ==
    /\ \/ reader[p].at = "rests" /\ Fresh # {}
          /\ reader' = [reader EXCEPT ![p] = [Resting EXCEPT !.at = "answered", !.observed = clock,
                            !.key = CHOOSE k \in Fresh : \A other \in Fresh : k <= other]]
       \/ reader[p].at = "empty" /\ Answers(p, "UNKNOWN")
    /\ UNCHANGED <<covering, qualification, revoked, facts, table, committedAt, clock>>

ReadScoped(p) ==
    /\ reader[p].at = "rests" /\ Fresh # {}
    /\ reader' = [reader EXCEPT ![p] =
           [Resting EXCEPT !.key = CHOOSE k \in Fresh : \A other \in Fresh : k <= other,
                !.at = IF Scoped = {} THEN "empty" ELSE "answered",
                !.effect = IF Cardinality(Scoped) > RowLimit THEN "UNKNOWN" ELSE Interpretation(Scoped),
                !.observed = clock]]
    /\ UNCHANGED <<covering, qualification, revoked, facts, table, committedAt, clock>>

\* A variant that differs from the code: the second read is not made.
AbsenceUnread == IF covering.covers /\ covering.denial THEN "DENIED" ELSE "UNKNOWN"
\* A row of another tenant or outside the window is no absence.
Absence == IF table = {} /\ covering.covers /\ covering.denial THEN "DENIED" ELSE "UNKNOWN"
ReadElsewhere(p) ==
    /\ reader[p].at = "empty"
    /\ Answers(p, Absence)
    /\ UNCHANGED <<covering, qualification, revoked, facts, table, committedAt, clock>>

-----------------------------------------------------------------------------
(* record_observation and effect_summary                                    *)

Recorded(key, effect, observed) ==
    IF \E f \in facts : f.key = key THEN facts
    ELSE facts \cup {[key |-> key, effect |-> effect, observed |-> observed,
                      qualified |-> QualificationState = "QUALIFIED"]}
Refused(effect) == revoked \/ (effect # "UNKNOWN" /\ effect \notin Observed)

\* The answer may be lost, the observer then repeats its report; a refusal ends it.
RecordObservation(p, answered) ==
    /\ reader[p].at = "answered"
    /\ LET r == reader[p] IN
       IF Refused(r.effect)
       THEN answered /\ UNCHANGED facts
       ELSE facts' = Recorded(r.key, r.effect, r.observed)
    /\ reader' = IF answered THEN [reader EXCEPT ![p] = Resting] ELSE reader
    /\ UNCHANGED <<covering, qualification, revoked, table, committedAt, clock>>

\* An integration on the agent's side reports what it did, one pre-commit fact for all.
ReportAttempt ==
    /\ Fresh # {} /\ ~Refused("DISPATCHED")
    /\ facts' = Recorded(CHOOSE k \in Fresh : \A other \in Fresh : k <= other, "DISPATCHED", clock)
    /\ UNCHANGED <<covering, qualification, revoked, table, committedAt, reader, clock>>

Qualified == {f \in facts : f.qualified}

EffectSummary ==
    LET present == {f.effect : f \in Qualified} IN
    IF "COMMITTED" \in present
    THEN IF "COMPENSATED" \in present THEN "COMMITTED_THEN_COMPENSATED" ELSE "COMMITTED"
    ELSE IF present = {} \/ "COMPENSATED" \in present THEN "UNKNOWN"
    ELSE IF "DENIED" \in present THEN "DENIED"
    ELSE IF covering.denial /\ covering.covers /\ "UNKNOWN" \notin present
         THEN "NO_EFFECT_OBSERVED" ELSE "UNKNOWN"
Committed == EffectSummary \in {"COMMITTED", "COMMITTED_THEN_COMPENSATED"}

-----------------------------------------------------------------------------

TimePasses ==
    /\ clock < MaxClock
    /\ clock' = clock + 1
    /\ UNCHANGED <<covering, qualification, revoked, facts, table, committedAt, reader>>

ObserverNext ==
    \/ \E results \in {Required, [Required EXCEPT !.OUTAGE = "DENIED"]} : RecordQualification(results)
    \/ RevokeDefinition
    \/ \E row \in RowOf : Insert(row)
    \/ \E row \in table, state \in {"COMMITTED", "DENIED", "COMPENSATED"} : Update(row, state)
    \/ \E p \in Reader : NotRead(p) \/ ReadScoped(p) \/ ReadElsewhere(p)
    \/ \E p \in Reader, answered \in BOOLEAN : RecordObservation(p, answered)
    \/ ReportAttempt
    \/ TimePasses

ObserverSpec == ObserverInit /\ [][ObserverNext]_observerVars

-----------------------------------------------------------------------------
(* An effect that the summary says committed did commit in the system of   *)
(* record, for this tenant and inside the window.  One it calls DENIED had  *)
(* not committed when a qualified reading last got an answer: a refusal or  *)
(* an absence is never reported over a commit that an observer could see,  *)
(* whatever the table did between its two reads and whoever reported last. *)
(* (observer_platform.py, observer_sql.py)  NO_EFFECT_OBSERVED is left out:*)
(* it is answered from pre-commit facts alone, however early.              *)
EstablishedIsTrue ==
    /\ Committed => committedAt # NotYet
    /\ EffectSummary = "DENIED" =>
           \A f \in Qualified : f.effect \in {"COMMITTED", "DENIED", "COMPENSATED"} => f.observed <= committedAt

-----------------------------------------------------------------------------
(* The inductive invariant behind the proof                                 *)

\* An answer may say what the table says: of an effect that it happened only when it
\* did, and of one that was denied when it had not committed.
Truthful(effect, observed) ==
    /\ observed \in 0..clock
    /\ effect \in {"COMMITTED", "COMPENSATED"} => committedAt # NotYet
    /\ effect = "DENIED" => observed <= committedAt

ObserverTypes ==
    /\ clock \in 0..MaxClock /\ committedAt \in 0..NotYet
    /\ table \subseteq RowOf
    /\ reader = [p \in Reader |-> reader[p]]
    /\ \A p \in Reader : {"at", "key", "effect", "observed"} \subseteq DOMAIN reader[p]

\* A commit stays in the table, as one or reversed, and each answer that a reader holds
\* or that is recorded is truthful.
TruthInv ==
    /\ committedAt # NotYet <=>
          \E row \in table : row.scoped /\ row.state \in {"COMMITTED", "COMPENSATED"}
    /\ \A p \in Reader : Truthful(reader[p].effect, reader[p].observed)
    /\ \A f \in facts : Truthful(f.effect, f.observed)

ObserverInv == ObserverTypes /\ TruthInv
=============================================================================
