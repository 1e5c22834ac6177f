----------------------------- MODULE TrialProofs -----------------------------
(***************************************************************************)
(* Proofs about Evaluation and Assurance: what the verdict on a trial, and *)
(* what the answer of an audit or a canary, is worth, for any actions,     *)
(* predicates, collectors, properties, changes and runs.                   *)
(***************************************************************************)
EXTENDS Evaluation, Assurance, SequenceLemmas, FiniteSetTheorems

-----------------------------------------------------------------------------
(* Trials *)

LEMMA TrialInitially == TrialInit => TrialInv
<1> SUFFICES ASSUME TrialInit PROVE TrialInv
  OBVIOUS
<1>1. collector \in [version : {1}, blind : Blindness, honest : BOOLEAN]
  BY DEF TrialInit, Collector
<1>2. trial.case = "none" /\ ~Running
  BY DEF TrialInit, NoTrial, Running
<1>3. observer = [approved |-> FALSE, revoked |-> FALSE] /\ DOMAIN controls = {}
  BY DEF TrialInit
<1>4. /\ <<>> \in Seq(Action) /\ <<>> \in Seq(Receipt)
  OBVIOUS
<1>5. trial \in [case : Case \cup {"none", "assurance", "ended"}, happened : Seq(Action),
                 seen : Seq(Action), sent : Seq(Receipt), before : SUBSET Action]
  BY <1>4 DEF TrialInit, NoTrial
<1>6. TrialTypes
  BY <1>1, <1>3, <1>5 DEF TrialTypes
<1>7. ControlInv
  BY <1>2, <1>3 DEF ControlInv, Case
<1> QED
  BY <1>2, <1>6, <1>7 DEF TrialInv, ReceiptInv, VerdictIsTrue

\* A record of a trial's parts is a trial.
LEMMA TrialRecord ==
  ASSUME NEW c \in Case \cup {"none", "assurance", "ended"}, NEW h \in Seq(Action),
         NEW e \in Seq(Action), NEW s \in Seq(Receipt), NEW b \in SUBSET Action
  PROVE  [case |-> c, happened |-> h, seen |-> e, sent |-> s, before |-> b]
           \in [case : Case \cup {"none", "assurance", "ended"}, happened : Seq(Action),
                seen : Seq(Action), sent : Seq(Receipt), before : SUBSET Action]
OBVIOUS

\* A trial begins with nothing seen and nothing sent.
LEMMA BeginStep ==
  ASSUME TrialInv, NEW case \in Case \cup {"assurance"}, Begin(case)
  PROVE  TrialInv'
<1> DEFINE before == {trial.seen[i] : i \in DOMAIN trial.seen}
<1>1. before \subseteq Action
  <2>1. trial.seen \in Seq(Action)
    BY DEF TrialInv, TrialTypes
  <2> QED
    BY <2>1, LenProperties
<1> HIDE DEF before
<1>2. /\ trial' = [case |-> case, happened |-> <<>>, seen |-> <<>>, sent |-> <<>>,
                   before |-> before]
      /\ UNCHANGED <<collector, observer, controls>>
  BY DEF Begin, NoTrial, before
<1>3. trial' \in [case : Case \cup {"none", "assurance", "ended"}, happened : Seq(Action),
                  seen : Seq(Action), sent : Seq(Receipt), before : SUBSET Action]
  <2>1. /\ <<>> \in Seq(Action) /\ <<>> \in Seq(Receipt)
    OBVIOUS
  <2> QED
    BY <1>1, <1>2, <2>1
<1>4. TrialTypes'
  BY <1>2, <1>3 DEF TrialInv, TrialTypes
<1>5. /\ trial'.case = case /\ trial'.happened = <<>> /\ trial'.seen = <<>>
      /\ trial'.sent = <<>>
  BY <1>2
<1>6. ReceiptInv'
  BY <1>5 DEF ReceiptInv
<1>7. ControlInv'
  BY <1>2, <1>5 DEF ControlInv, TrialInv, Begin, Case
<1>8. VerdictIsTrue'
  BY <1>5 DEF VerdictIsTrue, Case
<1> QED
  BY <1>4, <1>6, <1>7, <1>8 DEF TrialInv

\* While a trial runs nothing is said of its outcome, and what concerns the controls
\* depends on its case only.
LEMMA RunningOnly ==
  ASSUME TrialInv, Running, trial'.case = trial.case,
         UNCHANGED <<collector, observer, controls>>
  PROVE  ControlInv' /\ VerdictIsTrue' /\ Running'
<1>1. trial'.case # "ended" /\ Running'
  BY DEF Running
<1>2. ControlInv'
  BY DEF ControlInv, TrialInv
<1> QED
  BY <1>1, <1>2 DEF VerdictIsTrue

\* The agent acts, and the collector sees it unless it is blind to it or taken away.
LEMMA ActStep ==
  ASSUME TrialInv, NEW a \in Action, Act(a)
  PROVE  TrialInv'
<1> DEFINE sees == a \notin collector.blind /\ trial.case # "MISSING_OBSERVATION"
           happened == Append(trial.happened, a)
           seen == IF sees THEN Append(trial.seen, a) ELSE trial.seen
<1>0. /\ trial.happened \in Seq(Action) /\ trial.seen \in Seq(Action)
      /\ trial.sent \in Seq(Receipt) /\ trial.before \in SUBSET Action
      /\ trial.case \in Case \cup {"none", "assurance", "ended"}
      /\ trial = [case |-> trial.case, happened |-> trial.happened, seen |-> trial.seen,
                  sent |-> trial.sent, before |-> trial.before]
  BY DEF TrialInv, TrialTypes
<1>1. /\ happened \in Seq(Action) /\ DOMAIN trial.happened \subseteq DOMAIN happened
      /\ \A i \in DOMAIN trial.happened : happened[i] = trial.happened[i]
      /\ \A i \in DOMAIN happened : i \in DOMAIN trial.happened \/ happened[i] = a
      /\ \E i \in DOMAIN happened : happened[i] = a
  BY <1>0, Appended
<1>2. /\ seen \in Seq(Action) /\ DOMAIN trial.seen \subseteq DOMAIN seen
      /\ \A j \in DOMAIN trial.seen : seen[j] = trial.seen[j]
      /\ \A j \in DOMAIN seen : j \in DOMAIN trial.seen \/ (sees /\ seen[j] = a)
      /\ sees => \E j \in DOMAIN seen : seen[j] = a
  BY <1>0, Appended
<1>3. Running /\ UNCHANGED <<collector, observer, controls>>
  BY DEF Act
<1>4. trial' = [case |-> trial.case, happened |-> happened, seen |-> seen,
                sent |-> trial.sent, before |-> trial.before]
  BY <1>0 DEF Act
<1> HIDE DEF happened, seen
<1>5. /\ trial'.case = trial.case /\ trial'.happened = happened /\ trial'.seen = seen
      /\ trial'.sent = trial.sent
  BY <1>4
<1>6. TrialTypes'
  <2>1. trial' \in [case : Case \cup {"none", "assurance", "ended"}, happened : Seq(Action),
                    seen : Seq(Action), sent : Seq(Receipt), before : SUBSET Action]
    BY <1>0, <1>1, <1>2, <1>4
  <2> QED
    BY <1>3, <2>1 DEF TrialInv, TrialTypes
<1>7. ReceiptInv'
  <2>0. ReceiptInv
    BY DEF TrialInv
  <2>1. \A j \in DOMAIN seen : \E i \in DOMAIN happened : happened[i] = seen[j]
    BY <1>1, <1>2, <1>3, <2>0 DEF ReceiptInv
  <2>2. \A i \in DOMAIN trial.sent : trial.sent[i].current =>
          /\ trial.sent[i].number + 1 \in DOMAIN seen
          /\ trial.sent[i].of = seen[trial.sent[i].number + 1]
    BY <1>2, <1>3, <2>0 DEF ReceiptInv
  <2>3. collector.version = 1 =>
          /\ \A j \in DOMAIN seen : seen[j] \notin collector.blind
          /\ trial.case # "MISSING_OBSERVATION" =>
               \A i \in DOMAIN happened :
                  \/ happened[i] \in collector.blind
                  \/ \E j \in DOMAIN seen : seen[j] = happened[i]
    <3> SUFFICES ASSUME collector.version = 1
                 PROVE  /\ \A j \in DOMAIN seen : seen[j] \notin collector.blind
                        /\ trial.case # "MISSING_OBSERVATION" =>
                             \A i \in DOMAIN happened :
                                \/ happened[i] \in collector.blind
                                \/ \E j \in DOMAIN seen : seen[j] = happened[i]
      OBVIOUS
    <3>1. \A j \in DOMAIN seen : seen[j] \notin collector.blind
      BY <1>2, <1>3, <2>0 DEF ReceiptInv
    <3>2. ASSUME trial.case # "MISSING_OBSERVATION", NEW i \in DOMAIN happened
          PROVE  \/ happened[i] \in collector.blind
                 \/ \E j \in DOMAIN seen : seen[j] = happened[i]
      <4>1. CASE i \in DOMAIN trial.happened
        <5>1. \/ trial.happened[i] \in collector.blind
              \/ \E j \in DOMAIN trial.seen : trial.seen[j] = trial.happened[i]
          BY <1>3, <2>0, <3>2, <4>1 DEF ReceiptInv
        <5> QED
          BY <1>1, <1>2, <4>1, <5>1
      <4>2. CASE happened[i] = a
        BY <1>2, <3>2, <4>2
      <4> QED
        BY <1>1, <4>1, <4>2
    <3> QED
      BY <3>1, <3>2
  <2> QED
    BY <1>3, <1>5, <2>1, <2>2, <2>3 DEF ReceiptInv
<1> QED
  BY <1>3, <1>5, <1>6, <1>7, RunningOnly DEF TrialInv

\* A receipt is added: it is of what was seen under its number, or does not count.
LEMMA SentStep ==
  ASSUME TrialInv, Running, UNCHANGED <<collector, observer, controls>>,
         NEW r \in Receipt, trial' = [trial EXCEPT !.sent = Append(@, r)],
         r.current => r.number + 1 \in DOMAIN trial.seen /\ r.of = trial.seen[r.number + 1]
  PROVE  TrialInv'
<1> DEFINE sent == Append(trial.sent, r)
<1>0. /\ trial.happened \in Seq(Action) /\ trial.seen \in Seq(Action)
      /\ trial.sent \in Seq(Receipt) /\ trial.before \in SUBSET Action
      /\ trial.case \in Case \cup {"none", "assurance", "ended"}
  BY DEF TrialInv, TrialTypes
<1>1. /\ sent \in Seq(Receipt)
      /\ \A i \in DOMAIN sent : \/ i \in DOMAIN trial.sent /\ sent[i] = trial.sent[i]
                                \/ sent[i] = r
  BY <1>0, Appended
<1>2. trial' = [case |-> trial.case, happened |-> trial.happened, seen |-> trial.seen,
                sent |-> sent, before |-> trial.before]
  BY DEF TrialInv, TrialTypes
<1> HIDE DEF sent
<1>3. /\ trial'.case = trial.case /\ trial'.happened = trial.happened
      /\ trial'.seen = trial.seen /\ trial'.sent = sent
  BY <1>2
<1>4. TrialTypes'
  <2>1. [case |-> trial.case, happened |-> trial.happened, seen |-> trial.seen,
         sent |-> sent, before |-> trial.before]
           \in [case : Case \cup {"none", "assurance", "ended"}, happened : Seq(Action),
                seen : Seq(Action), sent : Seq(Receipt), before : SUBSET Action]
    BY <1>0, <1>1, TrialRecord
  <2>2. trial' \in [case : Case \cup {"none", "assurance", "ended"}, happened : Seq(Action),
                    seen : Seq(Action), sent : Seq(Receipt), before : SUBSET Action]
    BY <1>2, <2>1, Zenon
  <2> QED
    BY <2>2 DEF TrialInv, TrialTypes
<1>5. ReceiptInv'
  <2>1. \A i \in DOMAIN sent : sent[i].current =>
          /\ sent[i].number + 1 \in DOMAIN trial.seen
          /\ sent[i].of = trial.seen[sent[i].number + 1]
    BY <1>1 DEF TrialInv, ReceiptInv
  <2> QED
    BY <1>3, <2>1 DEF TrialInv, ReceiptInv
<1> QED
  BY <1>3, <1>4, <1>5, RunningOnly DEF TrialInv

LEMMA CollectStep ==
  ASSUME TrialInv, NEW i \in DOMAIN trial.seen, Collect(i)
  PROVE  TrialInv'
<1> DEFINE r == [of |-> trial.seen[i], number |-> i - 1, current |-> TRUE,
                 version |-> collector.version]
<1>1. trial.seen \in Seq(Action) /\ collector.version \in Nat
  BY DEF TrialInv, TrialTypes
<1>2. trial.seen[i] \in Action /\ i - 1 \in Nat /\ (i - 1) + 1 = i
  BY <1>1, LenProperties
<1>3. r \in Receipt
  BY <1>1, <1>2 DEF Receipt
<1>4. r.number + 1 \in DOMAIN trial.seen /\ r.of = trial.seen[r.number + 1]
  BY <1>2
<1>5. /\ Running /\ UNCHANGED <<collector, observer, controls>>
      /\ trial' = [trial EXCEPT !.sent = Append(@, r)]
  BY DEF Collect
<1> HIDE DEF r
<1> QED
  BY <1>3, <1>4, <1>5, SentStep

LEMMA CollectLateStep ==
  ASSUME TrialInv, NEW a \in trial.before, CollectLate(a)
  PROVE  TrialInv'
<1> DEFINE r == [of |-> a, number |-> Len(trial.sent), current |-> FALSE,
                 version |-> collector.version]
<1>1. /\ trial.sent \in Seq(Receipt) /\ collector.version \in Nat /\ a \in Action
  BY DEF TrialInv, TrialTypes
<1>2. Len(trial.sent) \in Nat
  BY <1>1, LenProperties
<1>3. r \in Receipt /\ ~r.current
  BY <1>1, <1>2 DEF Receipt
<1>5. /\ Running /\ UNCHANGED <<collector, observer, controls>>
      /\ trial' = [trial EXCEPT !.sent = Append(@, r)]
  BY DEF CollectLate
<1> HIDE DEF r
<1> QED
  BY <1>3, <1>5, SentStep

\* What a verdict of PASS and one of FAIL say of the receipts.
LEMMA PassMeans ==
  ASSUME NEW sent, NEW version, NEW valid \in BOOLEAN, NEW complete \in BOOLEAN,
         NEW executed \in BOOLEAN,
         Evaluated(sent, version, valid, complete, executed).verdict = "PASS"
  PROVE  /\ valid /\ complete
         /\ UsableReceipts(sent, version) = DOMAIN sent
         /\ Gapless({sent[i].number : i \in DOMAIN sent})
         /\ \A i \in DOMAIN sent, p \in Predicate : Violates(p, sent[i].of) # "yes"
<1> DEFINE usable == IF valid THEN UsableReceipts(sent, version) ELSE {}
           found == {Violates(p, sent[i].of) : p \in Predicate, i \in usable}
           problem == \/ ~valid \/ ~complete \/ ~executed
                      \/ usable # DOMAIN sent
                      \/ "unknown" \in found
                      \/ ~Gapless({sent[i].number : i \in usable})
<1>1. Evaluated(sent, version, valid, complete, executed).verdict =
        IF "yes" \in found THEN "FAIL" ELSE IF problem THEN "INCONCLUSIVE" ELSE "PASS"
  BY DEF Evaluated
<1>2. "yes" \notin found /\ ~problem
  <2> HIDE DEF found, problem
  <2> QED
    BY <1>1
<1>3. valid /\ complete /\ usable = DOMAIN sent
  BY <1>2
<1>4. Gapless({sent[i].number : i \in DOMAIN sent})
  <2>1. Gapless({sent[i].number : i \in usable})
    BY <1>2
  <2> HIDE DEF usable
  <2> QED
    BY <1>3, <2>1
<1>5. \A i \in DOMAIN sent, p \in Predicate : Violates(p, sent[i].of) # "yes"
  BY <1>2, <1>3
<1> QED
  BY <1>3, <1>4, <1>5

LEMMA FailMeans ==
  ASSUME NEW sent, NEW version, NEW valid \in BOOLEAN, NEW complete \in BOOLEAN,
         NEW executed \in BOOLEAN,
         Evaluated(sent, version, valid, complete, executed).verdict = "FAIL"
  PROVE  \E i \in UsableReceipts(sent, version), p \in Predicate :
            Violates(p, sent[i].of) = "yes"
<1> DEFINE usable == IF valid THEN UsableReceipts(sent, version) ELSE {}
           found == {Violates(p, sent[i].of) : p \in Predicate, i \in usable}
           problem == \/ ~valid \/ ~complete \/ ~executed
                      \/ usable # DOMAIN sent
                      \/ "unknown" \in found
                      \/ ~Gapless({sent[i].number : i \in usable})
<1>1. Evaluated(sent, version, valid, complete, executed).verdict =
        IF "yes" \in found THEN "FAIL" ELSE IF problem THEN "INCONCLUSIVE" ELSE "PASS"
  BY DEF Evaluated
<1>2. "yes" \in found
  <2> HIDE DEF found, problem
  <2> QED
    BY <1>1
<1> QED
  BY <1>2

LEMMA UsableIsCurrent ==
  ASSUME NEW sent, NEW version, NEW i \in UsableReceipts(sent, version)
  PROVE  i \in DOMAIN sent /\ sent[i].current
BY DEF UsableReceipts

\* A verdict is reached: PASS means that nothing which the observer was shown to report
\* happened, and FAIL that something which violates a predicate did.
LEMMA VerdictStep ==
  ASSUME TrialInv, NEW signed \in BOOLEAN, NEW fresh \in BOOLEAN, NEW executed \in BOOLEAN,
         Submit(signed, fresh, executed), trial.case = "assurance"
  PROVE  VerdictIsTrue'
<1> DEFINE valid == Attested(signed) /\ fresh
           happened == {trial.happened[i] : i \in DOMAIN trial.happened}
           numbers == {trial.sent[i].number : i \in DOMAIN trial.sent}
<1>1. /\ outcome' = Evaluated(trial.sent, collector.version, valid, Covered, executed)
      /\ trial' = [trial EXCEPT !.case = "ended"] /\ controls' = controls
  BY DEF Submit, Evaluation
<1>2. /\ trial.happened \in Seq(Action) /\ trial.seen \in Seq(Action)
      /\ trial.sent \in Seq(Receipt) /\ trial'.happened = trial.happened
  BY <1>1 DEF TrialInv, TrialTypes
<1>3. /\ valid \in BOOLEAN /\ Covered \in BOOLEAN
  BY DEF Attested, Covered
<1>4. Running /\ ReceiptInv /\ ControlInv
  BY DEF TrialInv, Running
<1> HIDE DEF valid
<1>5. ASSUME outcome'.verdict = "PASS", ~controls["MISSING_OBSERVATION"].complete,
             NEW a \in happened, a \in controls["KNOWN_PROHIBITED"].shown
      PROVE  FALSE
  <2>1. /\ valid /\ Covered
        /\ UsableReceipts(trial.sent, collector.version) = DOMAIN trial.sent
        /\ Gapless(numbers)
        /\ \A i \in DOMAIN trial.sent, p \in Predicate : Violates(p, trial.sent[i].of) # "yes"
    BY <1>1, <1>3, <1>5, PassMeans
  <2>2. collector.version = 1
    BY <2>1 DEF valid, Attested
  <2>3. DOMAIN controls = Case
    BY <1>4 DEF ControlInv
  <2>4. /\ a \notin collector.blind /\ collector.honest
        /\ \E p \in Predicate : Violates(p, a) = "yes"
    BY <1>4, <1>5, <2>2, <2>3 DEF ControlInv, Case
  <2>5. PICK j \in DOMAIN trial.seen : trial.seen[j] = a
    <3>1. PICK i \in DOMAIN trial.happened : trial.happened[i] = a
      BY <1>5
    <3> QED
      BY <1>4, <2>2, <2>4, <3>1 DEF ReceiptInv
  <2>6. DOMAIN trial.seen = 1..Len(trial.seen) /\ Len(trial.seen) \in Nat
    BY <1>2, LenProperties
  <2>7. j \in Nat /\ 1 <= j /\ j <= Len(trial.seen)
    BY <2>5, <2>6
  <2>8. PICK l \in DOMAIN trial.sent : trial.sent[l].number = Len(trial.seen) - 1
    <3>1. Len(trial.seen) # 0
      BY <2>6, <2>7
    <3> QED
      BY <2>1, <2>4, <3>1 DEF Covered
  <2>9. Cardinality(numbers) \in Nat
    <3>1. IsFiniteSet(DOMAIN trial.sent)
      <4>1. DOMAIN trial.sent = 1..Len(trial.sent) /\ Len(trial.sent) \in Nat
        BY <1>2, LenProperties
      <4> QED
        BY <4>1, FS_Interval
    <3> DEFINE f == [i \in DOMAIN trial.sent |-> trial.sent[i].number]
    <3>2. f \in Surjection(DOMAIN trial.sent, numbers)
      BY DEF Surjection
    <3> HIDE DEF f, numbers
    <3>3. IsFiniteSet(numbers)
      BY <3>1, <3>2, FS_Surjection
    <3> QED
      BY <3>3, FS_CardinalityType
  <2>10. j - 1 \in numbers
    <3>1. numbers = 0..(Cardinality(numbers) - 1) /\ Len(trial.seen) - 1 \in numbers
      BY <2>1, <2>8 DEF Gapless
    <3> DEFINE card == Cardinality(numbers)  last == Len(trial.seen)
    <3>2. card \in Nat /\ last \in Nat
      BY <2>6, <2>9
    <3> HIDE DEF numbers, card, last
    <3>3. numbers = 0..(card - 1) /\ last - 1 \in numbers /\ j \in Nat /\ 1 <= j /\ j <= last
      BY <2>7, <3>1 DEF card, last
    <3> QED
      BY <3>2, <3>3
  <2>11. PICK k \in DOMAIN trial.sent : trial.sent[k].number = j - 1
    BY <2>10
  <2>12. trial.sent[k].current
    BY <2>1, UsableIsCurrent
  <2>13. trial.sent[k].of = trial.seen[(j - 1) + 1]
    BY <1>4, <2>11, <2>12 DEF ReceiptInv
  <2>14. (j - 1) + 1 = j
    BY <2>7
  <2>15. trial.sent[k].of = a
    BY <2>5, <2>13, <2>14
  <2> QED
    BY <2>1, <2>4, <2>15
<1>6. ASSUME outcome'.verdict = "FAIL"
      PROVE  \E a \in happened, p \in Predicate : Violates(p, a) = "yes"
  <2>1. PICK i \in UsableReceipts(trial.sent, collector.version), p \in Predicate :
            Violates(p, trial.sent[i].of) = "yes"
    BY <1>1, <1>3, <1>6, FailMeans
  <2>2. i \in DOMAIN trial.sent /\ trial.sent[i].current
    BY <2>1, UsableIsCurrent
  <2>3. trial.sent[i].of \in happened
    BY <1>4, <2>2 DEF ReceiptInv
  <2> QED
    BY <2>1, <2>3
<1>7. controls' = controls /\ trial'.happened = trial.happened
  BY <1>1, <1>2
<1> QED
  BY <1>5, <1>6, <1>7 DEF VerdictIsTrue

LEMMA SubmitStep ==
  ASSUME TrialInv, NEW signed \in BOOLEAN, NEW fresh \in BOOLEAN, NEW executed \in BOOLEAN,
         Submit(signed, fresh, executed)
  PROVE  TrialInv'
<1>0. /\ trial.happened \in Seq(Action) /\ trial.seen \in Seq(Action)
      /\ trial.sent \in Seq(Receipt) /\ trial.before \in SUBSET Action
      /\ UNCHANGED <<collector, observer>> /\ ReceiptInv /\ ControlInv /\ Running
  BY DEF TrialInv, TrialTypes, Submit
<1>1. CASE trial.case = "assurance"
  <2>1. /\ trial' = [case |-> "ended", happened |-> trial.happened, seen |-> trial.seen,
                     sent |-> trial.sent, before |-> trial.before]
        /\ UNCHANGED <<collector, observer, controls>>
    BY <1>0, <1>1 DEF Submit, TrialInv, TrialTypes
  <2>2. TrialTypes'
    <3>1. [case |-> "ended", happened |-> trial.happened, seen |-> trial.seen,
           sent |-> trial.sent, before |-> trial.before]
             \in [case : Case \cup {"none", "assurance", "ended"}, happened : Seq(Action),
                  seen : Seq(Action), sent : Seq(Receipt), before : SUBSET Action]
      BY <1>0, TrialRecord
    <3>2. trial' \in [case : Case \cup {"none", "assurance", "ended"}, happened : Seq(Action),
                      seen : Seq(Action), sent : Seq(Receipt), before : SUBSET Action]
      BY <2>1, <3>1, Zenon
    <3> QED
      BY <2>1, <3>2 DEF TrialInv, TrialTypes
  <2>3. trial'.case = "ended"
    BY <2>1
  <2>4. ReceiptInv'
    BY <2>3 DEF ReceiptInv, Running
  <2>5. ControlInv'
    BY <1>0, <1>1, <2>1, <2>3 DEF ControlInv, Case
  <2> QED
    BY <1>1, <2>2, <2>4, <2>5, VerdictStep DEF TrialInv
<1>2. CASE trial.case # "assurance"
  <2> DEFINE o == Evaluation(signed, fresh, executed)
             accepted == AsExpected(trial.case, o, Attested(signed), executed)
  <2>1. trial.case \in Case /\ trial.case \notin DOMAIN controls /\ ~observer.approved
    BY <1>0, <1>2 DEF TrialInv, TrialTypes, ControlInv, Running
  <2>2. /\ controls' = [c \in DOMAIN controls \cup (IF accepted THEN {trial.case} ELSE {}) |->
                  IF c = trial.case THEN [shown |-> Shown, complete |-> Covered]
                  ELSE controls[c]]
        /\ trial' = [NoTrial EXCEPT !.seen = trial.seen]
    BY <1>2 DEF Submit
  <2> HIDE DEF o, accepted
  <2>3. /\ \A c \in DOMAIN controls : c \in DOMAIN controls' /\ controls'[c] = controls[c]
        /\ \A c \in DOMAIN controls' : c \in DOMAIN controls \/ c = trial.case
        /\ trial.case \in DOMAIN controls' =>
             controls'[trial.case] = [shown |-> Shown, complete |-> Covered]
    BY <2>1, <2>2
  <2>4. Shown \subseteq Action /\ Covered \in BOOLEAN
    <3>1. ASSUME NEW i \in DOMAIN trial.sent PROVE trial.sent[i].of \in Action
      <4>1. DOMAIN trial.sent = 1..Len(trial.sent)
        BY <1>0, LenProperties
      <4>2. trial.sent[i] \in Receipt
        BY <1>0, <4>1, ElementOfSeq
      <4> QED
        BY <4>2 DEF Receipt
    <3> QED
      BY <3>1, UsableIsCurrent DEF Shown, Covered
  <2>5. [shown |-> Shown, complete |-> Covered] \in Shows
    BY <2>4 DEF Shows
  <2>6. trial' = [case |-> "none", happened |-> <<>>, seen |-> trial.seen, sent |-> <<>>,
                  before |-> {}]
    BY <2>2 DEF NoTrial
  <2>7. trial'.case = "none"
    BY <2>6
  <2>8. TrialTypes'
    <3>1. [case |-> "none", happened |-> <<>>, seen |-> trial.seen, sent |-> <<>>,
           before |-> {}]
             \in [case : Case \cup {"none", "assurance", "ended"}, happened : Seq(Action),
                  seen : Seq(Action), sent : Seq(Receipt), before : SUBSET Action]
      BY <1>0, TrialRecord
    <3>2. trial' \in [case : Case \cup {"none", "assurance", "ended"}, happened : Seq(Action),
                      seen : Seq(Action), sent : Seq(Receipt), before : SUBSET Action]
      BY <2>6, <3>1, Zenon
    <3>3. DOMAIN controls' \subseteq Case /\ \A c \in DOMAIN controls' : controls'[c] \in Shows
      BY <2>1, <2>3, <2>5 DEF TrialInv, TrialTypes
    <3> QED
      BY <1>0, <3>2, <3>3 DEF TrialInv, TrialTypes
  <2>9. ReceiptInv' /\ VerdictIsTrue'
    BY <2>7 DEF ReceiptInv, Running, VerdictIsTrue
  <2>10. ASSUME "KNOWN_PROHIBITED" \in DOMAIN controls',
                NEW a \in controls'["KNOWN_PROHIBITED"].shown
         PROVE  /\ \E p \in Predicate : Violates(p, a) = "yes"
                /\ collector.version = 1 => a \notin collector.blind
    <3>1. CASE "KNOWN_PROHIBITED" \in DOMAIN controls
      BY <1>0, <2>3, <2>10, <3>1 DEF ControlInv
    <3>2. CASE trial.case = "KNOWN_PROHIBITED"
      <4>1. a \in Shown
        BY <2>3, <2>10, <3>2
      <4>2. PICK i \in UsableReceipts(trial.sent, collector.version) : a = trial.sent[i].of
        BY <4>1 DEF Shown
      <4>3. \E p \in Predicate : Violates(p, a) = "yes"
        BY <4>1 DEF Shown
      <4>4. i \in DOMAIN trial.sent /\ trial.sent[i].current
        BY UsableIsCurrent
      <4>5. collector.version = 1 => a \notin collector.blind
        BY <1>0, <4>2, <4>4 DEF ReceiptInv
      <4> QED
        BY <4>3, <4>5
    <3> QED
      BY <2>3, <2>10, <3>1, <3>2
  <2>11. ASSUME "MISSING_OBSERVATION" \in DOMAIN controls', collector.version = 1
         PROVE  controls'["MISSING_OBSERVATION"].complete \/ collector.honest
    <3>1. CASE "MISSING_OBSERVATION" \in DOMAIN controls
      BY <1>0, <2>3, <2>11, <3>1 DEF ControlInv
    <3>2. CASE trial.case = "MISSING_OBSERVATION"
      BY <2>3, <2>11, <3>2 DEF Covered
    <3> QED
      BY <2>3, <2>11, <3>1, <3>2
  <2>12. ControlInv'
    BY <1>0, <2>1, <2>7, <2>10, <2>11 DEF ControlInv, Case
  <2> QED
    BY <2>8, <2>9, <2>12 DEF TrialInv
<1> QED
  BY <1>1, <1>2

LEMMA TrialStep == TrialInv /\ [TrialNext]_trialVars => TrialInv'
<1> SUFFICES ASSUME TrialInv, [TrialNext]_trialVars PROVE TrialInv'
  OBVIOUS
<1>1. ASSUME NEW case \in Case \cup {"assurance"}, Begin(case) PROVE TrialInv'
  BY <1>1, BeginStep
<1>2. ASSUME NEW a \in Action, Act(a) PROVE TrialInv'
  BY <1>2, ActStep
<1>3. ASSUME NEW i \in DOMAIN trial.seen, Collect(i) PROVE TrialInv'
  BY <1>3, CollectStep
<1>4. ASSUME NEW a \in trial.before, CollectLate(a) PROVE TrialInv'
  BY <1>4, CollectLateStep
<1>5. ASSUME NEW signed \in BOOLEAN, NEW fresh \in BOOLEAN, NEW executed \in BOOLEAN,
             Submit(signed, fresh, executed)
      PROVE  TrialInv'
  BY <1>5, SubmitStep
<1>6. CASE Approve
  <2>1. observer' = [approved |-> TRUE, revoked |-> observer.revoked]
    BY <1>6 DEF Approve, TrialInv, TrialTypes
  <2>2. TrialTypes'
    BY <1>6, <2>1 DEF Approve, TrialInv, TrialTypes
  <2>3. ReceiptInv' /\ VerdictIsTrue'
    BY <1>6 DEF Approve, TrialInv, ReceiptInv, Running, VerdictIsTrue
  <2>4. ControlInv'
    BY <1>6, <2>1 DEF Approve, TrialInv, ControlInv
  <2> QED
    BY <2>2, <2>3, <2>4 DEF TrialInv
<1>7. CASE RevokeObserver
  <2>1. observer' = [approved |-> observer.approved, revoked |-> TRUE]
    BY <1>7 DEF RevokeObserver, TrialInv, TrialTypes
  <2>2. TrialTypes'
    BY <1>7, <2>1 DEF RevokeObserver, TrialInv, TrialTypes
  <2>3. ReceiptInv' /\ VerdictIsTrue'
    BY <1>7 DEF RevokeObserver, TrialInv, ReceiptInv, Running, VerdictIsTrue
  <2>4. ControlInv'
    BY <1>7, <2>1 DEF RevokeObserver, TrialInv, ControlInv
  <2> QED
    BY <2>2, <2>3, <2>4 DEF TrialInv
<1>8. CASE Deploy
  <2>1. /\ collector.version \in Nat \ {0} /\ UNCHANGED <<observer, controls, trial, outcome>>
        /\ collector' \in [version : {collector.version + 1}, blind : Blindness,
                           honest : BOOLEAN]
    BY <1>8 DEF Deploy, Collector, TrialInv, TrialTypes
  <2>2. /\ collector'.version = collector.version + 1
        /\ collector' \in [version : Nat \ {0}, blind : Blindness, honest : BOOLEAN]
    BY <2>1
  <2>3. collector'.version # 1
    BY <2>1, <2>2
  <2>4. TrialTypes'
    BY <2>1, <2>2 DEF TrialInv, TrialTypes
  <2>5. ReceiptInv'
    BY <2>1, <2>3 DEF TrialInv, ReceiptInv, Running
  <2>6. ControlInv' /\ VerdictIsTrue'
    BY <2>1, <2>3 DEF TrialInv, ControlInv, VerdictIsTrue
  <2> QED
    BY <2>4, <2>5, <2>6 DEF TrialInv
<1>9. CASE UNCHANGED trialVars
  BY <1>9 DEF trialVars, TrialInv, TrialTypes, ReceiptInv, ControlInv, VerdictIsTrue, Running
<1> QED
  BY <1>1, <1>2, <1>3, <1>4, <1>5, <1>6, <1>7, <1>8, <1>9 DEF TrialNext

\* The invariant behind the verdict: what was seen happened, what counts was seen, and
\* what the controls showed of the collector is still true of it.
THEOREM TrialInvariance == TrialSpec => []TrialInv
<1> QED
  BY TrialInitially, TrialStep, PTL DEF TrialSpec

\* For any actions, predicates and collectors: PASS is about what happened, not about
\* what was reported, and FAIL accuses nobody of what did not happen in this trial.
THEOREM VerdictIsTrueAlways == TrialSpec => []VerdictIsTrue
<1>1. TrialInv => VerdictIsTrue
  BY DEF TrialInv
<1> QED
  BY <1>1, TrialInvariance, PTL

-----------------------------------------------------------------------------
(* Audits and canaries *)

\* A list is a sequence of its elements, and an element can be added to it.
LEMMA EnumeratedAppend ==
  ASSUME NEW s, Enumerated(s), NEW e
  PROVE  /\ Enumerated(Append(s, e)) /\ DOMAIN s = 1..Len(s)
         /\ DOMAIN Append(s, e) = DOMAIN s \cup {Len(s) + 1}
         /\ \A i \in DOMAIN s : Append(s, e)[i] = s[i]
         /\ \A i \in DOMAIN Append(s, e) : i \in DOMAIN s \/ Append(s, e)[i] = e
<1> DEFINE S == {s[i] : i \in 1..Len(s)} \cup {e}
           t == Append(s, e)
<1>1. Len(s) \in Nat /\ s = [i \in 1..Len(s) |-> s[i]]
  BY DEF Enumerated
<1>2. s \in [1..Len(s) -> S]
  BY <1>1
<1>3. s \in Seq(S)
  BY <1>1, <1>2, SeqDef
<1>4. e \in S
  OBVIOUS
<1> HIDE DEF S
<1>5. /\ t \in Seq(S) /\ Len(t) = Len(s) + 1
      /\ \A i \in 1..Len(s) : t[i] = s[i]
      /\ t[Len(s) + 1] = e
  BY <1>3, <1>4, AppendProperties
<1>6. Len(t) \in Nat /\ t \in [1..Len(t) -> S]
  BY <1>5, LenProperties
<1> HIDE DEF t
<1>7. Enumerated(t)
  BY <1>6 DEF Enumerated
<1>8. DOMAIN s = 1..Len(s)
  BY <1>2
<1>9. DOMAIN t = DOMAIN s \cup {Len(s) + 1}
  BY <1>1, <1>5, <1>6, <1>8
<1> QED
  BY <1>1, <1>5, <1>7, <1>8, <1>9 DEF t

\* A list remains one when an element of it changes.
LEMMA EnumeratedExcept ==
  ASSUME NEW s, Enumerated(s), NEW r \in DOMAIN s, NEW e
  PROVE  LET t == [s EXCEPT ![r] = e] IN
         /\ Enumerated(t) /\ DOMAIN t = DOMAIN s /\ t[r] = e
         /\ \A i \in DOMAIN s \ {r} : t[i] = s[i]
<1> DEFINE S == {s[i] : i \in 1..Len(s)} \cup {e}
           t == [s EXCEPT ![r] = e]
<1>1. Len(s) \in Nat /\ s = [i \in 1..Len(s) |-> s[i]]
  BY DEF Enumerated
<1>2. DOMAIN t = DOMAIN s /\ DOMAIN s = 1..Len(s)
  BY <1>1
<1>3. t[r] = e /\ \A i \in DOMAIN s \ {r} : t[i] = s[i]
  OBVIOUS
<1>4. t \in [1..Len(s) -> S]
  BY <1>2, <1>3
<1> HIDE DEF S, t
<1>5. t \in Seq(S)
  BY <1>1, <1>4, SeqDef
<1>6. Len(t) \in Nat /\ t \in [1..Len(t) -> S]
  BY <1>5, LenProperties
<1>7. Enumerated(t)
  BY <1>6 DEF Enumerated
<1> QED
  BY <1>2, <1>3, <1>7 DEF t

LEMMA AuditInitially == AssuranceInit => AuditInv
<1> SUFFICES ASSUME AssuranceInit PROVE AuditInv
  OBVIOUS
<1>1. Len(<<>>) = 0 /\ DOMAIN <<>> = {} /\ <<>> = [i \in 1..0 |-> <<>>[i]]
  OBVIOUS
<1> QED
  BY <1>1 DEF AssuranceInit, AuditInv, Enumerated

LEMMA AuditStep == AuditInv /\ [AssuranceNext]_assuranceVars => AuditInv'
<1> SUFFICES ASSUME AuditInv, [AssuranceNext]_assuranceVars PROVE AuditInv'
  OBVIOUS
<1>1. ASSUME UNCHANGED <<trials, baselines>>, hour' \in Nat PROVE AuditInv'
  BY <1>1 DEF AuditInv, Enumerated
<1>2. hour \in Nat
  BY DEF AuditInv
<1>3. ASSUME NEW p \in Claim, NEW c \in BOOLEAN, WriteApproval(p) \/ EndApproval(p, c)
      PROVE  AuditInv'
  BY <1>1, <1>2, <1>3 DEF WriteApproval, EndApproval
<1>4. ASSUME NEW c \in Change, RecordImpact(c) PROVE AuditInv'
  BY <1>1, <1>2, <1>4 DEF RecordImpact
<1>5. ASSUME NEW p \in Claim, NEW x \in Artifact, NEW b \in 0..Len(baselines),
             CreateRun(p, x, b)
      PROVE  AuditInv'
  <2> DEFINE new == [property |-> p, at |-> hour, base |-> b, status |-> "RUNNING",
                     failed |-> FALSE, eligible |-> FALSE, allowed |-> FALSE,
                     digest |-> x.digest, label |-> x.label, fingerprint |-> x.fingerprint,
                     declared |-> x.declared, qualifying |-> x.qualifying,
                     stimuli |-> x.stimuli, experiment |-> x.experiment]
  <2>1. /\ {"at", "status", "failed", "eligible", "allowed"} \subseteq DOMAIN new
        /\ new.at = hour /\ new.eligible = FALSE
    OBVIOUS
  <2>2. trials' = Append(trials, new) /\ UNCHANGED <<baselines, hour>>
    BY <1>5 DEF CreateRun
  <2> HIDE DEF new
  <2>3. /\ Enumerated(trials') /\ DOMAIN trials \subseteq DOMAIN trials'
        /\ \A i \in DOMAIN trials : trials'[i] = trials[i]
        /\ \A i \in DOMAIN trials' : i \in DOMAIN trials \/ trials'[i] = new
    BY <2>2, EnumeratedAppend DEF AuditInv
  <2>4. ASSUME NEW r \in DOMAIN trials'
        PROVE  /\ {"at", "status", "failed", "eligible", "allowed"} \subseteq DOMAIN trials'[r]
               /\ trials'[r].at \in Nat
               /\ trials'[r].eligible => trials'[r].status # "RUNNING" /\ ~trials'[r].failed
    <3>1. CASE r \in DOMAIN trials
      BY <2>3, <3>1 DEF AuditInv
    <3>2. CASE trials'[r] = new
      BY <1>2, <2>1, <3>2
    <3> QED
      BY <2>3, <3>1, <3>2
  <2> QED
    BY <2>2, <2>3, <2>4 DEF AuditInv, Enumerated
<1>6. ASSUME NEW r \in DOMAIN trials, NEW e, trials' = [trials EXCEPT ![r] = e],
             {"at", "status", "failed", "eligible", "allowed"} \subseteq DOMAIN e,
             e.at = trials[r].at, e.eligible => e.status # "RUNNING" /\ ~e.failed,
             UNCHANGED <<baselines, hour>>
      PROVE  AuditInv'
  <2>1. /\ Enumerated(trials') /\ DOMAIN trials' = DOMAIN trials /\ trials'[r] = e
        /\ \A i \in DOMAIN trials \ {r} : trials'[i] = trials[i]
    BY <1>6, EnumeratedExcept DEF AuditInv
  <2>2. ASSUME NEW q \in DOMAIN trials'
        PROVE  /\ {"at", "status", "failed", "eligible", "allowed"} \subseteq DOMAIN trials'[q]
               /\ trials'[q].at \in Nat
               /\ trials'[q].eligible => trials'[q].status # "RUNNING" /\ ~trials'[q].failed
    <3>1. CASE q = r
      BY <1>6, <2>1, <3>1 DEF AuditInv
    <3>2. CASE q # r
      BY <2>1, <3>2 DEF AuditInv
    <3> QED
      BY <3>1, <3>2
  <2> QED
    BY <1>6, <2>1, <2>2 DEF AuditInv, Enumerated
<1>7. ASSUME NEW r \in DOMAIN trials, TrialFails(r) PROVE AuditInv'
  <2> DEFINE e == [trials[r] EXCEPT !.failed = TRUE]
  <2>1. {"at", "status", "failed", "eligible", "allowed"} \subseteq DOMAIN trials[r]
    BY DEF AuditInv
  <2>2. trials[r].status = "RUNNING" /\ ~trials[r].eligible
    BY <1>7 DEF TrialFails, AuditInv
  <2>3. /\ {"at", "status", "failed", "eligible", "allowed"} \subseteq DOMAIN e
        /\ e.at = trials[r].at /\ ~e.eligible
    BY <2>1, <2>2
  <2>4. trials' = [trials EXCEPT ![r] = e] /\ UNCHANGED <<baselines, hour>>
    BY <1>7 DEF TrialFails
  <2> HIDE DEF e
  <2> QED
    BY <1>6, <2>3, <2>4
<1>8. ASSUME NEW r \in DOMAIN trials, NEW s \in {"COMPLETED", "ERROR"},
             NEW useful \in BOOLEAN, Settle(r, s, useful)
      PROVE  AuditInv'
  <2> DEFINE eligible == /\ s = "COMPLETED" /\ ~trials[r].failed /\ useful
                         /\ permitted /\ Qualified(r) /\ Adverse(r) = {}
             allowed == IF trials[r].base = 0 THEN eligible
                        ELSE eligible /\ ComparableTo(trials[r].base, r)
             e == [trials[r] EXCEPT !.status = s, !.eligible = eligible, !.allowed = allowed]
  <2>1. {"at", "status", "failed", "eligible", "allowed"} \subseteq DOMAIN trials[r]
    BY DEF AuditInv
  <2>2. eligible => ~trials[r].failed
    OBVIOUS
  <2>3. trials' = [trials EXCEPT ![r] = e] /\ UNCHANGED <<baselines, hour>>
    BY <1>8 DEF Settle
  <2> HIDE DEF eligible, allowed
  <2>4. /\ {"at", "status", "failed", "eligible", "allowed"} \subseteq DOMAIN e
        /\ e.at = trials[r].at /\ e.eligible = eligible /\ e.status = s
        /\ e.failed = trials[r].failed
    BY <2>1
  <2> HIDE DEF e
  <2> QED
    BY <1>6, <2>2, <2>3, <2>4
<1>9. ASSUME NEW r \in DOMAIN trials, NEW q \in DOMAIN trials, VerifyFix(r, q)
      PROVE  AuditInv'
  <2>1. baselines' = Append(baselines, q) /\ UNCHANGED <<trials, hour>>
    BY <1>9 DEF VerifyFix
  <2>2. /\ Enumerated(baselines')
        /\ \A i \in DOMAIN baselines : baselines'[i] = baselines[i]
        /\ \A i \in DOMAIN baselines' : i \in DOMAIN baselines \/ baselines'[i] = q
    BY <2>1, EnumeratedAppend DEF AuditInv
  <2> QED
    BY <2>1, <2>2 DEF AuditInv, Enumerated
<1>10. ASSUME Revoke \/ Pass PROVE AuditInv'
  BY <1>1, <1>2, <1>10 DEF Revoke, Pass
<1>11. CASE UNCHANGED assuranceVars
  BY <1>1, <1>2, <1>11 DEF assuranceVars
<1> QED
  BY <1>3, <1>4, <1>5, <1>7, <1>8, <1>9, <1>10, <1>11 DEF AssuranceNext

\* An answer of ALLOW is one of PRESERVED and without a known failure, and a summary is
\* ALLOW when each answer is.
LEMMA AnswerAllows ==
  ASSUME NEW p, NEW class, NEW known \in BOOLEAN, Answer(p, class, known) = "ALLOW"
  PROVE  class = "PRESERVED" /\ ~known
BY DEF Answer

LEMMA SummaryAllows ==
  ASSUME NEW answers, Summary(answers) = "ALLOW", NEW a \in answers
  PROVE  a = "ALLOW"
BY DEF Summary

\* No failure is known of a completed run: neither its own nor of the same artifact.
LEMMA CleanRun ==
  ASSUME NEW r \in DOMAIN trials, ~trials[r].failed, Adverse(r) = {}
  PROVE  Clean(r)
BY DEF Clean, Adverse

LEMMA SoundRun ==
  ASSUME AuditInv, NEW r \in DOMAIN trials, Recent(r), Exact(r), Complete(r), Verdict(r) # "FAIL",
         Adverse(r) = {}
  PROVE  Sound(r)
<1>1. ~trials[r].failed /\ trials[r].status = "COMPLETED"
  BY DEF Verdict, Complete
<1>2. trials[r].fingerprint["application"] = Requested.digest
  BY DEF Complete, Qualified, Exact
<1>3. hour <= trials[r].at + MaxAge /\ permitted
  <2>1. hour \in Nat /\ trials[r].at \in Nat /\ MaxAge \in Int
    BY AgeAssumption DEF AuditInv
  <2> QED
    BY <2>1 DEF Recent
<1> QED
  BY <1>1, <1>2, <1>3, CleanRun DEF Sound

LEMMA AuditSound ==
  ASSUME AuditInv, impact # NoImpact, NEW run \in Audits, Audit(run) = "ALLOW"
  PROVE  /\ Approved = DOMAIN run
         /\ \A p \in DOMAIN run : /\ Sound(run[p])
                                  /\ trials[run[p]].fingerprint = impact.change.after
<1> DEFINE answers == {IF p \in DOMAIN run
                       THEN Answer(p, AuditClass(run[p]), KnownFailure(run[p]))
                       ELSE Answer(p, "UNKNOWN", FALSE) : p \in Considered}
<1>1. ScopeHolds /\ Summary(answers) = "ALLOW"
  BY DEF Audit
<1>2. \A a \in answers : a = "ALLOW"
  <2> HIDE DEF answers
  <2> QED
    BY <1>1, SummaryAllows
<1>3. DOMAIN run \subseteq Considered /\ \A p \in DOMAIN run : run[p] \in DOMAIN trials
  BY DEF Audits
<1>4. Considered \subseteq DOMAIN run
  <2> SUFFICES ASSUME NEW p \in Considered, p \notin DOMAIN run PROVE FALSE
    OBVIOUS
  <2>1. Answer(p, "UNKNOWN", FALSE) \in answers
    OBVIOUS
  <2> HIDE DEF answers
  <2>2. Answer(p, "UNKNOWN", FALSE) = "ALLOW"
    BY <1>2, <2>1
  <2> QED
    BY <2>2 DEF Answer
<1>5. Approved = Considered
  BY <1>1 DEF ScopeHolds
<1>6. ASSUME NEW p \in DOMAIN run
      PROVE  /\ Sound(run[p])
             /\ trials[run[p]].fingerprint = impact.change.after
  <2>1. Answer(p, AuditClass(run[p]), KnownFailure(run[p])) \in answers
    BY <1>3, <1>6
  <2>2. KnownFailure(run[p]) \in BOOLEAN
    BY DEF KnownFailure
  <2>3. AuditClass(run[p]) = "PRESERVED" /\ ~KnownFailure(run[p])
    <3> HIDE DEF answers
    <3>1. Answer(p, AuditClass(run[p]), KnownFailure(run[p])) = "ALLOW"
      BY <1>2, <2>1
    <3> QED
      BY <2>2, <3>1, AnswerAllows
  <2>4. /\ Recent(run[p]) /\ Exact(run[p]) /\ OfExpected(run[p]) /\ Complete(run[p])
        /\ Eligible(run[p])
    BY <2>3 DEF AuditClass
  <2>5. Verdict(run[p]) # "FAIL" /\ Adverse(run[p]) = {}
    BY <2>3, <2>4 DEF KnownFailure, Eligible
  <2>6. Sound(run[p])
    BY <1>3, <2>4, <2>5, SoundRun
  <2> QED
    BY <2>4, <2>6 DEF OfExpected
<1> QED
  BY <1>3, <1>4, <1>5, <1>6

LEMMA CanarySound ==
  ASSUME AuditInv, NEW pair \in Canaries, Canary(pair) = "ALLOW", NEW b \in DOMAIN pair
  PROVE  pair[b] > 0 /\ Sound(pair[b]) /\ Clean(baselines[b])
<1> DEFINE answer(d) ==
             LET p == trials[baselines[d]].property IN
             IF pair[d] > 0 THEN Answer(p, CanaryClass(d, pair[d]), KnownFailure(pair[d]))
             ELSE Answer(p, "UNKNOWN", FALSE)
           answers == {answer(d) : d \in DOMAIN pair}
           p == trials[baselines[b]].property
<1>1. Summary(answers) = "ALLOW"
  BY DEF Canary
<1>2. answer(b) = "ALLOW"
  <2>1. answer(b) \in answers
    OBVIOUS
  <2> HIDE DEF answers, answer
  <2> QED
    BY <1>1, <2>1, SummaryAllows
<1>3. pair[b] \in {0} \cup DOMAIN trials /\ b \in DOMAIN baselines
  BY DEF Canaries, Offers
<1>4. pair[b] > 0
  <2> SUFFICES ASSUME ~(pair[b] > 0) PROVE FALSE
    OBVIOUS
  <2>1. Answer(p, "UNKNOWN", FALSE) = "ALLOW"
    BY <1>2
  <2> QED
    BY <2>1 DEF Answer
<1>5. pair[b] \in DOMAIN trials
  BY <1>3, <1>4
<1>6. CanaryClass(b, pair[b]) = "PRESERVED" /\ ~KnownFailure(pair[b])
  <2>1. Answer(p, CanaryClass(b, pair[b]), KnownFailure(pair[b])) = "ALLOW"
    BY <1>2, <1>4
  <2>2. KnownFailure(pair[b]) \in BOOLEAN
    BY DEF KnownFailure
  <2> QED
    BY <2>1, <2>2, AnswerAllows
<1> HIDE DEF answer, answers, p
<1>7. /\ Recent(pair[b]) /\ Exact(pair[b]) /\ Complete(pair[b]) /\ Eligible(pair[b])
      /\ ComparableTo(b, pair[b])
  BY <1>6 DEF CanaryClass
<1>8. Sound(pair[b])
  <2>1. Verdict(pair[b]) # "FAIL" /\ Adverse(pair[b]) = {}
    BY <1>6, <1>7 DEF KnownFailure, Eligible
  <2> QED
    BY <1>5, <1>7, <2>1, SoundRun
<1>9. Clean(baselines[b])
  <2>1. Eligible(baselines[b])
    BY <1>7 DEF ComparableTo
  <2>2. baselines[b] \in DOMAIN trials /\ ~trials[baselines[b]].failed
    BY <1>3, <2>1 DEF AuditInv, Eligible
  <2> QED
    BY <2>1, <2>2, CleanRun DEF Eligible
<1> QED
  BY <1>4, <1>8, <1>9

\* For any properties, changes and runs: an audit allows only what a recent, complete run
\* of exactly this configuration shows of every approved property and no known failure
\* contradicts, and a canary promises the same against a baseline not known to fail.
THEOREM AuditAllowIsSoundAlways == AssuranceSpec => []AuditAllowIsSound
<1>1. AuditInv => AuditAllowIsSound
  BY AuditSound, CanarySound DEF AuditAllowIsSound
<1>2. AssuranceSpec => []AuditInv
  BY AuditInitially, AuditStep, PTL DEF AssuranceSpec
<1> QED
  BY <1>1, <1>2, PTL

=============================================================================
