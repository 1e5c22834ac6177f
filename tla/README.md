# ThreatVeil in TLA+

ThreatVeil proves changes of tool-using software agents: it runs security trials
against the staging deployment of a candidate, keeps what its observers captured,
decides which of the evidence still applies to the next candidate, and signs a
release decision. Around that it watches the sources of an agent for changes, says
what a proposed change would break, lets observers establish the effects of what an
agent did, delivers its decisions to GitHub, and bills for the executions. This
directory holds TLA+ models of the parts where that can go wrong, the TLC
configurations that check them on small instances, and TLAPS proofs, for every
instance, of all safety properties that are checked. Paths are relative to the repository's package,
`src/threatveil/`.

Contents: [1 Inventory](#1-inventory), [2 Modules](#2-modules-and-the-code),
[3 Runs](#3-runs-and-bounds), [4 Fairness](#4-fairness),
[5 Proofs](#5-proofs), [6 Disagreements](#6-disagreements-with-the-code),
[7 Noted, without a run](#7-noted-without-a-run),
[8 Not modelled](#8-not-modelled), [9 Plan](#9-plan).

## 1 Inventory

The service is a FastAPI application on PostgreSQL (SQLite locally). Nearly all state
is append-only rows of `core_records`, plus mutable rows for accounts, `run_state`,
`run_leases`, `outbox`, schedules and memberships. A handler is one database
transaction. Processes meet through three locks: the advisory lock of a system
(`lock_system`), the row lock of `run_state`, an outbox row or an installation, and the
row lock of the organization's account. What interleaves is therefore whole
transactions, the places where a handler uses two transactions, handlers that do not
take the lock another one relies on, and everything outside the database: launcher,
runner jobs, clouds, providers, the file system and clients.

| component | state | operations | what makes it correct | module |
|---|---|---|---|---|
| Run execution protocol: `broker.py`, `launcher.py`, `worker.py`, `maintenance.py` | outbox row and leases of a run | pending, prepare, launch, dispatched, claim, renew, observe, complete, fail, reconcile | work is never executed twice; only the newest lease acts; authority is bounded in time; every run settles | `RunExecution` |
| Run lifecycle: `api.py`, `captures.py`, `execution.py`, `adverse_memory.py` | `run_state`, captures, result, account units | create_run, local executor, captures, finish_run, run_view | a run settles once; a captured failure is never lost; units are charged exactly for work that began; ALLOW is shown only on complete clean evidence | `RunExecution` |
| Trial observers and evaluation: `core/evaluation.py`, `observers.py` | an observer's binding and qualification | evaluate_trace, attestations, the three controls, approve, revoke | a verdict is about what happened, not about what was reported | `Evaluation` |
| Assurance selection: `assurance.py`, `core/impact.py`, `core/regression.py` | impacts, baselines, approvals | impact, verify_fix, audits and canaries | an audit's ALLOW covers every approved property and every known failure | `Assurance` |
| Schedules: `maintenance.py`, `api.py` | schedules, `schedule.tick` rows | create, disable, tick_schedules | one run per period, none after a stop | `Schedules` |
| Governance: `governance.py` | deletion request | request, cancel | freezes work; cancelling gives no authority back | `RunExecution`, `Schedules`, `Erasure` |
| Evidence validity: `core/validity.py` | none (a pure algorithm) | change_set, invalidate | evidence is reused only if nothing it depended on changed unreviewed | `Validity` |
| Release ledger: `release_integrity.py` | evidence records, scope reviews, plans, exceptions, releases | record, review, plan, request/approve/revoke exception, issue, read | no ALLOW without evidence for every property; a bypass has a second person behind it | `ReleaseIntegrity` |
| Machine issuer: `release_machine.py` | policies with epochs, one-use grants | approve policy, authorize, revoke, decide | a machine decides only what people approved, once | `ReleaseIntegrity` |
| Change assurance: `change_assurance.py`, `change_assurance_api.py` | envelopes, states, mappings, decisions, activations | save, project, decide, enforce, revoke, gate | what reads as supported or cleared is established, whatever arrived late | `ChangeAssurance` |
| Proposed changes: `proposed_changes.py`, `source_semantics.py`, `agent_definitions.py` | observed definitions, assessments | observe, propose, replay | a dry run never calls an expansion harmless | `ProposedChanges` |
| Connectors: `connectors/*`, `connector_api.py` | configurations, batches, changes, health | import, push, poll, reconfigure | every difference is announced; current means that nothing is missing | `Sources` |
| Discovery and intake: `integration_intake_api.py`, `integrations/*intake.py`, `mcp_discovery.py` | catalogs, normalized documents, reviews | discover, compare, import, review | a comparison says what was so; a review promotes nothing | `Intake` |
| Observer platform: `observer_platform.py`, `observer_sql.py` | contracts, qualification, effect facts | qualify, revoke, read, record, summarize | a reported effect or refusal is one of the system of record | `Observers` |
| GitHub checks: `integrations/github_release.py`, `github_app.py` | delivery outbox with claims and recorded intents | enqueue, claim, write, find again, publish, revoke | one check per release; no delivery is forgotten | `CheckDelivery` |
| Messages: `integrations/revenue_delivery.py` | outbox row | claim, send, retry, exhaust | one e-mail per invitation | `MessageDelivery` |
| Billing: `commercial*.py`, `integrations/billing.py` | plan, boundary, usage, followed subscription | mock commands, webhooks, renewal | usage renews once a period; the account says what the provider says | `Subscription` |
| Erasure: `erasure.py`, `evidence_storage.py` | objects, captures, manifest | store, purge, prepare, erase, resume | all or nothing, wherever it stops | `Erasure` |
| Automatic re-proof, suites, packs, passports, measurement, adapters, clients, web application, infrastructure | records of their own, or none | | section 8 | - |

How they interact. `create_run` reserves units of the account and writes a
`run.dispatch` outbox row. The launcher, started by Cloud Scheduler, fetches rows,
has the broker *prepare* each (a new lease with a bootstrap token, all older leases
revoked), starts a cloud job with the token and reports it *dispatched*. The job
*claims* its lease, *renews* it before every trial, *observes* after every trial and
*completes* or *fails*. The first transaction of a completion records it and consumes
the lease; a second one, `finish_run`, settles the run, charges or refunds the
account and, for a qualified run, writes a release evidence record.
`reconcile_runs` picks up whatever was left: recorded completions, unclaimed leases,
lost workers, runs past the deadline. Schedules call `create_run` periodically.
`release_integrity` reads evidence records and asks `invalidate()` whether each still
applies to a candidate; releases are signed from that and read again at every use.
Sources deliver batches beside all of this; `change_assurance` projects, from all
records, whether a state of the system is still supported and whether a decision is
still current, and the gate of `assurance_intelligence` answers machines from that.
Releases go to GitHub through an outbox row, invitations to the e-mail provider
through another.

Behaviours that are hard to test: two launchers on one batch; answers lost between
the launcher, the cloud and the broker; a reconciliation decision that becomes stale
before it settles; failures captured after another run of the scope passed; authority
withdrawn between any two transactions; a source batch that is stamped before and
visible after a decision; evidence that is right when signed and wrong when read; an
observer's two reads around a commit; receipts lost on the way; a create whose answer
never comes; webhooks in the wrong order; an erasure stopped between two stores.
`PROJECT.json` lists each at its line with the property that covers it, or the reason
why none does.

## 2 Modules and the code

| module | models | kind |
|---|---|---|
| `RunExecution` | run protocol, lifecycle, settlement, units | state machine (30 actions) |
| `RunLedger` | what `RunExecution` promises to the account | abstract specification |
| `RunExecutionProofs` | invariants, settlement, refinement, what a release rests on | proofs |
| `Validity` | `change_set` and the worklist of `invalidate` | algorithm as a state machine |
| `ValidityProofs` | the worklist against its closure and against a judgement in one step; `ProposedChanges` | proofs |
| `ReleaseIntegrity` | release ledger and machine issuer | state machine |
| `ReleaseReuse` | the ledger over the judgement of `Validity` | composition |
| `ReleaseIntegrityProofs` | machine authority, the gate and ALLOW; `ReleaseReuse` | proofs |
| `ChangeAssurance` | records of change, their projection, decisions and the gate | state machine |
| `ChangeAssuranceProofs` | support, the gate, activation and clearance | proofs |
| `Evaluation` | the verdict on one trial and the qualification of its observer | state machine |
| `Assurance` | impacts, baselines, and what audits and canaries make of runs | state machine |
| `TrialProofs` | `Evaluation` and `Assurance` | proofs |
| `Schedules` | schedules, ticks, deletion requests, their locks | state machine |
| `Erasure`, `Subscription`, `Observers` | the components of the same subject in section 1 | state machines |
| `PlatformProofs` | these four | proofs |
| `Sources`, `Intake`, `MessageDelivery`, `CheckDelivery` | the components of the same subject in section 1 | state machines |
| `DeliveryProofs` | these four | proofs |
| `ProposedChanges` | proposed definitions | state machine |
| `SequenceLemmas` | `Append`, the least and largest element of a set of numbers, what holds up to a number, and that a value carried along a sequence exists | lemmas of several proofs |
| `MCRunExecution`, `MCSettling` | trials and scopes; runs beside `CheckDelivery` | TLC |
| `MCValidity`, `MCTrials`, `MCReleaseIntegrity` | fingerprints and scopes; instances of `Evaluation` and `Assurance`; policies, reuse and profiles, beside these three | TLC |
| `MCChangeAssurance` | baselines and profiles | TLC |
| `MCPlatform` | the eight modules of `PlatformProofs` and `DeliveryProofs`, and `ProposedChanges`: one of them in each behaviour | TLC |

A TLC module that holds several parts runs each for itself: they share no state, a
variable `part` says whose behaviour it is, and the others stand still. Operators
named as variants ("a variant that differs from the code", "Fault") are plausible
mistakes against which the properties were tried; no specification uses them.

### RunExecution

`Api` is `create_run`; `Authority` is `revoke_target`, `revoke_observer`,
`request_deletion` and `cancel_deletion` as they bear on runs. `Launcher` is the loop
of `dispatch_pending`, one action per broker call, with `AbortBatch` for any
exception, time limit or crash. `Worker` is the broker's claim, renew, observe,
complete and fail; a runner job may stop anywhere, so nothing forces the next one.
`Local` is `execute_run` and `execute_external`, the executor of local deployments,
with its crash. `Recovery`, `RetireRoute` are the branches of `reconcile_runs`.
`FinishRun` is `finish_run`, a separate transaction wherever it follows another:
`finishing` holds the calls that were decided on and not made yet, and `LoseFinish`
is the crash of the process that should make one.

| variable | code |
|---|---|
| `status`, `result` | `run_state.status`; the settled `run_result` record (`run_state.settled` is its domain) |
| `outbox` | status of the `run.dispatch` row |
| `fence`, `claimed`, `revoked`, `ttl`, `held` | `run_leases`: highest fence, which leases have `claimed_at`, which are revoked, time left of the newest, time since its claim |
| `age` | time since the run was created |
| `launched` | tokens that reached a runner job |
| `captured`, `completion` | `trial_capture` and `worker_completion` records |
| `finishing`, `executor`, `batch`, `hand` | what processes hold in memory |
| `targetRevoked`, `observerRevoked`, `frozen` | target and observer authority, pending deletion |
| `reserved`, `consumed` | the account |

Abstractions. One organization; a scope stands for (system, property, target,
candidate). A unit of time is about 300 s, and only the newest lease has a timer:
older ones are revoked (`FencingInv`) and are taken never to expire, which gives them
more power than they have. Captures of a run come in slot order, as both executors
produce them; capture size is counted in captures that fit the byte limit
(`CaptureBudget`), since only the refusal matters. The comparison with a baseline is a
nondeterministic verdict: it reads another run's statistics. A trial is a verdict, a
task outcome and whether the candidate was observed. Runs are numbered in the order
in which they are created. The used-nonce table (`broker.py`) and read-only grants
are left out. Timers of settled runs stop: no handler reads them.

### RunLedger

Four phases per run and the two counters: a run is accepted within the budget, starts
at most once and settles once, charged in full if it started and nothing otherwise.
`RunExecution` instantiates it (`Ledger == INSTANCE RunLedger WITH ...`) with the
refinement mapping `phase`, `charge`, and its own `reserved` and `consumed`, which the
code keeps in the account's row; `ImplementsLedger` is checked by TLC and proved.

### Evaluation

`Violates`, `Usable` and `Evaluated` are `evaluate_trace`; `Attested` and `Evaluation`
are `attestations_valid` and `bound_source`; `Begin`, `Submit`, `Approve` and
`RevokeObserver` are the handlers. What the code never sees is modelled as well,
because the property is about it: what the agent did (`Act`), what a collector is able
to see of it (`blind`) and says of itself (`honest`, `Covered`), and the receipts on
their way (`Collect`, `CollectLate`), lost, twice, swapped or of the trial before. A
collector may be replaced by another version at any time (`Deploy`).
`controls` is a record of what the accepted controls showed. Witness fields that only
must be equal to the contract's (authority, boundary, age) are one Boolean, `fresh`.

### Assurance

A run is what it turned out to execute and what it was declared as; it may capture a
failure before it settles. `Adverse` is `adverse_memory`, `Verdict` what `run_view`
shows. Approving a property is two steps (`WriteApproval`, `EndApproval`), as it does
not hold the lock under which `RecordImpact` reads. `Audit` and `Canary` are functions
of the state: the stored answers are not read by anything, and showing one assesses it
again. The property quantifies over every selection of runs a caller may offer.

### Schedules

Here the locks are the subject, so waiting is modelled. `tick_schedules` holds a
schedule's row in one transaction (`FOR UPDATE SKIP LOCKED`) and `create_run` opens a
second one that locks the account's row; the steps between two waits or two commits
are separate actions, and a crash rolls the first back and not the second.
`request_deletion` locks the account and then updates the schedules one by one.
`made` abstracts the idempotency key, which is made of schedule and `next_at`: it says
whether a run exists for the current `next_at`. `since` is an observer that no guard
reads. `member`, `target` and `capacity` are the conditions `create_run` tests.

### Validity

One action per turn of the worklist of `invalidate`. Component contents are folded
into a digest, the pending list into a set (a key met twice changes nothing), and a
candidate component may have unknown provenance. `Closed` defines the
reference: the least set that holds the scope's roots and what its members depend on
in either fingerprint. `Judgement` is the same answer in one step, the abstract
specification that the loop implements (`JudgedAtOnce`).

### ReleaseIntegrity

Every handler that writes what another one reads and relies on holds the system's
advisory lock, `finish_run`, `approve_property`, `revoke_target` and `member_role`
included, so a handler is one action. `Decision` is what `issue_release` signs,
`Current` what `current_release_assessment` reads from the same release later; they
are separate code in the repository and separate operators here. A configuration is
a candidate with its complete fingerprint; `Reuse` says for which changes a reviewed
proof scope covers the difference, the answer `Validity` computes in detail.
`ReleaseReuse` puts the two together: it instantiates `Validity` for each change with the
arguments `_assess_evidence` passes (`Arguments`), and says what an ALLOW rests on in terms
of fingerprints. Records
are numbered in order of creation and evidence records of one run share `run`, as
scope reviews append a record for an old run with the old time. One target and
observer, whose authority ends for good; the owner keeps the owner's role. Trial
budgets, the capability check for BLOCK, repository installations, credentials,
legal holds and the pending-deletion check of each handler are abstracted.

### ChangeAssurance

The log holds the records of one system in the order of `created_at`; what a reader
computes from them (`StateReasons`, `Affecting`, `Supported`, `clearance_status`,
`GateDecision`, ...) are operators named after the functions. Every handler holds the
system's lock and is one action, except the ingestion of a source batch: it takes the
installation's row only, so its record is written (`persist_batch`) and becomes visible
(`CommitBatch`) in two steps, and others are written in between. `Changes`, `Anchor`
and `Watermark` place a change relative to a state as `projection` does; `FullyMapped`
and `ReadAs` are the reviewed scope of a subject. Evidence is usable for its own
configuration only; its reuse is `ReleaseIntegrity`'s subject.

### ProposedChanges

`Authorization` blocks map paths to leaves for each format of `agent_definitions.py` and for
tool catalogs; `Restriction`, `Allowance`, `Denial`, `Grant` and `Mode` are the branches of
`classify_condition`, and the operators after them `authorization_diff`,
`interface_diff`, `explain_source_change` and `scope_change`. `Observe`, `Propose` and
`Replay` are the handlers. `DryRunIsConservative` compares their answer with what the
two definitions let an agent do (`Uses`, `Unattended`, `Delegates`, `ModesOf`), which
is defined from the definitions themselves and not from the blocks. The formats are an
assumption on the constant `Definition`, and so is that a catalog whose authorization was
not captured says nothing of an approval.

### Sources and Intake

`Sources` is one installation: `ingest` (import and push), `collect_source` and
`collect_failure` (poll), `reconfigure`, each under the installation's row lock and
one action. A sender chooses where a batch belongs (sequence, cursor, previous), so
late, repeated and skipped batches are inputs. `Intake` holds the discovery of tools,
page by page while the server changes, the comparison of two catalogs, and the import and review of
documents; a document is the facts it states. `Known` is what `_Projection` knows of a
component after each event of a trace.

### Observers

`ReadScoped` and `ReadElsewhere` are the two transactions of the SQL observer,
`RecordObservation` the report, repeated when the answer was lost; `Insert` and
`Update` are the system of record. `EffectSummary` is `effect_summary`.

### CheckDelivery and MessageDelivery

Both are outboxes with claims that expire. In `CheckDelivery` a call holds the locks of
the system and of the repository's binding from reading the release until GitHub has
answered (`lock`), but its request may be carried out after nobody waits for it any more
(`LateWrite`); the intent recorded before the first create (`write_started`) turns every
later attempt into a search. `issue_release` takes the first of these locks only, and
revoking and registering an installation the second. `publish_release` takes the second,
reads the row (`ReadPublish`, kept in `asked`) and writes it with its commit
(`CommitPublish`): the columns that change and the whole payload, over what
`_claim_delivery`, `_finish_delivery` or a newer release did to the row meanwhile. In `MessageDelivery` the provider knows an idempotency key for a limited time.
A process may stop anywhere in either (`Crash`, `CrashSender`).

### Subscription and Erasure

`Subscription` has `Mock` (the commands of `commercial.py`), `Stripe` (what the
provider does, the webhooks it sends, in any order and more than once, each of which
makes the service read the provider's current state) and `Metered` (use and renewal).
`Erasure` has the file system (`disk`) and the database (`organization`, `captured`) as
separate state, the signed manifest between them, and stops between any two steps.

## 3 Runs and bounds

| run | checks | instance and what it shows |
|---|---|---|
| `protocol` | `TypeOK`, `ExecutedOnce`, `OnlyNewestLeaseUsable`, `AuthorityWindow`, `ChargedIffStarted`, `FailurePreserved`, `SettledIsFinal` | one run, two dispatchers, two leases, two trials that pass or fail: launchers race each other, reconciliation and the worker (975,675) |
| `runs` | `AllowIsSound`, `ImplementsLedger`, `BlockIsForever` | three runs of one scope in the local executor, one under a BLOCK policy and one with a baseline, of two units each against a limit of four: the third waits for a settlement or is refused, and a failure of one run meets the others before and after it settles (1.18 million) |
| `settles` | `EveryRunSettles`, `RouteRetires`, `DeliverySettles` | liveness: one run whose second capture exceeds the byte limit, with retries, late `/internal/dispatched`, deletion and crashes; and two releases on their way to GitHub (72,183) |
| `release` | `GateHolds`, `AllowIsProven`, `MachineAsApproved`, `FreshReceiptAgrees`; `ReachesTheClosure`, `ReuseIsSound`; `VerdictIsTrue`; `AuditAllowIsSound` | three profiles of the ledger (exceptions under mixed policies; evidence of a baseline reused for a candidate; machine policies and grants), and all pairs of fingerprints over three components with any dependencies, cycles and dangling names included; one observer with three controls and a trial, and three runs under an audit (1.33 million) |
| `changes` | `SupportIsEstablished`, `GateIsSound`, `ActivationChain`, `ClearedViewsAgree`, `ActivationIsEstablished`, `ClearanceLossIsFinal` | six continuations of a decided baseline: changes of the source, states recorded while it changes, decisions racing for an epoch, failures and releases of a second configuration, another authority, another property (50,298 states, each with a projection of its log) |
| `platform` | `DifferencesAreAnnounced`, `FreshnessIsEarned`; `ComparisonIsTrue`, `ReviewNeverPromotes`; `SentAtMostOnce`; `CreatedAtMostOnce`; `FollowedIsCurrent`, `UsageRenewsOnce`; `ErasureIsAllOrNothing`; `EstablishedIsTrue`; `DryRunIsConservative`; `RunsAreSpaced`, `NoRunAfterStop` | the nine parts of `MCPlatform` (1.20 million) |
| `completion`, `schedule_deadlock`, `release_override`, `release_upgrade`, `change_gap`, `billing` | one property each, violated | section 6 |

Bounds, and why they are enough.

* `RunExecution`. The protocol's guards compare a lease with the newest one and count
  leases against the retry limit, so two leases and a limit of two reach every case:
  superseded before launch, before the claim, after the claim, and the last retry. Two
  dispatchers are needed for a double prepare; a third adds none, since the second
  prepare revokes whatever came first. `MaxFence` bounds the leases; the run limit, the
  deadline and the lease length stay distinguishable (1, 4, 2 units) so that each can
  be the one that ends a run. Two slots allow a failure followed by a pass and the
  reverse.
* `Evaluation`. Two actions and two receipts give a loss in front, at the end and of
  all, a repetition, a swap and a leftover. `Controlled`: controls are performed in one
  order, the prohibited one last; one assurance trial; another collector is deployed
  only once the observer is approved, and the observer is revoked between trials.
* `Assurance`. One property approved in the beginning and one meanwhile, three runs
  out of six kinds (candidate, retry under another label, qualification, drifted, wrong
  tool, half observed with other stimuli), one baseline, an age limit of 0 with one
  hour. `Ordered` fixes the order in which runs of different kinds are created, which
  no answer reads.
* `ReleaseIntegrity`. Two properties separate a property's mode from the default, two
  configurations reuse from identity, two users requester from approver; a window of
  one unit has evidence inside, at the end of and past it; two policies are an epoch
  and its successor. Evidence that did not pass, or that a scope review appended,
  occurs in the profile about reuse; in the profiles about exceptions and machines runs
  pass (`OnlyPassed`), which leaves every other obstacle to an ALLOW in them.
* `ChangeAssurance`. Each profile starts from a baseline that the handlers built
  (`Decided`) and allows the records it is about (`Fits`), up to a log of ten and a
  clock of two. Two components, one of them shared by two properties, and one foreign
  subject suffice for a change that reaches one claim, both or none by name.
* `Schedules`: two schedules, two ticks, an interval of two, so that one tick finds a
  schedule due, not due, locked and already served; one at a time of membership,
  target and capacity is withdrawn (`OneObstacle`), since `create_run` refuses for any
  of them alike.
* `Sources`: one component that comes and goes, four records, sequences and cursors
  with one successor each, one unit of time. `Intake`: three tools on pages of one with
  a limit of two pages (the cut-off catalog), two changes of the server, whose cursors
  name the last tool of a page (the client only hands them back; a server that encodes a
  position in its list could skip or repeat tools as it changes); documents of
  three events in which reports of a component agree, differ and alternate.
* `CheckDelivery`: two releases and two calls, the second of which takes part while the
  newer release has no row (`SecondJoins`), two attempts, two installations, one
  `publish_release`; in `settles` one call and one installation. `MessageDelivery`: two calls, three attempts, a retry
  window of two hours and a key known for three.
* `Subscription`: two subscriptions, four events, three days with a period of two.
  `Erasure`: two objects and two requests. `Observers`: one reader, two keys, two rows;
  its row limit is not exceeded in the instance. `ProposedChanges`: one agent with two
  tools in every format; a second observation and the replayed past are taken from
  `Revisited` (partial catalogs and the opaque format); blocks of four leaves are cut off
  (`MaxLeaves`).

Instances where the system may stop (bounded numbers of runs, plans, records) switch
deadlock checking off: when everything the bounds allow has been done nothing is left
to do.

## 4 Fairness

`RunExecution`: weak fairness of `Tick`, of `RetireRoute` and of the recovery branches
of `reconcile_runs` for each run, strong fairness of `Finish`. Cloud Scheduler calls
the reconciliation job every few minutes (`src/infra`) and the job visits every
dispatch row that is not settled, so a branch that stays enabled is taken. `Finish` is
strong because a process may be killed again and again after deciding on a
`finish_run` and before making it, but the decision comes back with each
reconciliation; what is assumed is that not every one of them is killed. Nothing is
assumed of users, the launcher, the cloud, runner jobs or the local executor:
`EveryRunSettles` says that a run settles *whatever* they do.

`CheckDelivery`: time passes; a call that was started goes on, unless it stops, and
`publish_release` commits or is rolled back; strong
fairness of claiming each release's row and of getting the lock, since calls of
`reconcile_github_checks` are repeated by the scheduler and take the due rows in order,
and PostgreSQL grants a lock in turn. Neither GitHub nor the people are assumed to do
anything. The other modules state safety only.

## 5 Proofs

All constants are arbitrary: any sets of runs, dispatchers, schedules, callers,
components, users, any timer lengths. Assumptions are only the ASSUMEs of the modules,
which TLC evaluates on every instance; those that say more than that a number is a number
are named below. Each invariant was checked by TLC on its run's instance before it was
proved. None of the properties is inductive by itself; what each part of an inductive
invariant is for is said with it. Each module has a step lemma with one case per action.

`RunExecutionProofs`. `TypeCorrect`; then
`IInv == FencingInv /\ PhaseInv /\ SettlementInv /\ WindowInv`. That a lease is claimed
only if it is the newest needs that older ones are revoked and that tokens in
dispatchers' hands were issued (`FencingInv`); that a run given up was or was not started
needs what each status allows to exist (`PhaseInv`: a run that is not begun has no
claims, captures, completion or executor); that the deadline bounds authority needs how
`ttl` and `held` move together (`WindowInv`). From it: `ExecutedOnceAlways`,
`FencingAlways`, `AuthorityWindowAlways`, `ChargedIffStartedAlways`,
`FailurePreservedAlways`, the action property `SettledForGood`, and `LedgerImplemented`:
initial states map to initial states, and every step is a ledger step or leaves the
ledger's variables alone.

On top of it, `ReleaseInv == EvidenceInv /\ AllowedInv /\ FreezeInv` is about what an
ALLOW rests on: the outcome that waits to be settled is the evaluation of the captures
that are stored, so nothing is allowed on a set of captures that is incomplete or has
grown since; and a pending deletion has revoked every target, so lifting it restores no
authority. `AllowIsSoundAlways` follows for any number of runs of any scopes, and
`BlockedForGood`: a settled run that was shown as BLOCK is never shown otherwise later.

`ValidityProofs`. What was reached or is pending contains the roots and the dependencies
of everything reached, and lies in every closed set; when nothing is pending the reached
set is therefore the least closed set. From it `ReachesTheClosureAlways` and
`ReuseIsSoundAlways`, for any fingerprints. `EveryTurnAdvancesAlways` says that every
turn of the worklist reaches a new key or leaves fewer to visit. `JudgedAtOnceAlways` is a
refinement: the loop implements one step that judges the least closed set, so that the
answer is a function of the arguments, in whatever order keys are visited. (The answer
needs less than the closure: an edge that the candidate has lost makes its source
changed, and the evidence void, before anything behind the edge is looked at.)

The same module is about `ProposedChanges`. `ProposedInv` says that what is compared are
batches, with all components of their definitions and no others when they are complete,
and that an assessment is what `evaluate` computes of them. `BlockFacts` tells what each
format's authorization block says of its definition; a direction that is neither EXPANDED
nor UNKNOWN means for each path that the new block restrains as much (`Restrained`), and
then each kind of authority, the use of tools, of modes, delegation and freedom from
approval, is shown to be contained, for each format and across two of them. A block that is
cut off reads UNKNOWN against one that is not, since only it has the marker. That is
`ContainedUnlessExpanded`; `UnreachedIsMapped` follows from how subjects are collected.
Together `DryRunIsConservativeAlways`, for any definitions, any bound of leaves and any
mapping.

`ReleaseIntegrityProofs`. `TypeCorrect`, which includes that records refer only to
records that exist, and `AppendOnly`, that no handler removes a record or changes what
it says of its run, plan, people and scope. The inductive invariant is
`IInv == OriginInv /\ GrantInv /\ ApproverInv /\ RowInv /\ MachineAsApproved`:
evidence records of one run have one age (else a scope review could renew evidence); a
grant, its policy and its plan are about one scope; nobody approved an own exception; a
signed row names evidence of its own property and the exceptions are the plan's. From it
`MachineAsApprovedAlways`, `AllowIsProvenAlways` and `GateHoldsAlways`. The action
property `FreshReceiptAgreesAlways` shows that the two pieces of code that compute a
verdict agree at the moment of signing, under the two conditions in its statement;
section 6 says what happens without them.

`AllowRestsOnSurfacesAlways` is about the ledger and the judgement of evidence together.
If evidence is reused for no change but those that `Judgement` leaves valid
(`ReuseIsJudged`), then behind an ALLOW there is, for every approved property, a run on
the release's configuration or on one from which no component that the run depended on,
then or now, has changed without a review. The hypothesis holds in the run `release`: the
ledger's behaviours there begin only where it does, with arguments of `invalidate` for the
one reviewed change.

`ChangeAssuranceProofs`. `IInv == ReferenceInv /\ SourceInv /\ ActivationChain`. Records
name earlier records of the right kind, and a decision that allows had every property
supported (`ReferenceInv`); until a reconfiguration, a batch names all in which it differs
from the batch it follows (`SourceInv`); activations form a chain. Support is established
by looking at the differences between two snapshots that may lie many batches apart:
among the batches from the one to the other that differ from the first in a component
there is a least one, the batch it follows does not differ, so it names the component,
and the projection sees it. Assumed is that a component has at least one
content, and that the marker of a reconfiguration, `connector_configuration:<installation>`,
is not the name of a component. From it `SupportIsEstablishedAlways`, `GateIsSoundAlways`,
`ClearedViewsAgreeAlways`, `ActivationChainAlways`, `ActivationIsEstablishedAlways` and
`ClearanceLossIsFinalAlways`: a clearance that was revoked, superseded or ran out is
never current again.

`TrialProofs`. Of `Evaluation`, `TrialInv` with three parts. `ReceiptInv`: what was seen
happened, a receipt that counts is of what was seen under its number, and a collector of
the first version saw all but what it is blind to. `ControlInv`: what the controls showed
is true of that collector. A PASS has receipts without a gap up to the last number, so
each action that was seen has a receipt that counts; a FAIL has a receipt that counts, of
an action that was seen and therefore happened. A collector of another version cannot
produce a verdict, since attestation binds the version. `VerdictIsTrueAlways` holds for
any actions, predicates and blindness. Of `Assurance`, `AuditInv` says that an eligible
run has settled without a captured failure and that baselines are runs; the rest of
`AuditAllowIsSoundAlways` is about one state, for every selection of runs a caller offers.

`PlatformProofs`.
* `Schedules`: `LockInv` (who holds which row, and at which stage) and `SpacingInv`
  (`since` and `due` against `made`); `RunsAreSpacedAlways` and `NoRunAfterStopAlways`
  for any number of concurrent ticks and any positive interval.
* `Erasure`: what a live organization has captured is stored (`LiveInv`), the manifest
  lists all captures until the commit (`PreparedInv`), and what is left afterwards is in
  the manifest of the request that stands (`CleaningInv`). `ErasureIsAllOrNothingAlways`
  needs no assumption.
* `Subscription`: only Stripe has subscriptions, and an account that follows one keeps no
  dates, so the clock does not touch its contract (`FollowingInv`).
  `FollowedIsCurrentAlways` and the action property `UsageRenewsOnceAlways`, whose
  boundary of a period exists by division with remainder, for any positive period.
* `Observers`: the effect is committed if and only if a row of this tenant, committed or
  compensated, is in the table, and each answer that a reader holds or recorded was true
  of it (`TruthInv`); `EstablishedIsTrueAlways`.

`DeliveryProofs`.
* `Sources`: batches of a configuration that is no longer in force lie before a
  reconfiguration (`ConfigInv`), those of one configuration that project are in the order
  of the source's time (`OrderInv`), a last health record that is not a bad one is the prior
  batch's (`StatusInv`), and a hole stays in the prior batch's continuity until a snapshot
  of the server closes it (`HoleInv`). `DifferencesAreAnnouncedAlways` is a part of the
  invariant itself: a new batch is compared with the prior one only, and what that one
  says differently of any earlier batch was announced before. `FreshnessIsEarnedAlways`
  follows from the other parts.
* `Intake`: what the pages before the cursor said was so when they were read, and what is
  listed now counts as seen (`DiscoveryInv`); a page is a prefix of what is left, so the
  cursor passes nothing. `ComparisonIsTrueAlways`, for any tools and a page size of at
  least one. An import keeps what was projected of its trace (`TraceInv`), and a review
  declares a fingerprint that retains it (`ReviewInv`). What `_Projection` knows in the end
  is a value carried along the events. That such a recursive function exists is
  `WalkExists`; that it is known for a component only if every report so far states it goes
  by the least number of events for which it fails. `ReviewNeverPromotesAlways`, for traces of
  any length.
* `MessageDelivery`: the key became known after the first attempt, and a call that may
  still send claimed the message within the retry window (`KeyInv`).
  `SentAtMostOnceAlways` assumes `RetryWindow < KeyWindow`, as the code's 23 hours and
  the provider's 24 are.
* `CheckDelivery`: whoever holds the claim of a row and may create its check is the first
  to begin (`StartInv`), and after that there is the check, a request underway or one that
  somebody waits for, and only one of these (`CreateInv`). `CreatedAtMostOnceAlways`
  assumes that no reconciler is called `Nobody`. The reconcilers need no lock among
  themselves: claims and the recorded intent suffice. `publish_release`, which writes back
  a payload that it read before, does: while it holds the binding's lock nobody can record
  an intent that it would wipe out, and the claim that it writes back is not one to begin
  with (`AskedInv`). Without that lock the run finds a release with two checks (the mutant
  of `CreatedAtMostOnce`).

Only model-checked: liveness (`EveryRunSettles`, `RouteRetires`, `DeliverySettles`),
which tlapm does not do. Induction is used in one form only, over the numbers up to a
bound with a set of those for which a statement fails (`UpTo`), since the library's
theorems about predicates cannot be instantiated by the provers used.


## 6 Disagreements with the code

Six runs expect a violation; each checks a sentence of the repository.

* `completion`. The comment at `broker.py:345` says that after the lease consumption is
  committed "finalization is idempotent and retryable via reconciliation".
  `reconcile_runs` decides on TIMEOUT in one transaction and settles in another without
  reading again, so a completion accepted in between is recorded and then discarded.
* `schedule_deadlock`. `governance.py:121` says "Stop new consequential work
  immediately" and `erasure.py:147` names the lock order. `tick_schedules` takes a
  schedule's row first and the account's row on a second connection; a deletion request
  takes them in the other order. PostgreSQL sees no cycle, because the tick's first
  connection is idle in its transaction.
* `release_override`. `docs/RELEASE_GATE.md:5` says that a property configured for
  BLOCK can still block a release whose default mode is WARN. When the plan's scope is
  out of date `issue_release` looks at the default mode only.
* `release_upgrade`. The docstring of `current_release_assessment` says that it does
  not upgrade a receipt; a receipt signed with underlying BLOCK because of an outdated
  plan reads as underlying ALLOW at once.
* `change_gap`. `docs/SYSTEM_INTELLIGENCE.md:94` says that a source gap makes every
  claim need review. The projection looks only at the changed components of the gap's
  snapshot: if all of them are reviewed dependencies, the other claims stay supported.
* `billing`. `current_state` says that "webhook delivery order is not a billing clock".
  A new subscription whose creation is delivered before the end of the old one is
  ignored for good, and the account stays cancelled while the customer pays.

## 7 Noted, without a run

Seen while modelling, at the lines named; the models contain them unless said otherwise.

Evidence and evaluation.
* `approve_observer` accepts an INCONCLUSIVE verdict of any cause for the control
  MISSING_OBSERVATION (`api.py:2349`), whereas `core/qualification.py:78` asks for a
  witness that says it is not complete. A lost tail of receipts is caught only by that
  flag, so `VerdictIsTrue` takes a control in which it was off. A qualification shows
  nothing about prohibited actions other than the one that was performed.
* `effect_summary` answers NO_EFFECT_OBSERVED from pre-commit facts, however early
  (`observer_platform.py:259`; its docstring and `docs/BUSINESS_EFFECT_OBSERVER.md:111`
  ask for an elapsed window), and DENIED from an absence read before the window ended.
  A report of a compensated effect alone yields UNKNOWN.
* An audit can preserve a component that was observed without version or digest when
  the impact's expected one is unidentified as well.

Changes of source and proposed changes.
* A `mcp:` server change that comes with a change of permissions is neither a subject
  nor unexplained (`source_semantics.py:309-317`; the docstring at 365 promises one of
  them). Two blocks that are both cut off at `MAX_LEAVES` compare equal (line 206). A
  scope list that is removed reads CONTRACTED, as does an authorization that was not
  captured on either side with a withdrawn tool; an agent that appears without tools
  but with undeclared grants reads EQUIVALENT.
* A gap or reconfiguration before a state is never reconciled, so nothing recorded
  later is supported again (`change_assurance.py:253`; `docs/FAILURE_STATES.md:20`).
* A decision refused once with AUTHORITY_SCOPE_CHANGED is refused for ever, and a 409
  from `decide` leaves the assessment key of `finance_assess` in use. That endpoint
  answers 202 RUNNING in hosted mode where `docs/AUTO_REPROOF.md:59` says COMPLETED.
* Two calls of an automatic re-proof policy may both count the same free budget
  (`auto_reproof.py:115`, 191; not modelled). A newer decision that is not ALLOW leaves
  an older CURRENT passport current (`passports.py`; not modelled).

Deliveries and billing.
* `publish_release` of an older release that was never routed supersedes the delivery
  of a newer one. `issue_release` does not take the lock of the binding: a release issued
  while `publish_release` enqueues another leaves two live rows of the repository, and one
  issued while it asks for a row again may be followed by that row going back to retry. Row
  and payload are written back as they were read, so a claim made meanwhile is lost and its
  call finishes without effect; the row is claimed again. A create that GitHub definitely refused leaves `write_started` set, so
  the release is only ever searched for. Twenty rows that are always due keep later
  rows of a call waiting (not modelled: at most twenty are due).
* `MessageDelivery` assumes that no call is held up for more than the hour between the
  retry window and the provider's memory.
* A downgrade scheduled during grace makes the account active and keeps `grace_until`;
  an abandoned Stripe checkout moves a free account to awaiting payment and then to
  cancelled, from which no command leads back.
* One dispatch item whose prepare is refused ends a whole launcher batch
  (`launcher.py:63`), and a schedule whose stored template no longer validates ends the
  tick of every later one (`maintenance.py:86`); neither is modelled.

Erasure.
* Objects without a capture survive an erasure until their purge; the PREPARED manifest
  of a cancelled request is resumed by another one; a crash in `store_observation` may
  leave a partial file (not modelled).

## 8 Not modelled

Cryptography, encodings and hashes are taken as given; so are row-level security and
authentication. Parsing of foreign formats, network adapters, the web application,
command-line clients and the infrastructure have no state whose interleaving matters.
`core/statistics.py` and the synthetic systems are arithmetic over one run;
`core/qualification.py` is not called by the service. Suites, packs, measurement and
memory export store and add up records in one transaction each. Passports are signed
documents whose status reads records that `ChangeAssurance` has. Automatic re-proof
calls `create_run` for what a projection misses. `execute_plan` creates the runs of a
plan one by one and relies on repeated idempotency keys. `RunExecution` has no table of
used nonces and one organization. `PROJECT.json` gives the reason for each component
with the status `not_modelled`, and what is missing from those that are partly modelled.

## 9 Plan

Done: all modules of section 2, each property with a mutant of the code that breaks it;
every invariant and action property of a passing run is proved.

What would add most next: a dispatch batch over several organizations; automatic re-proof
with its budget; passports over the clearances of `ChangeAssurance`; and the audits of
`Assurance` over the verdicts of `Evaluation`, composed as `ReleaseReuse` composes the
ledger with `Validity`. Further theorems go into the proof module of their subject.
