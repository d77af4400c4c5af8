# The trading lifecycle of ai-trader-backend in TLA+

`ai-trader-backend` turns signals into broker orders.  Its promises are about
what happens when a process dies, a request times out or two workflows look at
the same rows.  This project models five parts of it, statement by statement,
checks them with TLC and proves their safety properties with TLAPS:

* **entries** (`EntryExposure`): for one account and one Security at most one
  BUY or position at a time, kept by the *entry-exposure claim* and by an
  append-only log of *delivery evidence* about the POST to the broker;
* **exits** (`ExitLifecycle`): every sell of a position goes through one verified
  submission, and nothing but a request the broker carries out late sells more
  than is held;
* **LIVE authority** (`LiveEntry`): one arming, one approval revision and one
  acceptance run each pay for one entry POST;
* **scheduling** (`WorkerScheduling`): several processes share an account through
  a session lock, a health row with backoff, and adaptive polling;
* **the momentum pipeline** (`MomentumPipeline`): news cursor, candidates and
  review handoffs under overlapping runs.

Paths below are relative to the repository (`src/` is its source directory).

## 1. Inventory

### Components and the state they keep

| component | code | state | operations |
|---|---|---|---|
| Entry-exposure claims | `services/entry-exposure-claim` | `EntryExposureClaim` rows: status, `releasedAt`, attached position; events | acquire, transition, attach/adopt, four kinds of release |
| Delivery evidence | `services/entry-delivery-evidence` | claim events: worker claimed, adapter marker, not-sent record, outcome | summarise, decide a never-submitted release, record |
| Admission | `services/place-order` | `OrderIntent.status`, `blockReason` | create intent and claim, risk check, received → pending, catch block |
| Order worker | `workers/order.worker` | none of its own; in-memory phase of an attempt | claim an intent, risk recheck, broker boundary, persist, classify failures |
| Broker-time authorization | `services/market-policy-broker-dispatch` | dispatch records (PAPER) | authorize, refuse, detect a lost acknowledgement |
| Dispatch recovery | `services/entry-dispatch-recovery` | recovery lease | stale submissions (worker), terminal-claim sweep, stale admissions, verified release |
| Remediation | `services/entry-exposure-remediation` | none | the operator's three dispositions |
| Order sync | `workers/order.worker`, `services/submitted-order-sync-selection` | `BrokerOrder` rows | follow the broker's order status |
| Activity import | `services/broker-activity` | fills | attribute BUY fills, terminalize a full fill |
| Position tracking | `services/position-tracking` | `TrackedPosition` rows | snapshot, create, attach, adopt, close |
| Reconciliation | `services/reconciliation` | runs and findings | retry the release of closed positions |
| Exits | `services/verified-exit-submission`, `close-position`, `remaining-exposure-close`, `trailing-stop-exit`, `exit-evaluator`, `position-exit-state`, `protective-order-sync`, `stale-close-intent-recovery` | sell intents, `PositionExitState`, `EXIT_VERIFICATION` attention | evaluate, claim a close, verify and submit, corrective close, recover |
| LIVE arming, approval, acceptance | `services/live-entry-arming`, `live-write-approval`, `live-entry-acceptance`, `trading-account`, `trading-account-credential*` | approvals, armings, acceptance runs, account latches, credential | grant, revoke, stage, arm, disarm and drain, consume, monitor, execute, verify, abort, activate, deactivate |
| Workflow lock, runner, health | `services/trading-account-workflow-lock`, `-workflow-runner`, `-worker-health` | session advisory locks, `TradingAccountWorkerHealthState` | lock, read backoff, start, execute, record, unlock |
| Adaptive polling, API usage | `services/adaptive-polling`, `alpaca-api-usage` | in-memory schedule, caches, rate-limit window | decide, force, record, defer |
| Momentum pipeline | `services/momentum-*`, `news-pull-cursor`, `workers/massive-news.worker` | cursor, impacts, candidates, handoffs | pull, expire, generate, confirm, prepare, deliver, reconcile |
| Market policy, risk gate, signals, trade cycles, market data, users, HTTP, web | see `PROJECT.json` | – | not modelled |

### How they interact

All durable state is in PostgreSQL; the broker (Alpaca) is external.  Worker,
recovery, order sync, activity import, position sync and reconciliation take a
**session advisory lock per account** (a try-lock, retried on the next tick) and
process items one by one.  Admission requests, disarm/deactivation and the
operator do *not* take it (an exit takes an `EXIT_SUBMISSION` lock of its own); they are serialized with the others only by
transactions, compare-and-set updates and a second advisory lock per
account/Security inside some transactions.  Broker calls happen between
statements, under no transaction.

### What is hard

* a POST whose answer is lost may still become an order minutes later;
* a process may die between any two statements; a statement may commit and its
  acknowledgement be lost, so that a catch block runs over committed work;
* checks and their use are separate steps, and the operator or an admission
  runs in between;
* the same order is observed by order sync, fill import and position sync in any
  order, from snapshots that are stale when applied;
* a lock session can be lost while its worker goes on;
* authority (approval, arming, policy, credential) can be withdrawn between the
  check and the POST it authorizes;
* an entry may be left over by a release that did not write markers yet.

`PROJECT.json` lists these as hazards with their lines and the properties that
would catch them.

### What makes the parts correct

| component | correctness property |
|---|---|
| claims | one unreleased claim per pair (`ExclusiveOwner`); a released one never returns, one under review stays under review (`ReviewedOwnership`); no exposure without its claim (`ExposureCovered`, `PositionCovered`, `ImplementsOwnership`) |
| evidence | the pairing of markers and records is right (`PairingAgrees`); "not sent" is only recorded when nothing was sent (`NotSentIsTrue`); uncertainty is permanent (`AmbiguityPersists`) |
| worker | a POST leaves once, for a claim still held for it, behind a durable marker (`PostAuthorized`) |
| recovery | never releases on absence alone (`NoReleaseOnAbsence`); gets further on every tick (`SweepMakesProgress`); eventually resolves what never left (`NeverSentResolved`) |
| sync | invents no local order (`LocalOrderBacked`); an active position keeps its claim (`PositionOwned`); closed positions give the pair back (`ClosedPositionReleased`) |
| exits | short by no more than late orders sold (`ShortOnlyByLateOrders`); each order accepted in time is for all that is held and alone, late orders apart (`SellsWholePosition`); a working or travelling close blocks another unless it was given up (`CloseKnownOrGivenUp`); dead protection and open attention are not lost (`DeadProtectionNoticed`, `AttentionResolved`) |
| LIVE authority | one POST per arming, revision and run (`OneShot`); an outcome is true of the broker unless it rests on an ambiguous 4xx (`OutcomeIsTrue`); drained means quiet (`DrainedMeansQuiet`); invalid armings end (`StaleArmingCleared`) |
| scheduling | live runs are not declared dead (`InterruptedRunIsOver`); backoff binds (`BackoffHonoured`); no lock-out (`AccountServed`); every write is polled (`WriteEventuallyPolled`) |
| momentum | no usable article lost but ties and those too old for the first pull (`OnlyTiesOrOldAreSkipped`); no second review (`DeliveredStaysOut`) |

## 2. Modules

```
DeliveryEvidence            pure decisions over a log of evidence events
  ├─ DeliveryLog            one log, growing in any way, beside a reference reading
  │    └─ DeliveryLogProofs
  └─ EntryClaim             variables, statuses, claim operations, release records
       ├─ EntryAdmission    submitOrder, disarm, deactivation
       └─ EntryWorker       order worker, broker boundary, catch block, confirmation
            ├─ EntryRecovery   stale submissions, sweep, stale admissions, operator
            └─ EntrySync       order sync, fills, positions, reconciliation, broker
EntryExposure               composes all of them; Init, Next, properties, refinement
  ├─ MCEntryExposure        instances for TLC
  └─ EntryExposureProofs    types, local orders, single ownership
       └─ EntryCoverageProofs   evidence, coverage, POSTs, releases, refinement
ExposureOwnership           the abstract specification

ExitOrders                  state of one position's exits, and the broker
  └─ ExitVerification       verifiedExitSubmission: find, verify, POST, attention
       └─ ExitClose         closePosition, its recovery, stale close intents
            └─ ExitTrailing evaluator, trailing stop, protective status
                 └─ ExitCorrective   remaining-exposure close
                      └─ ExitSync    order sync, fills, positions
                           └─ ExitLifecycle ─ MCExitLifecycle, ExitLifecycleProofs

LiveAuthority               rows and pure rules: approvals, armings, validity
  └─ LiveAccount            activation, credentials, grants, revocations, readiness
       └─ LiveArming        stage, arm, disarm and drain, monitor
            └─ LiveEntryWorker   admission, authorization, consumption, POST, recovery
                 └─ LiveAcceptance   preview, execute, verify, abort
                      └─ LiveEntry ─ MCLiveEntry, LiveEntryProofs

AccountWorkflow             lock sessions, runner, health row
AdaptivePolling             the executor's polling schedule and rate limit
  └─ WorkerScheduling       composes both ─ MCWorkerScheduling, WorkerSchedulingProofs

MomentumNews                paged pull and cursor of one symbol
  └─ MomentumCandidates     expiration, generation, confirmation
       └─ MomentumHandoffs  stale cancellation, preparation, delivery
            └─ MomentumPipeline ─ MCMomentumPipeline, MomentumPipelineProofs

NatSets                     a lemma on bounded sets of naturals, shared by the proofs
```

The five models do not share variables.  Where they meet, each sees the other as
its environment: exits are `BrokerExit` in `EntrySync`; the claim protocol is the
flag `held` in `LiveEntry`; the arming check is a choice in `EntryWorker`; what a
lock protects is one holder in `EntryExposure` and `ExitLifecycle`, and the lock
itself, lost sessions included, is `AccountWorkflow`.

### Entries

The model is of **one account/Security pair**: claims of different pairs share
nothing but the workflow lock.  `Intents` are the entries that may be admitted
for it, `Adoptions` the claims position tracking creates for positions nobody
here ordered.

#### State

| variable | code |
|---|---|
| `intent`, `reason` | `OrderIntent.status`, and the class its `blockReason` text has for the code's regular expressions |
| `claim` | `EntryExposureClaim.status`; `none` is no row, `RELEASED` a row with `releasedAt` |
| `ev` | the claim's delivery-evidence events, each reduced to its kind and classification |
| `rec` | dispatch record: `durable` (consumption or unenforced dispatch), `weak` (telemetry or consumed LIVE arming) |
| `row`, `fills` | local `BrokerOrder.status`, imported fill quantity |
| `pos`, `loose` | the position attached to the claim; an active position attached to none |
| `api` | where the admission request of the intent is |
| `pc`, `cur`, `phase`, `err`, `seen` | the lock holder: its next statement, its item, the broker-boundary phase, the thrown error's class, what an earlier statement read |
| `rel` | an evidence-based release between assessment and commit, one for the lock holder, one for the operator |
| `bk`, `bfill`, `bpos` | the broker: the request or order, filled quantity, whose BUYs make up the position |
| `faults`, `exts` | bounded environment events |

#### Actions

One action is one database statement, one transaction, or one broker call.  The
lock holder's actions carry the names of the functions they stand for
(`requireExecutableEntryExposureClaim`, `recordAdapterInvocationStarted`,
`submitAlpacaEntryOrder`, `PersistFailure`, …) and run in the order of the code;
admission, administration, operator and broker interleave with every one of
them.  `transitionEntryExposureClaim` is split into read, compare-and-set and
event where the worker calls it outside a transaction and is one step inside
one.  A call whose errors the code swallows is `TransitionIgnoringErrors`.  An
evidence-based release is an assessment followed, after anything else may have
happened, by the locked revalidation (`CommitRelease`).

Faults: `Crash` ends the lock holder anywhere; `TryFails` makes a statement of
the worker's try block fail; `Acknowledged` commits a statement and loses its
answer; `AwaitResponse` loses the answer of a POST that may still be accepted;
`AdmitDies`, `AdmitFails` and `AdmitPendingAckLost` do the same to a request.

`Init` has nothing admitted, or one **legacy** entry: claimed before the marker
protocol existed, already terminal with a block reason that says what was known
then, or still submitting.

#### Data abstraction

* Broker statuses that the code treats alike are one: `open` for every working
  status, `canceled` for canceled, expired and rejected, `doneForDay` for the
  terminal-but-not-conclusive ones.
* `BROKER_REJECTED` is split by whether its status code is one the code calls
  definitive.  A definitively rejected request never becomes an order: that is
  the code's own assumption about Alpaca, and it is an assumption here.
* Time is nondeterminism: an item that is old enough may be taken at any moment,
  and a rejection's settle window is a Boolean at each assessment.
* The broker reads of one assessment are one step.  The code makes several
  calls; what it concludes from them (a conclusively terminal order, complete
  fills, no position) is stable at the broker except for a new external BUY,
  which the revalidation cannot see either way.
* Quantities are `OrderQty` units filled one by one.

### Exits

State: the tracked position (`pos`), its exit state (`xs`), sell intents
(`intent`), local orders (`row`) and imported fills by client order id, the
attention episode (`attn`, with its revision), the `EXIT_SUBMISSION` lock, four
processes (`w`: evaluator, owner, corrective close, and whoever holds
`LIFECYCLE_MUTATION`), and the broker (`ord`, `held`).  A submitter takes the lock,
looks for an order with its deterministic client id, reads the position, reads
the open orders, and posts: five steps between which everybody else and the
broker move.  The broker is as permissive as possible: it refuses only a
duplicate client order id, so that what keeps sells within the shares held is the
code alone.

A POST whose answer is lost (`xPost`), and one answered 408 or 409, leaves three
possibilities open, as in the entry model: the order was accepted, the request is
lost, or it is still on its way.  Requests on their way are `ord[c].wire`; the
broker may take one up at any later moment (`LateAccept`), which marks the order
`late`.  The submitter has given its lock up by then, so another sell may have been
verified, and one lookup may have found the client id absent.  The properties say
what is still guaranteed then; finding 3 below says what is not.

Abstractions: `canceled` is every terminal status but filled; one attention
episode; an intent is stale when it has no live submitter (the five-minute
thresholds exceed an attempt); nobody sells from the broker's console; whether
exits are enabled, owned externally, signalled or authorised is a choice of
`EvaluatorDecide`; prices and thresholds are left out.

### LIVE authority

State: account status and latches (`acct`, `entries`), `cred`, `policy`
(`ALLOW_LIVE_TRADING`), the approvals `appr`, the arming rows, intents, the
acceptance `runs`, the order worker `wk`, the latest disarm's `drain`, the monitor
`mon`, operator requests between their transactions (`ops`), the broker, and a
history of `posts`.  One action is one transaction or one broker call; operators,
worker and monitor interleave.

Abstractions: a hash of configuration or credential is `fresh` while the hashed
rows (which carry `updatedAt`) are unchanged; a readiness assessment is made just
before its use, because the code honours it only while fingerprints and
revisions are unchanged; one assignment; `stopped` is blocked or failed;
re-granting an effective approval is left out; the monitor's run at start-up is one
of its periodic runs.

The client calls every answer below 500 that is no success `BROKER_REJECTED`.  The
model keeps the two kinds apart that `entry-dispatch-recovery` tells apart:
`rejected` is a definitive status, and, as in the entry model, such a request
never becomes an order; `conflict` is any other (408, 409), after which, as after a
lost answer, the order may exist, may appear later (`sent`) or may never exist.
The acceptance run is told the same of both, a safe failure.  Neither releases the
claim by itself: the recovery sweep releases it after a definitive rejection only
(`recoverTerminalEntryClaimsForAccount`).

### Scheduling

`AccountWorkflow` has, per process, its hold on the advisory lock by session
(held, leaked by a failed unlock, orphaned by a crash, or both), its place in the
tick, and the one health row.  `AdaptivePolling` has the coordinator memory of the
process whose polling is followed, the executor: due, force, cached activity,
rate-limit window; `unseen` is a broker write no later poll has covered.

Abstractions: one account and one worker key; time is nondeterminism with the
elapse actions fair; the read and upsert of one health attempt are one step; what
the other processes' coordinators decide is any outcome; statuses that depend on
age (DELAYED, STALE, DEGRADED) are left out, no recorded attempt has one.

### Momentum pipeline

State: publication times, feed, cursor, the articles ingestion has dealt with
(`seen`), those with an impact stored (`impacts`), the start of the lookback window
(`window`, and `floor`, the one the last pull without a cursor used), universe
membership, the worker tick in progress; candidates with expiry; handoffs; the runs in
flight.  Slot 1 is the full run, which reads the clock once; the other slots are
stage endpoints, which read it as they go.

`Usable` are the articles that leave an impact for the symbol: an article without
id or title is skipped, and one whose insights name only other tickers leaves none,
but the cursor counts both.  A pull without a cursor asks for the lookback window as
it is then; the window moves on with time (`MoveWindow`), so failed first pulls
leave older articles behind.

Abstractions: one symbol and one Security; the news timer (disabled by default)
is the run's own call; the provider shows articles in publication order, an
assumption about it that the code makes too; an event and its impact are one
write; `watching` is every active state a handoff refuses, `sent` is SENT or
ACKNOWLEDGED, `closed` is FAILED or CANCELLED; scores are the decisions they
lead to; reconciliation and the delivery workflow's queue read are one step each.

## 3. Runs

| run | instance | checks |
|---|---|---|
| `paper_one` | one PAPER entry, two adoptions, 2 units, 3 faults, 1 external BUY | `TypeOK`, `ControlOK`, `LocalOrderBacked`, `ExposureCovered`, `PositionCovered`, `NotSentIsTrue`, `SweepMakesProgress`, `PostAuthorized`, `NoReleaseOnAbsence` |
| `live_two` | two LIVE entries, two adoptions, 1 unit, 2 faults | `ExclusiveOwner`, `PositionOwned`, `ExposureCovered`, `NotSentIsTrue`, `ReviewedOwnership`, `ImplementsOwnership` |
| `liveness` | one PAPER entry, two adoptions, 1 unit, 2 faults, fairness | `NeverSentResolved`, `ClosedPositionReleased` |
| `delivery_log` | every log of up to five events | `PairingAgrees`, `NeverSubmittedProven`, `AmbiguityPersists` |
| `failed_order_sync` | one PAPER entry, 1 unit, 1 fault | see *Findings* |
| `exits` | two shares, both exit profiles, one close identity, 2 attention revisions, 1 fault, 1 unfilled end of an order | `TypeOK`, `ShortOnlyByLateOrders`, `SellsWholePosition`, `CloseKnownOrGivenUp`, `DeadProtectionNoticed`, `AttentionResolved` |
| `exit_uncertain`, `late_close` | the same position, one or two close identities, 1 fault | see *Findings* |
| `live_entry` | two intents, 2 armings, 1 acceptance run, 3 approval revisions, 1 disturbance | `TypeOK`, `OneShot`, `OutcomeIsTrue`, `DrainedMeansQuiet` |
| `live_monitor` | the same with one intent, fairness of the monitor | `StaleArmingCleared` |
| `scheduling` | two processes, 1 fault, 1 broker write, 1 change of eligibility | `TypeOK`, `InterruptedRunIsOver`, `BackoffHonoured`, `AccountServed`, `WriteEventuallyPolled` |
| `momentum` | two articles (one usable and positive), page size 1, two publication times, two runs, 1 tick of the clock, 1 disturbance | `TypeOK`, `OnlyTiesOrOldAreSkipped`, `DeliveredStaysOut` |

*What they show.*  With one entry and three faults every pair of failures can
meet a third (a lost acknowledgement, then a crash of the catch block, then a
crash of the recovery): still, a BUY that may execute is covered by its claim, a
record that says "not sent" is true, and no claim is released because an order
could not be found.  Two entries are needed for anything about competition: a
second admission while the first is being released, positions attached to the
wrong claim.  `live_two` makes them LIVE, which adds the races with disarming and
takes the dispatch record before the POST away.

In `exits`, three submitters, recovery and the sync of one position meet a lost
answer or a dead process and a partial fill, and the request whose answer was lost
may be carried out at any later moment: the re-check of the position under the
submission lock and the deterministic client ids keep every other sell within the
shares held.  In `live_entry` an arming is used, lost, withdrawn and
renewed around a worker that may be between its authorization and its POST, and an
outcome is recorded after a definitive or an ambiguous answer.  In `scheduling` the
two lock-dependent properties hold except after a session was lost under a
running workflow, and their statements say so: that is what the code relies on.
In `momentum` pages that end in a tie or not, an article without an impact, failed
pulls and a sliding window meet overlapping runs, and the one-row-per-candidate key
is shown to keep a delivered handoff out of the queue although slow runs write by
id.

*Why the bounds are enough.*  Two units give partial fills, one is enough where
no property speaks of them.  Two adoptions are needed because a stale position
snapshot can adopt a position that is already gone, and a later external BUY
needs a claim of its own.  Three entries would add only a third competitor for a
claim that two already compete for, and the safety of the entry model is proved
for any number.
Five events hold two attempts with their markers, records and a late writer; the
theorems of `DeliveryLogProofs` remove that bound.  The proofs of section 4
remove every bound of the safety properties; what the bounds limit is liveness and
the search for counterexamples.  Two shares give a partial fill before a close; two revisions give one corrective
attempt and the revision that outdates it; a second close identity is left to the theorem
`CloseIsKnown`, which holds for any number of them.
Two armings and two intents are a spent authority and its renewal.  A third
process adds only another competitor for the lock two already compete for.  Page
size 1 with two articles has full pages that end in a tie and ones that do not, and
a page that holds only an article without an impact; longer pages are left to the
theorem `CursorSkipsOnlyTiesOrOld`.
Symmetry (of intents and of
adoptions) is used in safety runs only.

*Deadlock* is checked.  With the lock free the system may rest (`Rest`); a lock
holder that has no next step is reported.  In the runs of `LiveEntry` it is not checked:
every continuation is an operator's choice, and the account may stay as it is.

### Fairness

Entries (`FairSpec`):

* weak fairness of the lock holder: a process that did not crash executes its
  next statement;
* strong fairness of each scheduled workflow's first step: every tick of the
  worker tries every account, and a try-lock that was lost is tried again on the
  next tick, so a workflow that is due again and again gets the lock;
* strong fairness of `AssessVerified(TRUE)`: the sweep repeats, and time passes,
  so some assessment comes after the settle window;
* weak fairness of the broker's decision on a request it received.

LIVE authority: weak fairness of the validity monitor (a 15-second interval of
`server.ts`).  Nothing else.

Scheduling: weak fairness of each process's runner and lock steps, of the work,
of the end of a session nobody uses and of the elapse of backoff and rate limit;
strong fairness of reaching the due time and of cache expiry, which a new force or
lookup can postpone.  `WriteEventuallyPolled` assumes in its statement that the
account is eligible from some time on (`Settled`) and that the executor sometimes
finds the lock free (`NotStarved`): `pg_try_advisory_lock` keeps no queue.

Momentum: none, and no liveness property.  `server.ts` has no timer for the pipeline
or for the expiration, only HTTP routes start them, and the cron of
`docs/integrations/n8n/momentum-scanner-review.md` is a recommendation outside the
program: that a lapsed candidate is ever expired is not the program's own promise.

Neither the operator, admissions, fills nor sales are fair: nothing makes them
happen.

### Refinement

`ExposureOwnership` says in five actions what a claim is for: one owner, who
alone may create exposure, and who gives the pair back only when none is left.
`ImplementsOwnership` maps the owner to the holder of the unreleased claim and
the exposed set to the entries whose request is on its way, may still execute,
or whose shares are held.  Shares bought by somebody else are not this system's
exposure.

## 4. Proofs

`EntryExposureProofs` proves, for every `Intents`, `Adoptions`, PAPER or LIVE,
and every bound (from `ConstantsAssumption` only):

* `TypeCorrect`: `Spec => []TypeOK`
* `LocalOrdersBacked`: `Spec => []LocalOrderBacked`
* `SingleOwner`: `Spec => []ExclusiveOwner`
* `ReviewRespected`: `Spec => ReviewedOwnership`

The inductive invariant is `IInv == TypeOK /\ ControlOK /\ LocalOrderBacked`.
Neither typing nor `LocalOrderBacked` is inductive alone: a step writes the
status an earlier step read, and `ControlOK` says, per step, what the earlier
ones established (the lookup found the order; no local row exists before a POST;
a release record names a claim that exists).  It also says that a claim belongs
to an admitted intent, which is why an admission cannot overwrite one.

For the claims, every step but two satisfies `Advance` (no claim appears, none
leaves `RELEASED`, `UNRESOLVED` is left only for `RELEASED`).  Lemmas prove it
once per claim operation: for a transition it is the shape of the table, for a
committed release the revalidation.  The two exceptions, an admission and the
tracking of a position, act when no claim is held, or on the only held one.
There is one lemma per module, one step per action.

`DeliveryLogProofs` proves `PairingCorrect`, `NeverSubmittedSound` and
`AmbiguityPermanent` for logs of every length (`MaxEvents` is arbitrary).  The
invariant there gives the two flags of the reference reading their meaning in
terms of positions: the open invocation is one that every record precedes, a
lost one is unclosed although another follows.

### Coverage and the refinement

`EntryCoverageProofs` proves, from the same assumption and on top of `IInv`,
every other safety property of the entry model:

* `ExposureIsCovered`, `PositionIsCovered`, `PositionIsOwned`,
  `NotSentRecordsAreTrue`, `SweepProgresses`, `ControlCorrect` (invariants);
* `PostsAreAuthorized`, `AbsenceIsNotEvidence` (action properties);
* `OwnershipImplemented`: `Spec => ImplementsOwnership`.

That a release finds no exposure is not inductive: a release looks at the log, the
block reason and the claim, never at the broker's own state, and may have been
assessed long before it commits.  `Evidence` ties what was written to the broker:

* per entry (`IntentOK`): nothing is recorded of an intent still in its admission
  or its one attempt (`EarlyOK`); a status before dispatch, a worker claim without
  a marker, a not-sent record or a refusal as block reason mean that the broker
  never got a request (`UnsentOK`); a recorded rejection is the broker's
  (`RefusedOK`);
* for the lock holder (`ItemOK`): the attempt owns its intent and, after its check,
  its claim; the phase of the submission boundary at each step; nothing was sent
  before the POST;
* for a release in progress (`ReleaseOK`): the intent was over when it was
  assessed, and if the log did not grow since, its outcome did not change.

An intent leaves `submitting` once and is never submitted again; that is why what
was true when it was recorded stays true.  `NextCovers` shows that every step is of
one of two kinds: it moves claims, leaves the broker alone and releases only what is
`Clear`; or it moves orders and shares and leaves claims alone.  Coverage, both
action properties and the refinement follow from that, the first kind being
`Acquire` and `Release`, the second `Expose` and `Settle`.

### The other models

* `ExitLifecycleProofs`: `TypeCorrect`, `SellsWithinHoldings`, `CloseIsKnown`,
  `DeadProtectionIsNoticed`, `SellsExactlyWhatIsHeld`,
  `AttentionResolvedOnEvidence`, for every quantity, set of close intents and bound
  (from `ExitAssumption` and `IdentityAssumption`).  `ShortOnlyByLateOrders` needs
  that the EXIT_SUBMISSION lock excludes (`LockOK`), that what its holder read can
  be changed before its POST by late orders only (`VerifyOK`), and that one order
  accepted in time works at a time, for no more than is held but for late fills
  (`OrdersOK`, `Budget`).
  `CloseKnownOrGivenUp` needs, on top, one writer per close intent (`CloseOK`), that
  copied terminal statuses are true (`EvidenceOK`), which row or intent accounts for
  the order at each half-finished step (`KnownOK`), and a second invariant over the
  requests: what an intent's reason says of its end (`WhyOK`), and that an intent
  carries every request that may still arrive until its order is recorded or it is
  given up (`CarriedOK`).
* `LiveEntryProofs`: `TypeCorrect`, `EntryIsOneShot`, `OutcomesAreTrue`,
  `DrainIsQuiet`, for every set of intents and every bound.  A POST has spent its
  arming and its approval revision (`PostsOK`, `SpentRev`): the revision is past, or
  no longer fresh, and only a new one can be.  `WorkerOK` says what an authorized
  worker carries to its POST; `RunsOK` and `OpsOK` what an abort or a verification
  read before it writes, with an answer that may still become an order told apart
  from a definitive one.
* `WorkerSchedulingProofs`: `TypeCorrect`, `LockExcludes`,
  `InterruptedOnlyWhenOver`, `BackoffIsHonoured`, for every set of processes
  (from `None \notin Procs`, `Executor \in Procs` and natural bounds).  The health
  row is read, marked and written in separate statements; the lock holds them
  together (`LockOK`), and only until a session is lost under a run.
* `MomentumPipelineProofs`: `TypeCorrect`, `CursorSkipsOnlyTiesOrOld`, `DeliveredOnce`,
  for every finite set of articles and every page size.  `PageOK` says what a page
  in hand says of the feed until the cursor is written, `RunOK` what a run knew of
  the rows it writes later.

### Only model-checked

* the liveness properties `NeverSentResolved`, `ClosedPositionReleased`,
  `StaleArmingCleared`, `AccountServed` and
  `WriteEventuallyPolled`: fairness and `ENABLED` are out of the prover's reach;
* the three statements that are expected to be violated (section 5): a
  counterexample is all they need.

Every invariant and every action property of a passing run is also a theorem.

## 5. Findings

Shown by a run:

1. **`failed_order_sync`** – `entry-dispatch-recovery.service.ts:749` leaves a
   terminal intent with a local broker order to order sync.  An error after the
   order was persisted makes the intent `failed`, and
   `SUBMITTED_ORDER_SYNC_INTENT_STATUSES` does not contain `failed`: the local
   order never follows the broker again, and only an operator can release the
   claim.  Safety is not affected (the claim stays held).
2. **`exit_uncertain`** – `docs/architecture/trading-lifecycle.md:105` gives
   failures before `fetch` the class `NOT_SENT_BLOCKED`, and :124 retries only
   those.  A refused LIVE policy, a busy submission lock and a refused
   verification are recorded as `DELIVERY_UNCERTAIN`
   (`trailing-stop-exit.service.ts:502`), and the trailing stop is never retried.
3. **`late_close`** – `docs/architecture/trading-lifecycle.md:114` says
   "Uncertain delivery retains `closing`/`submitting` state so recovery can
   materialize an accepted broker order without issuing a second close", and :50
   that delivery-uncertain submissions remain `submitting`.
   `stale-close-intent-recovery.service.ts:38` fails a stale close after one lookup
   miss, whatever its delivery class, and opens the position again.  The request may
   be accepted after that: a close works that nothing local accounts for.
   `CloseKnownOrGivenUp` says that this, and a refusal followed by a lookup miss,
   are the only ways.

Met while modelling, read from the code and not the subject of a run:

* *Entries.*  `docs/architecture/trading-lifecycle.md:47` says "an absent entry
  returns to `pending`"; the code fails it and never requeues
  (`order.worker.ts:434`).  The comment at `order.worker.ts:892` says a failure that
  could not be persisted is reviewed by stale recovery; if an operator releases the
  claim of the terminal broker order meanwhile, stale recovery's
  `requireEntryExposureClaim` (`order.worker.ts:208`) throws on every tick and the
  intent stays `submitting`.
* *Exits.*  A dead close order found by recovery leaves its row canceled and its
  intent `submitted` for ever (`order.worker.ts:1237`), and later closes are
  refused.  The deterministic close id makes a later close recover the dead order
  (`verified-exit-submission.service.ts:285`).  Position sync rewrites
  `TrackedPosition.qty`, which `remaining-broker-exposure-close.md:28` calls
  immutable.
* *LIVE authority.*  Every 4xx is `BROKER_REJECTED` (`integrations/alpaca/client.ts:225`)
  and every `BROKER_REJECTED` a safe failure of an acceptance run
  (`live-entry-acceptance.service.ts:499`), while `entry-dispatch-recovery.service.ts:73`
  calls 408 and 409 delivery-uncertain and `live-entry-acceptance.md:89` asks for an
  "Explicit broker rejection or provable pre-send failure".  So a run whose POST was
  answered 408 can end FAILED_SAFE, "Broker non-execution and fail-closed cleanup were
  verified" (:671), and its order fill afterwards: this is the exception in
  `OutcomeIsTrue` (`RunConflict`).  An acceptance intent blocked by a disarm or by the worker's
  risk recheck has no failure classification, and a verification made before the
  posture is safe overwrites a safe one; such a run is never FAILED_SAFE and
  blocks later ones (`live-entry-acceptance.service.ts:677`;
  `live-entry-acceptance.md:89`).  Revoking RISK_REDUCING reads the exposure
  before its transaction.  The monitor reads, then disarms, and may end a newer
  arming (which fails safe).  Deactivation and credential revocation leave the
  active arming to the monitor.
* *Scheduling.*  A recorded failure always carries a backoff in the future, so
  the status is BACKING_OFF and the FAILING attention of
  `operational-attention.md:144` is not raised by it.  `recordSuccess` clears a
  force that arrived during the poll (`workers.md:90`); only the interval brings
  the next read.  A usage flush that fails half-way restores every delta.  Flags
  set dirty during a flush are cleared by it.
* *Momentum.*  A confirmation writes its verdict by id and can bring a candidate that
  expired meanwhile back to ENTRY_READY (`momentum-price-confirmation.service.ts:621`);
  only the next call for a run expires it again.  `catalyst-news-foundation.md:455` promises one unexpired active
  candidate per Security; two overlapping runs can each create one
  (`momentum-candidates.service.ts:255`).  A candidate whose handoff was
  cancelled as stale and that is ready again is not queued again without force,
  though it is counted as prepared.  Writing to an expired candidate marks its
  Security active for the rest of the run and suppresses a replacement
  (`momentum-decision-engine.md:23`).  Articles that share a publication time are
  skipped at a page boundary, and what is older than the lookback window of the first
  successful pull is never asked for.

## 6. Not modelled

* *Whole components.*  Market-policy admission and the risk gate: their verdicts
  are choices wherever they are asked; their content is arithmetic over
  configuration that unit tests reach.  Entry decisions, signals and routing are
  upstream of admission.  Trade cycles, lifecycle repair, historical diagnostics
  and reports read or annotate history.  Market data and the assessments are
  numeric pipelines over vendor data.  Users, HTTP and the broker clients are
  input and output.  The web client (a quarter of the repository's lines) is
  presentation and keeps no state the backend reads.
* *Coverage.*  The map covers about a tenth of the implementation's lines.  What
  is left is mostly the above: controllers, schemas, projections, reports,
  diagnostics and React pages, which have no control state to check.
* *Entries.*  A sale is the environment's `BrokerExit`; the recovery lease, batch
  limits and thresholds are nondeterminism; the requeue of intents older than
  claims, replaced broker orders and the `UNATTRIBUTED_BUY_FILL` blocker of a
  release (leaving it out permits more releases than the code);
  `ADMISSION_BLOCKED` and `POSITION_CLOSING`, which no code path writes, stay in
  the status set and the transition table.
* *Exits.*  Attribution repair and several positions of one symbol.  The account can
  become short in the model (late orders); a position that was short from the start
  is not modelled.
* *LIVE authority.*  Account creation, provisioning of assignments, persistence
  and expiry of readiness assessments.
* *Scheduling.*  `WorkerHealthRegistry`, usage counters and their persistence, the
  snapshot and reconciliation schedulers.
* *Momentum.*  Run records (`momentum-pipeline-run`, which no stage reads back),
  research projections, charts, numeric scores.

## 7. Plan

1. **Market-policy admission**: the decision at admission and its consumption at
   broker time, composed with `EntryWorker`.
2. **Idempotency of signal ingestion**, upstream of admission.
