# Formal models of the DCIECMS service API

This directory models DCIECMS from the draft of a filing to the disposal of its
records, where concurrency decides whether the system is right: registry and case
opening, fees, payments with their external provider, refunds, hearings and
judgments, the case lifecycle with its records control, the scan pipeline for
documents, the durable event outbox, and the Payments page through which
officers reach the money. The models are written in TLA+, checked by TLC on
small instances and, where stated, proved by TLAPS for every instance.
`PROJECT.json` lists the runs, the mutants of the models that each property
must reject, the source lines each definition translates, the hazards and the
theorems.

    tlc -config MCOutbox.cfg MCOutbox          # model-check an instance
    tlapm OutboxProofs.tla                     # check a module's proofs

Paths below are relative to `src/services/api/src/` unless they start with
`src/`.

## The system

A Node.js API in front of PostgreSQL. Each domain operation is a service method
that runs inside one database transaction (`postgres-transaction-manager.js`,
a plain `BEGIN`, hence READ COMMITTED): it reads and checks without locks,
issues one SQL statement that checks again and changes rows, appends an audit
row, enqueues an event in the outbox and commits. If anything throws,
everything is rolled back. Workers (outbox dispatchers, document scanners) work
on leased rows outside of such transactions. Components share nothing but the
database.

| component | state it keeps | operations | what is hard | what makes it correct |
|---|---|---|---|---|
| Event outbox | `integration.outbox_events`: status, attempts, retry time, lease; each dispatcher's batch | `enqueue`, `claimBatch`, `markDelivered`, `markFailed`, `runOnce` | leases that expire under a live dispatcher, crashes, stolen batches, stale attempt counts, odd rejections | an event is owed once, attempts are exact, delivered only if handled, always settled |
| Refund governance | `finance.refund_requests`, `payments.refunded_amount_minor` and status | request, approve, reject, complete | unlocked reads, snapshots older than locks, provider reversals in between | never over-refunded, second person decides, total equals completed refunds |
| Case lifecycle and records | `cases.status`, `records.case_record_controls`, `records.disposal_requests` | dispose, close, reopen, retention, archive, hold, request/approve/reject disposal | the same, over three tables whose rows are partly locked and partly only joined | a review is decidable, an approval warranted, a decision final, a hold a veto |
| Transaction manager | the client bound to the asynchronous context | `withTransaction` | partial failure after a statement | all or nothing |
| Document scan pipeline | `documents` states, scan jobs with leases | upload, claim, scan, finalize, activate/reject, supersede, withdraw, retry | scan outlasting its lease, withdrawal during a scan, a scanner-killing object | never active without a clean scan; every job settled |
| Payment integration | provider sessions, webhook events, payment status | create session, ingest webhook, process event | duplicated and reordered events, event before binding | each outcome applied once; no confirmed outcome lost |
| Registry, core finance, case opening | filings, validation tasks, idempotency records, payments, receipts, reconciliations, number sequence, cases | submit, validate, return, reject, accept, pay, certify, open case | retried and racing submissions and openings, unlocked status reads | each submission and opening has its effects once, records rest on money |
| Fees | fee schedules, assessment, adjustments | create, activate, retire, assess, request/approve/reject adjustment | activations that cannot see each other, a schedule retired under an assessment, money that arrives during an adjustment | one schedule in force, a filing charged once, no adjustment after money |
| Judicial operations | assignment, hearings, adjournments, records, judgments | assign, schedule, adjourn, start, record, complete, draft, review, sign, issue | unlocked check of active hearings against insertion of hearings, reopened cases | no active hearing outlives a disposition, adjournments chain, judgments rest on hearings |
| Audit store | append-only rows | `append` | fails inside a transaction | rolls the operation back |
| Court Workspace UI | React state of a page: what was assessed, paid, queued, and the refund under review with its form | requests through `api/client.ts`, loading, clearing | lost replies, a late list, other officers | a decision is sent with the confirmation given for it, the page is never ahead of the service |
| Authentication and RBAC, HTTP wiring, read models, in-memory service | none that persists | checks, routing, queries | - | - |

`PROJECT.json` has the same list with the files and what is left out of each
component, and every hazard at its line.

## Modules

| module | role | composes |
|---|---|---|
| `DeliveryContract` | what the outbox promises a business transaction | |
| `Outbox` | the table, the store's statements and the dispatchers | implements `DeliveryContract` |
| `MCOutbox`, `OutboxProofs` | instances for TLC; theorems | extend `Outbox` |
| `FinanceRecords` | the rows `Refunds` and `PaymentsPage` have in common | |
| `RefundLedger` | what refunds promise of a payment, without actors or races | |
| `Refunds` | payments, refund requests and the transactions on them | implements `RefundLedger` |
| `MCRefunds`, `RefundsProofs` | instances for TLC; theorems | extend `Refunds`, the proofs also `PaymentsPage` |
| `CaseRecords` | case, record control, disposal requests and the transactions on them | |
| `MCCaseRecords`, `CaseRecordsProofs` | instances for TLC; theorems | extend `CaseRecords` |
| `DocumentRelease` | what the scan pipeline promises of a document | |
| `DocumentScan` | documents, scan jobs, the document service and the scan workers | implements `DocumentRelease` |
| `MCDocumentScan`, `DocumentScanProofs` | instances for TLC; theorems | extend `DocumentScan` |
| `PaymentLifecycle` | what the rest of the system relies on of a payment | |
| `PaymentEvents` | payments, provider sessions, the inbox of provider events and its processing | implements `PaymentLifecycle` |
| `MCPaymentEvents`, `PaymentEventsProofs` | instances for TLC; theorems | extend `PaymentEvents` |
| `Registry` | filings, tasks, idempotency, payments' records, case numbers | takes its payments from `PaymentLifecycle` |
| `MCRegistry`, `RegistryProofs` | instance for TLC; theorems | extend `Registry` |
| `Fees` | fee schedules, the assessment of a filing, adjustments | takes its payments from `PaymentLifecycle` |
| `MCFees`, `FeesProofs` | instance for TLC; theorems | extend `Fees` |
| `Judicial` | hearings, judgments and the disposition of their case | |
| `MCJudicial`, `JudicialProofs` | instance for TLC; theorems | extend `Judicial` |
| `PaymentsPage` | one officer's Payments page, its requests and the service it meets | its service is implemented by `Refunds` (shown in `RefundsProofs`) |
| `MCPaymentsPage` | instance for TLC | extends `PaymentsPage` |

`PaymentLifecycle` is the seam between the money modules: `PaymentEvents` implements
it under provider events, clerks and refunds, and `Registry` and `Fees` use nothing
else of a payment. What holds in them therefore holds whatever the
provider sends.

A definition called a "mutant" in its comment is not part of a model: it is the
broken form of the definition below it, and shows that the property named in
`PROJECT.json` can tell the two apart.

### Outbox

`status`, `attempts`, `lockedBy` are the columns of a row; `wait` and `lease`
are `next_attempt_at` and `locked_at + leaseTimeoutMs` as time that is left, cut
at 0, since a claim only asks whether they have passed. `pc`, `held`, `cur`,
`seen`, `outcome` are the locals of `runOnce()`: where it is, the rest of its
batch, its event, the attempt counts its claim returned, and how the handler
settled. Every store call is one statement outside a transaction, so it is one
step, and between two of them other dispatchers, enqueues and the clock may
act. `ClaimBatch`, `TakeNext`, `HandlerSettles`, `RecordDelivery` and
`RecordFailure` are the stretches of `runOnce()` between its awaits; an
acknowledgement by a dispatcher that has lost its lease matches no row, throws,
and abandons the rest of the batch. `Crash` also stands for a store call that
fails. Handlers may resolve, reject with an error, with an error of blank
message, or with a falsy value.

Assumed: dispatchers have distinct `workerId`s (nothing in the code enforces
it), handlers settle, database and application clocks agree. The order among
candidates of a claim is abstracted, so the properties hold for any order.

### Refunds

`payStatus` and `refunded` are the payment; `status`, `requestedBy` and
`decidedBy` the requests. A transaction (`pc`, `target`, `actor`) opens with the
service's unlocked checks (`BeginRequest`, `BeginDecision`, `BeginCompletion`)
and ends with a commit action that checks the locked rows again, or with
`Rollback` (no row matched, or audit or outbox failed). A request's statement
sums the requests that count against the ceiling in its snapshot: that is a step
of its own, `TakeSnapshot`, because the statement may then wait for the
payment's row lock. `ConfirmPayment`, `CancelPayment` and `ProviderReversal` are
what the payment integration does to a payment in the meantime.

Amounts belong to request ids (`PaymentOf`, `RefundAmount`): this only names the
requests that may come. The requester may also be the completer, as in the code.
A `PAYMENT_FAILED` event is left out: its statement cannot be executed by
PostgreSQL (see the hazard at `postgres-payment-integration-repository.js:233`).

### CaseRecords

One case, since cases do not interact: `caseStatus`; the control row
(`control`, `classed` for its retention class, `eligible` for its date, `hold`);
`docHold` for its documents, which this repository reads and never writes; the
disposal requests; and the transactions in a statement (`pc`, `target`,
`actor`, and `seen`, the open requests in their snapshot).

Under READ COMMITTED a row that a statement locks is checked in the snapshot
and again under the lock, while a row it only joins is checked in the snapshot.
Operations that check only rows they lock are one step: `AssignCase`,
`DisposeCase`, `CloseCase`, `SetHold`, `ReleaseHold`, `RequestDisposal`. The
others are two steps, service check and snapshot first, granted locks to commit
second: `BeginRetention`/`CommitRetention`, and likewise archive, reopening,
approval and rejection. Which condition stands in which half was read off the
SQL one by one: retention and archive check the case only in the snapshot, and
approval and rejection lock control and case in one CTE but compare their
columns in another that reads the snapshot.

`DisposeCase` leaves the hearings and judgments its service looks at to
`Judicial`: here their checks may pass at any time. Lifecycle evidence
rows are left out, nothing reads them back. Row locks are not a state: a waiting
statement is a transaction whose commit has not happened, a deadlock a `Rollback`.

### DocumentScan

`docStatus`, `verdict`, `prior` and `supersededBy` are columns of
`documents.documents`; `jobStatus`, `result`, `attempts` and `owner` those of its
scan job, of which a document has at most one. A claim only asks whether
`next_attempt_at` and `lease_expires_at` have passed, so each is a boolean,
`due` and `expired`, that `FallsDue` and `Expires` set. `pc`, `held`, `cur` and
`finding` are the locals of `runOnce()` and `_process()`.

`Initiate`, `Finalize`, `Supersede`, `Withdraw` and `RetryScan` are the service's
operations. Each decides on one row it changes, hence one step; the two that also
look at another document without locking it (`createReplacementDocument`,
`supersedeDocument`) are placed before a withdrawal or supersession that commits
around them, which reads nothing they write. A worker waits for storage and
scanner outside of any transaction: `TakeNext` reads the document, `ScanEnds` is
the answer (clean, infected, to be retried, permanent), and `RecordRetry`,
`RecordGone`, `RecordRejection` and `RecordVerdict` are the transactions that
record it. When one of them finds the lease lost or the document gone from
quarantine, it is rolled back and leaves `runOnce()`: `RecordConflict`. `Crash`
also stands for a database call that fails.

`Identity` gives each process its `workerId`. The instance gives all processes
the same, because `runtime-service.js:156` does so by default; the proofs hold
for any assignment. After a long scan a retry may be due at once
(`RecordRetry`), since its delay is counted from before the scan.

### PaymentEvents

`payStatus`, `reference` (the provider's, once bound), `manual` and
`refundedInFull` are columns of `finance.payments`; `announced` the payments with a
`payment.confirmed` event in the outbox; `content` and `evStatus` the inbox
`finance.payment_provider_events`. `asking` are open session transactions, `inHand`
and `seen` the transactions of `process()` and what they read of their payment.

`AskProvider` and `BindSession` are the two halves of `createPaymentSession()`
around its call to the provider. `Ingest` records an authenticated event; a
redelivery returns the recorded one and is a stutter, so that a repeated webhook
differs from a first one only by what the inbox holds. `LockEvent` takes the
event's row lock and reads the payment without one; `ApplyOutcome` and
`RejectEvent` are the rest of the transaction, with the condition of the UPDATE on
the locked payment. `StatementFails` is PostgreSQL's refusal of the statement for
`PAYMENT_FAILED`; it is the only place where the model rests on a fact about the
database that is not in the repository. `ConfirmByHand` is the officer's
`confirmPayment`, which the API offers unless integration is "enabled"
(`ManualConfirmation`); `CompleteLastRefund` is what `Refunds` does to a payment.

An event's payment, reference and amount are what the provider said: they may name
another payment, none, or the wrong amount (`amount` is compared, not computed).
Events that name a payment before it is bound are part of every instance.

### Registry

`status` is the filings', `openTask` and `doneTasks` their validation tasks,
`replies` the rows of `idempotency_records`, `submitEvents` and `caseEvents` the
rows of the outbox for them. `receipts`, `recon`, `caseNo`, `paidBy` and `lastValue` are
the finance and case tables; `created`, `standing` and `announced` the payments
as `PaymentLifecycle` sees them. A filing moves by single steps where the UPDATE
compares the status the service has read (`ValidateFiling`, `ReturnFiling`,
`RejectFiling`, `AcceptFiling`, `CertifyReconciliation`,
`RejectReconciliation`). Submission is two steps: its INSERT claims the key and
makes every other claim of it wait (`KeyFree`), the rest follows. Opening a case is
four: the service's unlocked reads (`BeginOpening`), the SELECT that
locks a case if there is one (`ReturnExisting`, `MissCase`), the upsert that holds
the row of the number sequence until the end (`TakeNumber`, `SequenceFree`), and
the INSERT. `Rollback` takes back the claimed key or the number.

`overtaken` is history: the sessions whose payment was given back after they read
it. It is what makes the window between read and insert sayable.

### Fees

`schedule` is `fee_schedules.status`. `Conflicting` holds the pairs of schedules
that the `NOT EXISTS` of the activation calls overlapping (same fee and case type,
courts and periods that meet), `Current` those a filing may be charged from today:
both are constants because neither dates nor codes of a schedule change. An
activation looks at its snapshot and locks its own draft (`BeginActivation`), then
updates it (`ActivateFeeSchedule`); an assessment reads the schedule
(`BeginAssessment`) and inserts later (`AssessFilingFee`). `raced` and `outrun` are
history: activations that overlapped in time, and sessions whose schedule
was retired under them. There is one filing: its assessment is `basis`. Amounts are left out,
since an approved adjustment is applied to nothing.

### Judicial

One case, as in `CaseRecords`. `hearing`, `started`, `adjourned` and `recorded` are
the hearings with their adjournments and records, `judgment`, `restsOn` and
`version` the judgments, `disposedOn` the judgment named by the last disposition.
Scheduling reads the case unlocked and inserts whatever has become of it
(`BeginScheduling`, `ScheduleHearing`), a record's INSERT selects from the hearing
unlocked (`BeginRecord`, `CommitRecord`), and a disposition reads the case, then its hearings and its judgment, and
then updates the case alone (`BeginDisposition`, `CheckDisposition`, `DisposeCase`).
Everything else decides on the row it updates. `met` and `contested` are history:
the schedulings that overlapped a disposition, and the hearings that come of them.
Retention, holds and disposal of the same case are in `CaseRecords`.

### PaymentsPage

The names are those of the component's state; `PageInit`, `PageNext` and `PageSpec` are
the specification, so that proofs can speak of the page and of `Refunds` at once. A text or a tick is modelled by the
refund that was under review when it was given: that is what a decision must not
mix up. `request` is the one of `run()`, which disables the controls while it is in
flight; `listing` is the queue loaded when the page appears, which answers when it
likes. `Serve` is the service's answer, `Receive...` the `setState` calls that
follow it, `RequestFails` every way a request fails, with the service having acted or not. A request that
acts after the page has given it up, and another officer, are one action,
`ActElsewhere`. What the service accepts of a refund is the order of its statuses;
`Refunds` and `Fees` say the rest.

## Runs

| run | question | states | bounds and why they are enough |
|---|---|---|---|
| `outbox` | Are backoffs current, is every event settled, is the contract implemented? | 321,310 | 2 dispatchers, 2 events (one without a handler), batches of 2, 3 attempts so that a first, a middle and a last failure differ, a delay that doubles once and is capped once, a lease of 2 ticks; at most 1 crash and 1 overrun: one of each already strands and steals a whole batch, and both can meet in one behaviour |
| `refunds` | Ledger, ceiling of completions, refinement | 107,620 | 1 payment of 3 with requests for 2, 2 and 1: a partial refund, a full one in two parts, two that exclude each other; 2 sessions, 2 users |
| `refund_ceiling` | Do reserved refunds respect the ceiling? (violated) | - | the same |
| `case_records` | Is a review decidable, an approval warranted, a decision final? | 209,266 | 2 requests (one left over, one new), 2 users, 2 interchangeable sessions; cases may be closed and reopened without limit |
| `legal_hold_veto` | Is a held record never approved for disposal? (violated) | - | 1 request |
| `document_scan` | Do document and job agree, are verdicts final, is only what is clean released, is every job settled? | 483,965 | 2 documents (each may replace the other), 2 workers, batches of 2, 2 attempts so that a first and a last failure differ; 1 crash and 1 overrun, which strand and steal a batch; withdrawals, retries and supersessions without limit |
| `payment_events` | Has every outcome one origin, does it belong to its payment, is an event settled once, the lifecycle implemented? | 1,469,154 | 2 payments, 2 references, 3 events, so that a success, the money back and a third event about the same payment meet, of 7 contents; 2 processors, 2 sessions; events, processors and sessions are interchangeable |
| `payment_settled` | Is every recorded event settled? | 11,741 | 1 payment, 2 events that may contradict each other, 2 processors, 1 failed transaction |
| `registry` | Do submissions and openings have their effects once, do records rest on money? | 218,622 | 2 filings with a payment each, so that two openings compete for the sequence; 2 keys, so that a retry with the same and one with another key differ; 2 sessions. Filings cannot be told apart by the code but stay distinct here, since their payments differ |
| `fees` | Is one schedule in force, is a filing charged once and on it, does no adjustment follow money? | 1,261,515 | 3 schedules: one of the court, one of every court that conflicts with it and with a third for next year; 2 sessions; 2 payments so that an adjustment may name one or the other, and 1 adjustment, since adjustments do not look at each other |
| `judicial` | Which hearings outlive a disposition, do adjournments chain, do judgments rest on hearings? | 761,212 | 3 hearings: one that is adjourned, its successor, and one scheduled besides; 1 judgment, since judgments do not look at each other, with 2 versions; 2 sessions, of which one may schedule while the other disposes; reopenings without limit |
| `payments_page` | Is the page never ahead of the service, is a decision sent with its own confirmation? | 1,072,098 | 2 of assessments, payments and refunds each: the one shown and another |

Deadlock is checked in every run but those of `PaymentEvents`, where nothing is left
once every event is settled and every payment returned, those of `Refunds`, where a refused request
on a refunded payment really has no further step, `document_scan`, where
nothing is left to do once every document is withdrawn or superseded and its job
is completed, and `fees`, where all schedules may be retired and all payments and
adjustments decided. The symmetries permute sessions, identifiers or processors, on which no
liveness property depends, and no pair that an instance distinguishes.

**Fairness.** Only the three `EventuallySettled` need any. In
`PaymentEvents` it is that every recorded event is handed to `process()` again and
again (`SF` of `LockEvent`, because other calls may hold the event whenever it is
free) and that a transaction in progress ends (`WF(Settle(k))`). Nothing in the
repository calls `process()` - the processor is built in `runtime-service.js:59` and
left to the deployment - so this is an assumption. In the other two it is that time passes
(`WF(Tick)` in `Outbox`, `WF(FallsDue(d))` and `WF(Expires(d))` in
`DocumentScan`), and `WF(RunOnce(w))` for each dispatcher or scan worker: it is
called again and again, and its calls to handlers, storage, scanner and database
settle. The repository has no scheduler for
`runOnce()`: the design of the outbox leaves the schedule to the deployment layer,
and that it calls `runOnce()` periodically is an assumption. Nothing is assumed of enqueues or crashes,
and no dispatcher or scan worker needs strong fairness: a claimable event or job stays claimable
until somebody claims it. Crashes, overruns and failed transactions are bounded, so liveness is claimed for
executions in which they stop.

### What the violated runs show

- **`refund_ceiling`** - two requests that meet at the lock of one payment both
  pass the ceiling. Completion re-reads the running total, so no money is lost
  (`NeverOverRefunded` holds in the same model).
- **`legal_hold_veto`** - a hold committed while an approval waits for the control
  row is not seen: the record is approved for disposal and held at once.

### Known deviations without a run

What the models show of the code besides, stated here so that no property is read
as excluding it:

- After a slow handler, `runOnce()` (`outbox-dispatcher.js:88`) goes on with its
  batch although its lease has expired, and invokes handlers of events that another
  dispatcher has delivered and acknowledged.
- A falsy rejection of a handler is taken for success, and a blank error message
  makes `markFailed()` throw before its statement, so the attempt is never counted
  (`outbox-dispatcher.js:102`). `Outbox` has both; the run's handlers reject with an error.
- A disposal request committed while a reopening waits for the case is not
  cancelled and blocks every later request on that record
  (`postgres-case-lifecycle-records-repository.js:187`). A reopening also keeps the
  retention class, so a record can be archived again without a date.
- A `PAYMENT_FAILED` event of a pending payment is refused by PostgreSQL, whose
  statement has a parameter it never uses (`postgres-payment-integration-repository.js:233`):
  the event stays `RECEIVED` and the payment `PENDING`, however often it is processed.
- Two schedules in conflict are in force together if their activations overlapped
  (`OneScheduleGoverns` says: only then). A disposed case has an active hearing if
  its scheduling overlapped the disposition (`OnlyContestedHearingsOutlive`).
- A payment whose reconciliation was rejected can never be reconciled:
  `reconciliations.payment_id` is unique.
- Nothing limits the payments of an assessment: an officer who tries again after a
  lost reply creates a second one.
- `reviewJudgment()` compares no version: the text that becomes final is the
  current one, which need not be the one its reviewer read.
- The Payments page never reads a payment again, so it never shows one as
  `CONFIRMED`, and its buttons for receipt, reconciliation and certification do not
  appear. The queue asked for when the page appears replaces whatever was added or
  removed before it answers.

## Proofs

The theorems hold for all values of the constants that satisfy the named ASSUMEs
of each module, thus for any number of dispatchers, sessions, events, requests and
users, and any bound on crashes and overruns.

- **Outbox.** The invariant joins the types with the shape of the loop (a
  dispatcher that handles or records has a current event which is no longer in
  its batch), the shape of a row (it is `PROCESSING` exactly if somebody holds
  it) and `AttemptsAccounted`. `BackoffIsCurrent` rests on
  a further invariant, `OwnerIsCurrent`: while a dispatcher owns the row of an
  event it has in hand, the attempt count it read at the claim is the row's. This
  is why a stale count never reaches the database: whoever changes it also takes the
  lease away. `DeliveredMeansHandled` and `OutboxImplementsContract` assume
  `RejectionsAreTruthy`, that no handler rejects with a falsy value; without it
  they are false.
- **Refunds.** `RefundsBounded` needs that a payment which was never confirmed
  has given nothing back (`NothingBackYet`), `SecondPersonDecides` the shape of open
  transactions. `RefundsImplementLedger` maps each commit to an action of
  `RefundLedger` and everything else to a stutter.
  `LedgerIsExact` is about sums, which the community modules define by a recursive
  function over sets. The library's induction rules take an operator, so
  `SubsetInduction` uses the well-foundedness of the strict subsets of a finite set
  instead: a minimal counterexample is absurd. From it come that a sum exists, is
  unique and does not depend on the order (`SumsExist`, `SumsAgree`,
  `TotalWithout`). The invariant adds `FewRows`: rows are inserted one at a time, so
  what is summed is finite even if the set of possible requests is not.
  `CeilingOfSerialRequests` delimits the finding on the ceiling: it is respected in
  every behaviour in which statements that request a refund of the same payment do
  not overlap (`OneRequestAtATime`), because then the sum a statement has read stays
  an upper bound (`SnapshotsBound`). Locking the payment in a statement before the
  one that sums would give just that. `RefundsKeepTheLifecycle` shows that refunds take a payment
  through `PaymentLifecycle` only, so `Registry` and `Fees`, which use nothing else of
  a payment, hold with refunds underneath as well.
- **PaymentsPage.** Its theorems are in `RefundsProofs`, which also puts the page over
  the refund transactions: `RefundsServeThePage` says that every change of a row
  in `Refunds` is one that the page's model allows its service. The invariant (`PageInv`) says of a
  request in flight that it is still about what is on the screen (`RequestShape`: the
  disabled controls), of an answer under way that it was true when it was given
  (`ReplyShape`), and of a text or a tick that it is for the refund under review
  (`FormShape`, from which `PageSendsWhatWasConfirmed` follows). What makes late
  answers harmless is `Forward`: the service may act at any time for anybody, but
  an assessment stays made, a payment stays with its assessment, and a refund's
  status only moves on, so that what was once said remains in `Earlier`.
- **CaseRecords.** `ReviewStaysDecidable` and `ApprovalsAreWarranted` are
  inductive with two strengthenings: a decision in flight names a request and a
  user, and `ClassedOnceArchived`: what was archived, or under review when a
  decision on it began, has a retention class. The second is what carries a late
  approval that lands on a reopened case. `DecisionsStayFinal` is an action
  property from the same invariant. `VetoOutsideTheRace` delimits the finding on the
  legal hold: the veto stands in every behaviour in which no hold is set while an
  approval is under way (`HoldsMissApprovals`).
- **DocumentScan.** The invariant adds to the checked properties `Fresh` (before
  finalization there is neither verdict nor job) and `Hands` (a worker in a scan
  has a document past finalization, and a finding of clean is one the scanner
  gave). It needs nothing of the `workerId`s: that document and job agree rests
  on their being changed in one transaction, not on who holds the lease. The
  refinement maps the seven document states to five gates.
- **PaymentEvents.** `OutcomesAccounted` counts events, so the invariant states it
  without cardinalities (`Accounts`: the applied events of a kind are none, or one
  and nothing else) and `AccountsCount` translates. It rests on `Hands`: an event in
  hand is unsettled and in one hand only, so a commit adds an event that was not
  counted yet. `OutcomesBelong` rests on `Inbox`: a recorded reference is never
  NULL, so nothing was applied to a payment before its binding. The refinement
  follows from the status alone.
- **Registry.** The invariant adds to the checked properties the link between a
  submission and its task, reply and event, `PaymentInv` (a payment that has money
  was announced), `SessionInv` (what a session works on is still what it read,
  unless its payment was given back meanwhile) and `SequenceInv` (at most one
  session holds the sequence row, and the number it took is the one after
  `lastValue`). `OpenedOnce` needs the last one: two openings of different
  filings meet in no row but that. `MoneyWasThere` follows because a record is
  made by a session which read a confirmed payment.
- **Fees.** `RaceInv` says that an activation under way overlaps every other one
  under way, and those that ended since it looked at its snapshot. Hence a
  conflicting schedule that is in force when the activation ends was
  there for its `NOT EXISTS` or raced with it, which is `OneScheduleGoverns`, for
  any relation of conflict. `AdjustedBeforeMoney` rests on `PaymentInv`: a payment
  that was ever confirmed is never pending again.
- **Judicial.** `UncontestedScheduling` (a scheduling no disposition overlapped
  has an assigned case) and `ClearedDisposition` (a disposition past its check left
  no active hearing but those of schedulings that overlapped it) carry
  `OnlyContestedHearingsOutlive`. `AdjournmentsChain` and `JudgmentsRestOnHearings`
  are inductive with the types and the shape of a session.

`AttemptsAccounted`, `DeliveredMeansHandled`, `SecondPersonDecides`,
`RecordsOfHeldHearings` and `FinalTextIsFixed` are proved, and no run checks them:
they hold by few steps, and are kept because other proofs or a reader rely on them.

Only model-checked: the three `EventuallySettled` (liveness under fairness is out of the
prover's reach). Every other property of a passing run is a theorem. The violated
properties are of course not theorems.

## Not modelled

Authentication, permissions and court scope (a caller who passed them is any
actor), validation of texts and codes, HTTP routing, read models and lists, row
mapping and the in-memory service. `createParty` and `registerDocument` of the
core insert rows no modelled step reads, and its first, not idempotent way to
submit a filing is not reached once `submitFilingIdempotent` is there. Of payments, the memory
repository, the development provider and the lease columns of the inbox, which no
code uses, are left out. Of documents, `changeDocumentClassification` (a column no
other step reads), download grants and the pure policy checks are left out. Of the
user interface, `PaymentsPage` without its buttons for receipt, reconciliation and
certification is modelled; the other pages load a list and post a form.

## Plan

What is left, in this order.

1. A service transaction with the outbox it enqueues into: an event if and only if
   the change committed, and the deduplication keys of repeated transitions, among
   them `records.archived`, which has no occurrence key.
2. `Refunds` over `PaymentEvents`: the provider's refund event against a refund
   that the office completes. `RefundsKeepTheLifecycle` is one half of it.
