# Meridian, verified

TLA+ models of the parts of the Meridian property-maintenance platform whose
correctness depends on what happens *between* steps: a technician's phone that
works offline and synchronises later, the database transactions that move one
job, one quote or one invoice from several hands at once, files that go to a
store no transaction covers, and queues whose workers die. Paths below are
relative to the repository.

## 1. Inventory

A TypeScript monorepo: `apps/web` (Next.js: public site, operational
application, customer portal, `/api/field/v1/*`, `/api/cron/*`,
`/api/uploads/*`), `apps/field` (React Native technician app), `packages/core`
(pure domain rules), `packages/db` (schema, row-level security, domain
functions), `packages/auth`, `packages/notify`, `packages/files`,
`packages/docs`. Everything the server does runs in a transaction opened by
`withTenant` at PostgreSQL's default isolation, READ COMMITTED; nothing in the
job code takes an explicit row lock.

| component | state | operations | what is hard | correct means |
|---|---|---|---|---|
| Phone outbox (`sync/outbox.ts`, `sync/engine.ts`) | one SQLite row per mutation: status, attempts, deadline, monotonic reading, parent | capture, plan a batch, fold answers, back off, recover | the process dies anywhere; readings restart; rows wait for parents | FIFO per job, nothing lost or sent after its answer |
| Sync runner and client (`app/sync-runner.ts`, `sync/client.ts`) | what `drain()` is doing, `needsSignIn` | drain, pull, recover | lost, late, truncated answers; sign-outs; a keystore that fails | a row is settled only on the office's word |
| Mutation API and ledger (`domain/field.ts`) | `field_mutations`, unique on the client id | replay, defer, handle in a savepoint, write a receipt | the same mutation in two live transactions | effects once, verdict final, evidence first |
| Job lifecycle (`core/work.ts`, `domain/jobs.ts`) | `jobs.status`, `job_events` | `transitionJob` and the visits that follow it | read, decide, write with others in between | graph respected, attendance true |
| Assignment (`domain/assignment.ts`) | `job_visits` | `assignTechnician` retires and inserts | two dispatchers; a technician setting off | one plan, attendance kept |
| Outcomes and job card (`domain/outcomes.ts`, `jobcard.ts`) | outcome, photographs, materials, labour | `recordJobOutcome`, card gate | gate and commit are two moments | no completion without outcome and evidence |
| Device tokens (`_device.ts`, `auth/device.ts`) | current and previous token, grace | resolve, rotate, revoke, keep in the keystore | the answer with the new token is lost; two runners share one token | who holds the token is no thief; signing in helps |
| Pull (`pullWorkingSet`, `sync/download.ts`) | cursor, truncation, holdings | delta, apply, evict | late commits behind the cursor, pages cut while others commit, captures while rows are evicted | what is missed is known, nothing stays that was taken away |
| Media upload (`upload-runner.ts`, `domain/uploads.ts`, `web/src/lib/uploads.ts`) | sessions and their parts, objects, the register | init, part, complete, scan, sweep, attach | the store is outside the transaction; parts arrive late; clients resume | no part without a session, no row without its object, no file uncleared |
| Signed job sheet (`docs/src/job-sheet-seal.ts`) | presentation, PDF in a write-once store, `job_sheets` | present, seal, amend | the file outlives the transaction; two signers; edits under way | the hash is the file's, evidence is never rewritten |
| Notification queue (`notify/dispatch.ts`) | queued, sending, sent, failed | enqueue, claim, send, mark | a worker dies after sending; two workers | sent once it is marked, never lost unseen |
| Quotes (`domain/commerce.ts`) | versions, decision, approval token | create, send, decide, expire, revise | a decision or a second revision inside a revision | what is replaced is out of reach, a decision stands |
| Invoices, payments, credit notes (`domain/commerce.ts`) | amounts paid, credited, received | issue, pay, credit, report | two payments read the same amount | nothing is settled unpaid, all debt is chased |
| Reference numbers (`sql/reference.sql`) | a counter per prefix and year | allocate | concurrent, rolled back, the first of a year | no number twice |
| Sessions (`packages/auth`) | sessions, factors, lockout | sign in, challenge, reset | counters under concurrency | lockout holds |
| Scheduled work (`api/cron/*`) | what each tick changes | expire quotes, scan, sweep, dispatch, digests, retention | overlap, crash | once per period |

Contracts, leads, customers, portal, HR, recruitment, compliance, projects,
tenders, reporting, documents and the public site are record keeping or pure
reads; `PROJECT.json` lists each with the reason it is not modelled (see also
section 13).

How they interact: a capture on the phone writes the domain row and an outbox
row in one SQLite transaction; a drain sends batches to
`POST /api/field/v1/mutations`, which applies each mutation through the same
domain functions the office screens call (`transitionJob`, `recordJobOutcome`,
`recordVisitLabour`, ...), in one database transaction per request, and answers
per client id; the phone folds the answers into its rows. A pull brings the
phone the jobs the office's transactions wrote, and never takes away a job the
outbox still has work for. Browsers and phones send files to the same upload
sessions. Sealing a job sheet locks the card that outcomes were recorded on.
Quotes, invoices and credit notes draw their numbers from the same counters, and
every domain function may enqueue a notification in its own transaction.

## 2. Plan

Most important first; 1 to 10 are done.

1. `Outbox` (pure), `Delivery` (what the sync promises), `FieldSync` (phone,
   network, office; composes the two), with `FieldSync_proofs`.
2. `MCFieldSync`, `MCFieldOrder`: their instances.
3. `Jobs` and `MCJobs`: one job under concurrent transactions.
4. `Jobs_proofs`: the invariants of `Jobs` for every number of technicians and
   transactions (the lock discipline is the inductive part).
5. `DeviceToken`: rotation, grace and revocation with lost answers and
   overlapping requests. (The promise first planned, that an honest phone is
   never locked out except by the office, is false: see section 5.) With
   `DeviceToken_proofs`.
6. `DocumentSeries` (what a numbered series promises), `Receivables` (the
   numbers, the invoices and what is owed; it implements two `DocumentSeries`)
   and `Quotes`, the two halves of `commerce.ts`, with `Commerce_proofs`.
7. `SignedSheet`, with `SignedSheet_proofs`.
8. `PullSync`: cursor, truncated pages, eviction against captures, with
   `PullSync_proofs`.
9. `NotificationQueue`, with `NotificationQueue_proofs`.
10. `Uploads`: browsers, phones, store, scan, sweep, with `Uploads_proofs`.
11. Next: `Sessions` (sign-in, second factor, lockout under concurrent
    attempts), planned maintenance (visits generated from contracts, once per
    period), `Jobs` composed with `SignedSheet`.

Runs keep to two or three mutations, two requests, two transactions and two
technicians: each hazard listed in `PROJECT.json` needs at most that many. Where
a module has proofs, they carry the safety properties to every number.

## 3. The field sync

### How the model corresponds to the code

`Outbox` has one operator per function of `outbox.ts` and of the planner in
`engine.ts`. A deadline is one bit, `waiting`; the draw of the jitter is a
choice. `created` is `createdMonotonic`, `place` the insertion order that breaks
ties. `Clear` is what the planner asks of one row, given which others go;
`Sendable`, its two loops, is the largest set of pending rows each of which is
clear when all of them go; `planDrain` is the first `DrainBatchLimit` of it.

`FieldSync` gives them state:

| variable | code |
|---|---|
| `outbox` | the `outbox` table; `absent` is a row not captured yet |
| `uptime` | `systemClock.monotonic()` |
| `drain`, `awaiting`, `needsSignIn` | where `SyncRunner.drain()` stands, the request it awaits, the sign-in gate |
| `requests` | each request in transit or in its transaction: batch, order, the mutation being handled, receipts written and effects made but not committed, answers so far |
| `receipts` | `field_mutations`, committed; `gaps` is a rejection whose stored result holds gap codes |
| `applied` | how often a mutation's effect has been committed |

| action | code |
|---|---|
| `Capture` | `writeWithOutbox`, `writeCardMutation`, `queueMutationOnly` |
| `SyncNow` | the button of `SyncStatusScreen` |
| `SendBatch`, `NothingToSend`, `FoldAnswers` | one turn of the loop in `drain()` with `applyMutationResponse` |
| `NetworkFailure`, `ServerFailure`, `UnreadableAnswer`, `SignedOut`, `KeystoreFails` | the error classes of `client.ts` as `sendBatch` treats them |
| `Kill`, `Startup` | the process ends; `recover()` |
| `Begin`, `Deny` | `withDevice` |
| `Replay`, `Defer`, `Handle`, `writeReceipt`, `DuplicateReceipt`, `Abort`, `Commit` | the loop of `applyFieldMutations` and the end of its transaction |

A request that the phone has stopped waiting for stays alive in the office, so
the model has overlapping transactions on the same client ids. What a handler
decides depends on data this module leaves out, so any outcome its kind can
produce may happen; that only adds behaviours. The row locks two handlers on one
job would wait on are left out for the same reason. No screen sets a dependency
today (`payloads.ts` passes none); the column, the planner's rule and the
office's rule exist and are modelled.

### What the runs show

- **field_sync** (two mutations, the second depending on the first, two requests
  alive, two disruptions, two attempts; 267,037 states): `AtMostOnce`,
  `PhoneBelievesLedger`, `EvidenceFirst`, `VerdictIsFinal`, `AnswerIsFinal`, that
  the sync implements `Delivery` (`ImplementsDelivery`), and, under the fairness
  below, `EventuallySettled`. That property names the only ways to stay in the
  queue: a row left inflight by a drain that ended early, until the app restarts,
  and rows behind a parent that will never be done.
- **field_order** (two rows of one job, a third on another job whose parent is
  one of them, a batch limit of two, no restart): `FifoPerJob`,
  `OfficeKeepsOrder`.

Three statements of the code's own text do not hold and are kept as definitions
or as instances to try, not as runs:

- `ReplayIsTheSameAnswer`: the replay of a refused completion loses the gaps that
  would reopen the card (put it in `MCFieldSync.cfg`);
- `FifoPerJob` with a restart: the monotonic reading that orders the rows begins
  again, and a row recorded after a restart can overtake an older one of its job
  (set `MaxDisruptions = 1` in `MCFieldOrder.cfg`);
- `EventuallySettled` without anyone pressing *Sync now*: nothing but the button
  starts a drain (take `ScheduledSpec` for the specification).

Bounds: `MaxAttempts` is 2 (8 in the code): reaching the limit is the case, not
how long it takes. `DrainBatchLimit` is 2 (200). `Slots` 2 is the least that lets
transactions overlap. `MaxDisruptions` bounds kills, sign-outs and keystore
failures. `Advances` is what the clock may advance between two captures.

Fairness. A wait ends (the 30 second timeout of `client.ts`), a transaction ends
(the 60 second limit of the route), a backoff deadline passes, a killed app is
opened again, a signed-out technician signs in, and the drain loop runs while
its process does: each is weak fairness on the action, with the environment
free to choose failure every time. `ScheduledSpec` has only these. `FairSpec`
adds that a technician keeps pressing *Sync now*, because nothing else calls
`drain()`.

### What is proved

`FieldSync_proofs`, for every set of mutations and jobs, every dependency
relation, number of requests and value of the limits, from `OutboxAssumption`
and `SyncAssumption` alone:

`TypeCorrect`, `Invariance` (`SyncInv`), `EffectsHappenOnce`,
`PhoneNeverMistaken`, `EvidenceArrivesFirst`, `VerdictsAreFinal`,
`AnswersAreFinal`, `SyncImplementsDelivery`; and, for as long as the app lives,
`OrderIsKept` (`OrderInv`), `BatchesAreFifo`, `OfficeIsFifo`, with
`PlanKeepsOrder`, what `planDrain` promises of any outbox.

`AtMostOnce` and `PhoneBelievesLedger` are not inductive: they say nothing of
what open transactions hold and answers carry. `SyncInv` adds that an uncommitted
receipt is held by one open transaction only and only where none is committed
(the unique index), that a transaction's effects are covered by receipts that
admit them, that an answer on its way says what the ledger says, that `drain()`
awaits the request whose rows it has marked inflight, and that a request that
has not begun has decided nothing. Each action preserves each conjunct; the
action properties and the refinement follow from the invariant step by step.

The two properties of order have the hypothesis `[]AppLives`, the app is never
killed: it is the whole of what they need, since with a restart the readings
that order the rows start again and `FifoPerJob` is false. Anything else may go
wrong: lost and late answers, sign-outs, aborted and overlapping transactions.
`PlanKeepsOrder` says that a row goes only with everything older of its job that
is not finished, ahead of it, which has to survive the cut at
`DrainBatchLimit`. `OrderInv` carries that to the office: rows are numbered and
read in the order they were captured (`RowsAreInOrder`), only captured rows
travel (`OnlyCapturedTravel`), a row of a batch is still to do or answered
(`AnswersAreComplete`), a request carries ahead of a row whatever older row is
undecided (`RequestsKeepOrder`), so that a transaction has decided on that one
first (`TransactionsKeepOrder`), and a row left inflight has its receipt
(`InflightIsDecided`). With one restart allowed, TLC checked `AppLives =>
OrderInv` up to the restart before it was proved (4.2 million states).

`EventuallySettled` is liveness and model-checked only.

## 4. The job

### How the model corresponds to the code

`Jobs` is one job: its status, whether it has an outcome and evidence, its
visits in the order of their sequence numbers, and the open transactions. A
transaction takes a step for each run of statements between which another's
commit can matter. A `SELECT` reads what is committed. An `UPDATE` by id waits
for whoever has updated the row and not committed (`JobFree`, `VisitsFree`); an
insert waits for, and then fails on, an equal sequence number (`SequenceHeld`,
`SequenceTaken`). Writes become visible at the commit. Any transaction may end in
`RollBack`, which is how a failing check, a unique violation, a deadlock and a
lost connection all look to the others.

`BeginMove`, `MoveJob`, `CommitMove` are `transitionJob` with
`advanceVisitsWithJob`; `BeginAssign` to `CommitAssign` are `assignTechnician`,
which goes through `MoveJob` when it dispatches the job; `BeginOutcome` to
`CompleteJob` are `recordJobOutcome`, which checks the card, writes the outcome
and goes on to `transitionJob`. `MayAsk` is who may ask for what: `changeStatus`
refuses `work_complete`, a phone is confined to `DEVICE_DRIVABLE_STATUSES` on a
job with a visit of its own, of any status.

Left out: refusals that come before anything is read from the visits
(compliance, warnings, permissions), `additional: true` (no caller passes it),
moving a window, return visits, sealing of the job sheet. The job starts
triaged.

### What the runs show

- **jobs** (two technicians, two transactions, two visits): `OneLivePlan`,
  `TrackingStops`, `CompletionHasOutcome`, `EndedStaysEnded`. They hold because
  the job row's update serialises transitions, the visits are read after it, and
  the sequence index makes the second of two concurrent assignments fail.

`TrackingStops` is about the two statuses that end the visits, `work_complete` and
`cancelled`: while the job stands there nobody is on the road or on the site,
whoever ended it. It does not carry over to `signed_off`, `invoiced` and `closed`,
which advance no visit.

Four statements the code's comments make are broken by concurrent transactions;
each is a definition of the module that can be put in `MCJobs.cfg`:
`TrackingStaysStopped` (a sign-off that has read `work_complete` is still open
while another transaction reopens the job to `on_site` and stamps a visit as
arrived; the sign-off writes over `on_site`, and the visit stays on the site of a
signed-off job, published on its portal; 23 steps), `TerminalIsFinal` (a stale
transition overwrites a cancellation), `AttendanceIsAFact` (a reassignment retires a
visit whose technician has set off, or a transition stamps one that was retired), and
`CompletionIsEvidenced` (a job completes on a card whose labour is gone; three visits).

Two transactions suffice for every anomaly here: each is one transaction's
stale read against another's commit. Three visits are needed only for
`CompletionIsEvidenced`. Liveness is not claimed: nothing obliges a transaction to be
retried.

### What is proved

`Jobs_proofs`, for any technicians, open transactions and visits, from
`JobsAssumption` alone: `TypeCorrect`, `Invariance` (`JobsInv`), `OnePlan`,
`TrackingEnds`, `NoCompletionWithoutOutcome`, `EndedIsFinal`.

None of the properties is inductive: they speak of committed rows, and what
breaks them is what an open transaction has already read. `JobsInv` adds

- `OneHolder`: one transaction at a time has updated the job and not committed;
- `MovesAreSound`: the visits a transition read with the job locked are still
  live when it writes them, and include every attended one if it ends the work.
  This is what the lock is for: visits change status only under it, except that
  an assignment may retire them;
- `PlansAreSound`: an assignment whose sequence number is still the next one has
  seen every booked visit, so it retires them all; one that is late fails on the
  index;
- `OneInserter`: the index lets one assignment at a time past its insert.

The steps before a commit write nothing but their own transaction's record and
share one lemma (`LocalStep`); the two commits share another (`CommitStep`).
The four statements that concurrent transactions break have TLC's counterexamples only.

## 5. The device token

### How the model corresponds to the code

`DeviceToken` is one technician's phone, honest, and the rows of `field_devices`
it was registered with. On the phone: `memory` is `DeviceStore.cached`, `owed`
is `unflushed` (whose value is always that of memory), `stored` the keystore,
`phone` the sign-in gate of `App.tsx`. A call goes through the client in the
steps between which another call can run: read the token (and retry an owed
write, `flushing`), wait for the office (`sent`, `admitted`, `reused`), take the
answer (`answered`), keep a rotated token (`saving`, `writing`). In the office
`Resolve` is the query of `app_auth_resolve_device`, which runs before the
transaction; `Commit` is the handler's transaction with its rotation;
`RevokeReused` the revocation of a device whose replaced token comes late.

A row's times are three bits: the grace runs, the token is due, it has expired.
Two assumptions bind them to the rest. `GraceEnds`: ten minutes are longer than
twice what a call lives (30 seconds on the phone, and a minute in the office if
the phone has given it up: the route's `maxDuration`), so no call that was alive
when the token was rotated, nor one made while such a call was, is still alive when
the grace ends.
`DaysPass`: 7 and 30 days outlast any call and any bad patch of the keystore.

The page on which a technician signs in is a seam in the code (`WEB_LOGIN` is
null); in the model it works. There is always something to send: `drain()` with
an empty queue makes no call. Left out: `signOutDevice`, which nothing calls, a
keystore that cannot be read, memberships or tenants switched off.

### What the runs show

- **device** (two calls at once, three faults, three rows, seven tokens;
  1,069,614 states): `HolderIsNoThief`, a call the app waits for is answered with a
  revocation for reuse only when the phone neither holds the current token of that
  row nor has it on its way to memory; `LetInAgain`, whatever was lost or revoked,
  the gate opens again on a token that works.

The phone has two runners (`SyncRunner` and `MediaUploadRunner`) on one client and
nothing keeps their calls apart, and a request the phone has given up lives on in
the office beside its retry. All of that is in the run; a call that begins beside
another counts as a fault (`Beside`), which bounds how often they overlap and not
how.

Not in the run, and violated; each is a definition that can be put in the cfg:
`HeldStaysInChain` (two calls resolved from one reading of the row both rotate, and
the phone may keep the first one's token last, which is in the chain no more) and
`DifferenceIsOwed` (the end of one keystore write clears the debt that belongs to
the newer value of another). `HolderIsNoThief` is what is left: the phone that is
revoked has lost the answer with the current token, or wrote an older one over it.
That an honest phone is *never* taken for a thief does not hold in any instance:
after one lost rotation answer it presents the replaced token for ten minutes, is
not sent the new one, although the comment of `app_auth_resolve_device` says
"re-send the current token", and is then revoked. Outside `HolderIsNoThief` is also
a call cut off by a kill, after which memory takes over what the keystore holds.

Rows nobody can present a token of, and their tokens, are reused, so three rows
and seven tokens are enough for two calls. Every anomaly here is one call's stale
reading, or stale write, against one other; two make every overlap of a pair.

Fairness: the office and the phone finish what they started (`WF` on
`PhoneWorks` and `OfficeWorks`; both fail or give up only as a fault, and faults
are bounded); the technician presses *Sync now*, and signs in when the screen
asks for it. These two are strong because a free slot in `requests` is a bound
of the model and not of the phone.

### What is proved

`DeviceToken_proofs`, for any rows, requests, tokens and faults: `Invariance`
(`DeviceInv`) and `TypeCorrect`. A token is in the chain of one row
(`OneRowPerToken`), so the query of `app_auth_resolve_device`, whose order nobody
fixed, has one answer; a slot keeps nothing of an ended call (`IdleIsBlank`); the
phone works only on a call it has not given up (`PhoneWaits`).

`PhoneIsNoThief` states `HolderIsNoThief` for any number of calls, where the run has
two. The property is not inductive: `HonestInv` adds what the code's three clocks
keep apart. Of a row that is due no token is under way and the phone uses one of its
two (`DueIsSettled`), so of two calls it waits for, one does not rotate the row the
other is to revoke (`NotBoth`); a token on its way is in its grace (`FreshInGrace`);
and a call that asks with a replaced token either began before its grace can end, or
finds the phone without the current one (`BehindOrCovered`).

`LetInAgain` is liveness and model-checked only.

## 6. Invoices, payments and numbers

`Receivables` is `createInvoiceFromJob`, `recordPayment` and `issueCreditNote`
with `app_next_reference`, and the two reports of what is owed.

| variable | code |
|---|---|
| `invoices` | `invoices`, with `paid` for `amount_paid`; `received` and `credited` are sums over `payments` and `credit_notes` |
| `register` | the numbers on committed documents of the two series |
| `counter` | `reference_counters.last_value`; 0 is no row |
| `tx` | an open transaction: what it has read, the number it has drawn |

A transaction is cut where another's commit can matter. `BeginPayment` and
`BeginCredit` read the invoice; `TakeNumber` is the counter's UPDATE, `ReadSeed`
and `InsertCounter` the branch for a series that has no row; `PostPayment` and
`PostCredit` update the invoice and hold its row (`InvoiceFree`); the `Commit`
actions make everything visible at once; `RollBack` may end any of them. As in
the code, `AmountPaid` adds to the amount that was *read*.

Run **receivables** (two transactions, two invoices, sums 1 and 2 against a
total of 2, four numbers; 1,433,353 states): `DocumentNumbers`, each series
implements `DocumentSeries`, whose documents are numbered once and never
renumbered; `PaidIsCovered`, nothing is settled without the money; and
`StatementIsChased`, what a customer's statement asks for is in the receivables
the office chases. Two transactions make every pair of stale reads; a total that
is reached by one sum or by two makes part and full payments.

Two comments do not hold and are definitions one can put in the cfg:
`PaidIsSumOfPayments` ("'paid' can never disagree with the sum of the payments",
`commerce.ts:1034`): two payments that read the same amount lose one, and the
error is on the side of chasing too much; `NeverOverCredited` (`commerce.ts:1962`):
two credit notes each within what is left exceed it together.

Proved (`Commerce_proofs`), for any transactions, invoices, sums and numbers:
`TypeCorrect`, `PaidIsMoney`, `DebtIsChased` and `NumbersAreUnique`, the
refinement of both series. The properties speak of committed rows and what would
break them is in an open transaction, so `LedgerInv` adds `ReadIsPast` (what a
transaction read of its invoice has since only grown: paid is an undercount,
never an overcount), `NumberIsNext` (a drawn number, and a seed nobody has
overtaken, is past every document), `OneAllocator` (the counter's row lock),
`CounterIsLast` and `CreditedInFull`.

## 7. Quotes

`Quotes` is `createQuote`, `sendQuote`, `decideQuote`, `expireStaleQuotes` and
`reviseQuote`. All but the last are one UPDATE guarded by the status it changes,
hence one action each. A revision reads the status (`BeginRevise`), and later
writes the new version and retires the old one *by id* (`CommitRevise`), with
everything else between.

Run **quotes** (two revisions at a time, four versions; 632,611 states):
`ReplacedIsRetired`, a version with a successor is superseded, whatever the
customer and the clock did meanwhile; `DecisionStands`: a decision is never
flipped, an approval no revision had read the quote before stands, and what has
lapsed or was replaced is not decided any more. Four versions allow two
revisions of one quote and one of its successors.

Not runs, and violated: `ApprovalStands` (an approval that lands inside a
revision is superseded, which the comment at `commerce.ts:341` refuses) and `NoFork` (two revisions of one quote leave two
successors).

Proved (`Commerce_proofs`), for any number of each: `QuotesTypeCorrect`,
`ReplacedStaysRetired`, `DecisionsStand`. `QuotesInv` adds that versions and open
revisions refer to quotes that exist (`References`).

## 8. The signed sheet

`SignedSheet` is `presentJobSheet`, `sealJobSheet` and `amendJobSheet` with the
store behind them. A digest stands for what it digests. The store keeps an object
as two files, the bytes first (`WriteBody`, `WriteSidecar`), and is not rolled
back; `Adopt` is the retry that finds an object under its key; `CommitSheet` is
guarded by the unique indexes on the sequence. `EditCard` passes the trigger when
its statement runs and commits later, so an edit may be under way while a sheet
is sealed; `EditReport` is guarded by nothing.

Run **signed_sheet** (two signers, one editor, two sheets, two losses; 107,362
states): `HashIsOfTheFile`, `EvidenceIsFinal`, and `SignedUnlessTorn`: a
signature is eventually recorded unless a process died between the two files of
the object, which no retry repairs (`Torn`; local store only). Fairness: a
request that has begun runs to its end or is lost, losses are bounded, and the
page is opened again as long as nothing is signed.

Not runs, and violated: `PdfShowsWhatWasSigned` ("the retry produces
byte-identical output", `job-sheet-seal.ts:27`): the retry of a lost seal, after
the record changed or by another signer, adopts a PDF of what was shown then;
`AmendmentSaysTheSame` (`job-sheet-seal.ts:634`): the report can be edited after
the seal, and an edit that was under way can commit after it.

Proved (`SignedSheet_proofs`), for any signers, editors, edits and sheets, from
`SignedSheetAssumption` and `NoneIsNoBytes`: `TypeCorrect`, `HashesMatch`,
`EvidenceStays`. `SheetInv` adds `SidecarMatches` (a finished object's two files
agree), `WritersOwn` (between the two files nobody else writes under the key) and
`StoredMatches` (what a signer takes for stored is there). `SignedUnlessTorn` is
liveness and model-checked only.

## 9. The pull

`PullSync` is one phone's pull against an office that keeps writing. A row is
stamped with the *start* of its transaction (`app_touch_updated_at`) and seen
when it commits, so stamps arrive out of order. `Ask` takes the office's clock,
`ReadLastPage`/`ReadFullPage`, `ReadSites` and `ReadScope` are the queries of
`pullWorkingSet`, each at its own moment; `ReadHoldings` and `ApplyPlan` are the
two local transactions of `SyncRunner.pull`, with captures between them;
`Refused` is the batch the library will not run. `HeldBack` is the cursor behind
the clock by `Lag` (5 s).

Run **pull** (two jobs, two transactions at a time, pages of one job and of both,
three instants; 1,047,340 states): `LostOnlyAtThePageEdge`, no pull, applied or
broken off, and no late commit loses a row that the phone was to have, except at
the edge of a full page; `TakenOffLeaves`, a job taken away leaves once its work is
sent. Pages are cut whatever transactions are open, as in the code. Two transactions
are what it takes to lose a row there: one that is in the page, and an older one
that commits after it. The model begins at any moment: a transaction has just
written all jobs, and others may be open as long as they get. Fairness: the queue is
drained and the app started again whenever they can be, and transactions end.
**pull_sites** is a finding (section 12).

The edge of a page is a loss the code has. Only a page that holds the whole delta has
its cursor held back by the lag; after a full page (`MAX_JOBS_PER_PULL`, 200 rows,
`field.ts:198`) the next pull goes on from its last row, and a transaction begun
before that row's and committed after the page was read is overtaken and not sent
until it is written again. `NothingSkipped` (`field.ts:933`: "so nothing between it and
`now()` is skipped") is the definition that says otherwise; put it in
`MCPullSync.cfg` and TLC shows the loss. What `LostOnlyAtThePageEdge` adds is that
this is the only one: such a row is stamped within the lag before the cursor, and
the cursor is the last row of a full page.

One assumption remains, `MaxOpen <= Lag`: a transaction open longer than the lag is
lost likewise, which is what the lag is for.

Not runs either, and violated: `WorkingSetIsDeclared` (a reassignment of a job that does
not change its row moves no stamp, so a job enters the working set and is not
sent) and `QueuedWorkIsPinned` (a capture between the two local transactions is
on a job the plan removes).

Proved (`PullSync_proofs`), for any jobs, writers, page limits and times under that
assumption: `TypeCorrect`, `LossIsAtThePageEdge`. `PullInv` adds that no open
transaction is older than the lag (`OpenIsRecent`); that every cursor, the phone's and
the one on its way, is `Past`: no later than now, and the lag before it unless it is
the last row of a page, so that whatever can still commit is stamped after it or at
its edge (`OpenIsBeyond`); that what was read, on top of what the phone holds, is
`Covered` or beyond the next cursor; and that no job in the named scope is removed.
`PageFacts` is the argument about pages: what a full page leaves out comes after its
last row.

## 10. Notifications

`NotificationQueue` is `enqueue`, `dispatchPending` (`Claim`, `Send`, `Mark`) and
`stuckNotifications` (`Counted`). `provider` is the outside: how often it was
asked and whether it took the message. `Pages` are dispatchers some pages start,
with dispatchPending's default transport, which logs (`Log`).

Run **notify** (two rows, two timers, one page, five attempts as in the code, one
death; 136,511 states): `SentIsFinal`, what one dispatcher has sent stays sent
and is never asked for again; `SentOrSeen`, every notification is sent in the end
or counted as stuck. Fairness: the dispatch route is called every five minutes,
and a dispatcher that does not die goes through what it has claimed.

Not runs, and violated: `TriedInFull` (`dispatch.ts:167` adds to the
attempt the claim has already counted, so that a row is given up after four tries of
the five the comment names; a dispatcher that dies also uses up an attempt) and `SentIsTaken` (`transport.ts:14`: a page's dispatcher marks
`sent` what it has only logged).

Proved (`NotificationQueue_proofs`), for any rows and dispatchers: `TypeCorrect`
(no row is claimed, and no provider asked, more than `MaxAttempts` times) and
`SentStaysSent`. `QueueInv` adds that what is held is `sending` (`HeldIsSending`)
by one dispatcher (`OneHolder`), that what is sent is not claimed
(`SentIsNotClaimed`) and that the provider is asked no more than was counted
(`AskedIsCounted`). `SentOrSeen` is model-checked only. `portal.ts:2028` inserts
rows as `suppressed`, which nothing dispatches; they are left out.

## 11. Uploads

`Uploads` has browsers and phones on one side (`clients`: open under an id of
their own, send what is said to be missing, ask for the end, attach) and the
office on the other: `receiveChunk` commits after the route has looked at the
session (`arriving`); `Stage`, `Put` and `completeUpload` are the three parts of
`completeStagedUpload`, with the store between two transactions; `Discard` and
`RequestDies` its failures. A client that gives up leaves its request running.

The timer's request is `tick`. `StartTick` reads once what waits for a scan; `Scan`
writes a verdict; only a tick with nothing left to scan gets to
`sweepAbandonedUploads`, as in `cron/scan/route.ts`, where nothing catches what the
scanner throws (lines 125 and 163). `ScanThrows` is a file the scanner refuses for
good (`Refused`: clamd answers with an error or not in time, `clamav.ts:97`), and
`TickDies` any other end of a tick. What a tick scans before these files,
candidates' documents and everything of the tenants before, is not in the model but
for its effect: a `scanner` that `"fails"` never gets past them. Ticks do not
overlap, and the forty files a tick scans at most (`SCAN_BUDGET`) are left out.

The comment in the code that the parts are read "in the same transaction that
completes the session" is not so: `Stage` and `completeUpload` are two. The
properties hold all the same, because the object's key is the session's. Attaching
checks and updates in one transaction and is one step here; nothing else writes
the column. Since the phone refuses the answer to `init` (section 12), the
phone's later steps, shared with the browser's, are reached by no phone.

Run **uploads** (a browser with two ids, of which the scanner refuses the second's
file, a phone, two parts, two `complete` requests, one fault; 147,462 states):
`PartsAreReclaimed`, `CitedIsOnFile`, and `SessionsEnd`: a session that is open ends,
or a file stands before the sweep that no tick gets past (`Blocked`). Fairness: time
passes and the timer is called, a tick goes on until it ends or throws, a request in
the office is worked on, a client that has begun goes on. A tick that throws is
followed by the next one, and nothing makes it come through.

Not runs, and violated: `SessionsEndAnyway` (`cron/scan/route.ts:175`: the sweep
"runs whether or not a scanner exists"; one file that clamd refuses stops it on
every tick, and with it every session it should end), `ResumeIsHarmless`
(`upload-file.ts:58`: a browser that
resumes the id of a session the sweep has aborted, or that is complete without an
object, is refused for ever) and `ClearedIsAttached` (`projects.ts:2459`: the form
attaches in the same breath, so with a scanner a file is never cleared in time
and never attached).

Proved (`Uploads_proofs`), for any clients, parts and requests: `TypeCorrect`,
`NoPartIsOrphaned`, `CitationsHold`. `UploadsInv` adds `ClientsAreSound` (a client
waits on a request of its own session) and `StoredIsThere` (a request past its
put, and a complete session, have their object). `SessionsEnd` is model-checked
only.

## 12. Findings

Each is a run TLC must find violated.

| run | what the code does |
|---|---|
| uploads_phone | the office answers `receivedChunks` with a number, the phone's schema requires a list: no capture ever goes up |
| pull_sites | a customer or property last edited before the cursor is not sent with a job that enters the working set later |

The other disagreements met while modelling are the violated definitions named in
sections 3 to 11.

## 13. What is proved, checked, and left out

What every proof assumes are the named assumptions of its module and nothing
else: bounds are naturals, sets that are counted are finite, a null is no value.
TLC evaluates each on every run. Two theorems carry a hypothesis on the
behaviour as well, because the code keeps the property only there:
`BatchesAreFifo` and `OfficeIsFifo` (`[]AppLives`). Every invariant, every action
property and the refinements of the passing runs are stated by a theorem. The six
liveness properties are model-checked only: `EventuallySettled`, `LetInAgain`,
`SignedUnlessTorn`, `TakenOffLeaves`, `SentOrSeen`, `SessionsEnd`.

Each module has one type invariant. All other properties are about a hazard of
`PROJECT.json`. Six hazards have no property that holds there. For four the code's
own statement is written down and fails: the order of rows across a restart
(`FifoPerJob`), the gaps a replay loses (`ReplayIsTheSameAnswer`), the evidence of a
completion (`CompletionIsEvidenced`) and an edit that was under way when the sheet was
sealed (`AmendmentSaysTheSame`). Two are below what the models tell apart: a backoff
deadline kept across a restart (`outbox.ts:200`), and a number past 99,999, which
`lpad` truncates and the unique index refuses (`reference.sql:70`).

Not modelled:

- sessions, sign-in and the second factor: counters per account and address,
  lockout, and a reset that ends sessions; the next module of the plan;
- contracts and planned maintenance: visits generated from a schedule; the
  period's uniqueness rests on one index;
- leads, customers, portal, HR, recruitment, compliance, projects, tenders: forms
  that insert and update single rows in one transaction, large and without
  interplay beyond what `Jobs`, `Quotes` and `Uploads` show of their kind. They
  are most of the implementation's lines, which is why the models stand for a
  small share of them;
- reporting, documents and the public site: reads, rendering and arithmetic over
  rows, with no state of their own. `Receivables` has the two of these reads that
  must agree with each other;
- the ticks of scheduled work that notify or delete (SLA, digests, retention).

## 14. Checking

    tlc -workers 2 -config MCFieldSync.cfg MCFieldSync
    tlc -workers 2 -config MCPullSites.cfg MCPullSync      (a finding)
    tlapm PullSync_proofs.tla

and so for every `MC*.cfg` (the module is the one of the same name, except for
the two findings, whose modules are `MCPullSync` and `MCUploads`) and every
`*_proofs.tla`. `PROJECT.json` lists the runs, for every property a change of the
code's model that must break it (the operators marked "a mutant of the next"),
the source lines each definition stands for, and the hazards the properties are
for.
