# Verification of the CRM's stateful core

`lawcrm` is a practice-management system for a law firm: a Next.js application whose mutations
are server actions (`src/src/app/actions/`) over one PostgreSQL database, plus a few API routes
that the platform's scheduler, webhooks and uploads call. Nothing runs between requests, so every
hard behaviour is a race of requests over rows, a request that dies between two statements, or a
request that talks to somebody else's service (e-mail, Google, a transcription provider, a file
store) that cannot join its transaction.

This directory holds TLA+ models of the parts where that matters most, TLC configurations that
check small instances, and proofs, checked by TLAPS, of central properties for instances of
every size. It was written from the code; paths below are relative to the repository
root unless a section names a directory.

1. [Inventory](#inventory) 2. [What is modelled](#what-is-modelled) 3. [Runs](#runs)
4. [Proofs](#proofs) 5. [Disagreements with comments and tests](#disagreements-with-comments-and-tests)
6. [Not modelled](#not-modelled) 7. [Plan](#plan) 8. [Running it](#running-it)

## Inventory

All state is rows; "interacts" names the calls and rows that components share. `A/` is
`src/src/app/actions/`, `L/` is `src/src/lib/`, `API/` is `src/src/app/api/`.

| Component | State | Operations | Interacts with | Hard behaviour | Correct when |
|---|---|---|---|---|---|
| **Billing** `A/billing/*`, `A/time-entries.ts`, `A/expenses.ts` | time entries, expenses, invoices, payments, trust ledger, `Matter.trustBalance` | create/edit/delete lines; mint, edit, approve, send, pay, void, delete invoices; trust deposits and withdrawals | delivery after commit; lead conversion creates entries | read-check-write races, two kinds of row locks, stale pre-checks, invoice-number collisions | balances equal ledgers, nothing is billed twice, an approved invoice is frozen |
| **Invoice delivery** `L/billing/*` | filed PDFs (documents), activity log | render, file, mail, VOID-stamp | billing (before/after commit), documents and bytes, e-mail | steps after the commit, void racing a send | a void stamps what was filed |
| **Settlements** `A/settlements.ts` | settlement, liens, approval steps | edit amounts, liens, approve/reject steps, disburse | notifications | approvals race amount edits | an approved settlement was approved on its numbers |
| **Transcription** `A/transcripts.ts`, `L/transcription/*`, webhook and sweep | transcripts, `transcript_purges`, the provider's copies | request, copy, finish, correct, delete, drain purges | documents (cascade), provider, storage | late, duplicate and lost answers; deaths; stale claims | no copy is forgotten; a late answer never lands in a newer run |
| **Notification e-mail** `L/notification-email.ts` | `Notification.emailState` and attempts, digest day per user | claim, send, stamp, hold, digest, release, reclaim | every producer of notices, preferences, e-mail | overlapping cron runs, deaths between send and stamp | no notice is lost, none is mailed twice without a mishap |
| Sweeps `L/notification-sweeps.ts`, `API/matter-draft-sweep` | due notices, drafts | hourly and daily sweeps | outbox, storage | overlapping sweeps | one notice per deadline and recipient |
| **Gmail sync** `L/google/gmail-*.ts`, `A/email-accounts.ts` | account status, history cursor, threads, messages | sync, backfill, write back, disconnect | tokens, Google | claim by compare-and-set, stale takeover, expired cursor | the cursor never skips mail; a disconnect sticks |
| Calendar sync `L/google/google-calendar-*.ts` | events, mappings, sync tokens | pull, push, delete | events, Google | two writers of one event, lost mapping writes | one copy per event; replicas converge |
| **Records requests** `A/records-requests.ts`, `L/records-requests/*` | requests, follow-up tasks, folder | create, send, roll, close, reopen, book fee | tasks, expenses, lead conversion | request-before-task lock order | one open follow-up per open request |
| **Documents and bytes** `L/file-storage.ts`, `L/storage/*`, `A/documents.ts` | documents, folders; bytes by key | upload, copy, move, delete, extract attachments | almost everything that files something | two stores, shared keys | no row points at deleted bytes |
| Client portal `L/portal/*`, `A/portal-*.ts` | identities, tokens, sessions, requests, threads | sign in, upload, answer, message | documents, notices, billing | a batch of uploads against a staff transition | a request is answered by what was sent |
| Matters, walls `L/matter-access.ts`, `A/matters.ts` | matter, team, restriction | open, restrict, team changes | every action's guard | last member against restrict | a restricted matter has a team |
| Leads `A/leads.ts` | leads, intake rows | stage changes, decline, convert | matters, billing, records requests | convert against decline | one matter per lead |
| Automations, deadlines, tasks `L/automations/*`, `L/sol.ts` | rules, deadlines, tasks | apply, preview, recalculate | matters | preview applied to changed rows | hand-moved dates stay |
| Roles, team, sign-in `A/roles.ts`, `A/team.ts`, `L/staff-auth.ts` | users, roles, grants | assign, deactivate, link | all | two demotions | an active admin remains |
| Contacts `A/contacts.ts` | contacts, references | edit, merge | matters, portal, invoices | two merges | no reference to a retired contact |
| Timers, captures, notes, outgoing mail | one row per user or per send | start, stop, capture, send | billing, e-mail | two tabs | a timer is logged once |
| Templates, styles | document rows | edit, render | documents | version checks | (layout) |

`PROJECT.json` lists each component with its sources and, under `hazards`, the places where the
code could go wrong in a way a test would hardly reach, each with the properties that would
notice.

## What is modelled

| Module | What it is |
|---|---|
| `Billing` | every billing action, statement by statement |
| `Receivables` | what billing promises the client, atomically: the abstract specification |
| `BillingProofs` | the inductive invariant of `Billing`, its proofs, and the proof that `Billing` implements `Receivables` |
| `BillingLinesProofs` | the same for its lines and locks |
| `Transcription` | requests, finisher, purge queue, deletions, the provider |
| `NotificationEmail` | the outbox worker, preferences, the digest day |
| `RecordsRequests` | requests for records, their follow-up tasks and fees, and the lead conversion that carries them |
| `Settlement` | settlement, liens and approval chain under the matter's advisory lock |
| `SettlementProofs` | the inductive invariant of `Settlement` and its proofs |
| `NotificationEmailProofs` | the inductive invariant of `NotificationEmail` and its proofs |
| `TranscriptionProofs` | the same for `Transcription` |
| `RecordsRequestsProofs` | the same for `RecordsRequests` |
| `InvoiceFilingProofs` | the same for `InvoiceFiling` |
| `GmailSyncProofs` | the same for `GmailSync` |
| `GmailSync` | one connected mailbox: claimed passes, backfill, credential states, the history cursor |
| `InvoiceFiling` | the PDF copies of one invoice and the bytes they share: filing, the VOID stamp, copies, deletions |
| `MC*` | instances for TLC: sets, bounds, symmetry |

These systems share no row that one of them writes under another's feet, with four exceptions
that are inside a module: the lead conversion is a part of `RecordsRequests`, the expense of a
records fee is there too (billing takes it and gives it back), the calendar's writes to the
mail account are a step of `GmailSync`, and an invoice's status and its copies are together in
`InvoiceFiling`. Notices produced after a commit appear in the outbox model
as `CreateNotification`, whose moment is arbitrary. The modules are therefore checked apart.

### Billing

*State.* `entry`, `expense`, `invoice` are the rows, with the columns that decide anything:
status, hours, rate, amount and the invoice of a line; status, kind, matter, total, paid and
number of an invoice. A row that does not exist yet, or was deleted, has a status of its own.
`trustBalance` is the matter's cached balance; `ledger`, `trustPaid` and `otherPaid` are the sums
of the append-only rows they summarise (`TrustTransaction`, `InvoicePayment` by source).
`invoiceLock` and `matterLock` are `SELECT ... FOR UPDATE`; `req[p]` is what a running request
carries between its statements.

*Actions.* A request is a chain of steps with `req[p].at` as its program counter; between two
steps any other request may run. The database is at READ COMMITTED, hence:

- a read before a lock is stale at once (`UpdateEntryRead`, `LineEditRead`, `SetStatusRead`, ...);
- a single `updateMany` with a predicate is one step that evaluates it on the committed row
  (`UpdateEntryWrite`, `ApproveWrite`, `DeleteExpense`);
- a transaction's writes appear together in its commit step (`MintCommit`, `PayCommit`,
  `DeleteCommit`), and its row locks are what keeps others out until then;
- `INSERT`s wait for a `FOR UPDATE` lock on the row their foreign key names;
- `Abort` rolls a request back at any point (timeout, crash, lost connection);
- a transaction that ends, either way, drops all its row locks at once (`ReleaseLocks`).

Minting reads entries, expenses and the highest number in three statements, and a collision on
the number re-runs the transaction (`retryOnInvoiceNumberCollision`). Refusals that happen at a
request's first statement change nothing and are left out.

*Abstracted.* Amounts are small integers of cents; dates, descriptions, UTBMS codes and who may
bill are left out; a request that moves a time entry to another matter, and what
happens after a commit, is not modelled here (`InvoiceFiling` has the filing and the stamps): the
component is listed as `partly`. `expectedTotal` is optional in `approveInvoice`
(`lifecycle.ts:547`, `591`); an approval here always passes it, as its one caller
(`invoice-action-bar.tsx:230`) does, and `ApprovedTotalWasShown` is about such approvals.

*Abstract specification.* `Receivables` has one account per invoice and one trust balance per
matter, and steps that happen at once: transfer, issue, collect, cancel. `R` in `Billing` maps
the rows to it (`AccountOf`): drafts and internal records are not the client's business, so
minting, editing, approving and deleting them are stuttering steps. That `Spec` implements
`R!Spec` says, in one formula, that locks and interleavings never show through: no payment
beyond the charge, no trust money leaving other than by a withdrawal or into an invoice of the
same matter, no void after a collection.

### Transcription

*State.* `row[d]` is the document's transcript (`no document` once it is gone); `provider[r]` is
what the provider holds of the job that request `r` submitted; `purges` is the table of copies
whose deletion has to be retried. A request creates at most one row and one job, so the row id,
the webhook secret and the job id are all named by the request.

*Actions.* `requestTranscript` is `RequestTranscript` (read), `LookForCopy`, `CopyTranscript` or
`ClaimRow`, `SubmitJob` / `SubmitRefused` / `SubmitReplyLost`, then `AttachJob` or `FailJob`, and
`PurgeOrphan` when the row went away meanwhile. The finisher, which webhooks and the ten-minute
sweep share, is `ReadTranscript`, `FetchJob`, then `CompleteTranscript`, `FailTranscript` or
`CompletionFails`, and `DeleteProviderCopy`; its writes are predicated on the row id, the job id
and a status in flight, as in `jobs.ts`. `QueuePurge` is the `BEFORE DELETE` trigger and is part
of every deletion. `DrainDelete`, `DrainForget` and `DrainGiveUp` are `drainTranscriptPurges`.
Requests and finishers may die at any step.

*Abstracted.* The text is the run it came from; a correction sets `corrected`. Age has three
values: fresh, older than `QUEUED_STALE_MS`, older than `JOB_TIMEOUT_MS`. The monthly hour cap is
a refusal that may or may not happen. Paragraph and speaker arithmetic is left out. Note that
`transcripts.ts:298-300` says a finished row normally has no job id left; a completed row keeps
it (`CompleteTranscript` does not clear `job`), and deleting such a transcript asks the provider
once more, best effort.

### Notification e-mail

*State.* Per row `state`, `attempts`, `read`, and whether it was created after today's digest
hour; per recipient the mode in force and whether today's digest is claimed; `run[r]`, the
worker's own position with the jobs it has claimed. The provider remembers idempotency keys:
`keys`, and counts in `delivered` how many mails carried each row.

*Actions.* `ClaimInstant` and `ClaimDigests` are the two transactions behind the advisory lock,
one step each; sends, stamps, releases and the un-claiming of a digest day are a step each, so
another run, a preference or a reader may come between any two. `SendEmail` may succeed, be
refused, or be accepted with the answer lost. `RunDies` ends a run anywhere. `Orphans` are the
claims no live run holds; any subset of them may be old enough to be taken back, since
`RECLAIM_AFTER_MS` (ten minutes) is far beyond a run's life (60 s). `NewDay` is the digest hour.

*Abstracted.* A recipient has one category; a muted matter, lost matter access or a deactivated
recipient act like the mode "off". The claim transaction is one step, so a preference saved while
it decides falls before or after it (see the hazard at `notification-email.ts:239`). Saving a
preference and releasing the held rows, and the per-row loop of `recordFailure`, are one step.
The batch size, and the hours between midnight and 07:00 in which no digest is due, are left out:
days are counted from digest hour to digest hour. The provider's memory of keys lasts for ever
for instant mails and, because the day is part of it, until the next digest hour for digests.

### Records requests and their follow-up tasks

*State.* `request` and `task` are the rows, with the columns that decide: status, sent date, side
(lead or matter) and paid fee of a request; status and request of a task. `expense[r]` is the
expense booked from the fee of `r`. `lead` is the stage of the one lead whose requests may be
carried to a matter. `requestLock` and `leadLock` are row locks that the conversion holds between
its statements; `proc[p]` is what a running action read before its transaction.

*Actions.* Each server action is two steps, what it reads first and its transaction:
`SendRead`/`SendCommit` (`markRecordsRequestSent`), `LogRead`/`LogCommit` (`logRecordsFollowUp`),
`StatusRead`/`StatusCommit` (`setRecordsRequestStatus`), `DeleteRead`/`DeleteCommit`,
`FeeRead`/`FeeCommit` (`saveRecordsFee`), `TaskRead`/`TaskCommit` (`setTaskStatus`, `updateTask`),
`CreateRead`/`CreateInsert`. A transaction starts with the lock on the row of its one request, which
nobody else writes, or opens a task for, without that lock; so it is one step. `convertLeadToMatter`
is statement by statement as far as requests go: `ConvertRead`, `ConvertClaim` (stage by
compare-and-set), `ConvertLock` (the requests that are on the lead then), `ConvertReadRequests`
(`findMany`, of the fees to book), `ConvertMove` (`updateMany` of whatever is on the lead by then,
which locks it too) and `ConvertCommit` (the bookings, from the fees read, and the commit, at which
the others see all of it). A request inserted after `ConvertLock` is not locked until the move;
`unlocked` marks it. `UpdateRequest`, `DeleteTask`, `DeclineLead` and the expense's own life
(`InvoiceExpense`, `DeleteExpense`) are single statements. `Closed` and `Opened` are the helpers of
`follow-up.ts`; a status write that reopens a task without `checkFollowUpReopen` leaves a mark
(`revived`), because the code does let it through (see below).

*Abstracted.* Due dates, assignees, letters, the folder and activity notes; `open` and
`in_progress` are one status, as `OPEN_TASK_STATUSES` treats them; the side checks of the pages
are the guards `ScopeWritable`.

### Settlement

*State.* `settlement` is the row with its approval steps and liens; `ask[p]` is a request that was
checked but is not in its transaction yet; `inside` holds who is under the advisory lock and
`saw[p]` the row it read there; `vouched` (history) is the settlement on which the chain was last
completed.

*Actions.* `Receive` is the part before the transaction, `Enter` the lock and the read, and
`Open`, `Update`, `AddLien`, `UpdateLien`, `DeleteLien`, `SetStep` the rest, which writes and
commits; `Abort` rolls back. `Resets` and `LegalMove` are `upsertSettlement`'s rules of when a
save clears the chain and which status follows which; `SetStep` promotes a settlement whose last
step was signed, in the same transaction.

*Abstracted.* Gross, fee and costs are one value, a lien is its amount: the waterfall's arithmetic
decides nothing here.

### Gmail sync

*State.* Google's side is the sequence `hist` of arrivals and label changes; a history id is a
position in it. `token`, `status`, `cursor` are the account's `refreshToken`, `syncStatus` and
`historyId`; `age` is how old `updatedAt`, the claim's heartbeat, is under a claim. `row[t]` is the
thread row with the last message it counts, `stored` the message rows. `job[p]` is what a run
carries: the status to give back, the cursor it started from, the new cursor, the threads still to
do and the one in hand. The threads to do are a set; `NextInLine` is the order in which the code
takes them, as history names them or newest mail first as they were listed. `torn` and `leftOut` are
history: threads whose import broke off between the row and the messages; threads that a pass left
to "Load older emails", being beyond the first import's age or cap or unknown and older than
everything local, and that no row has been brought up to date for since.

*Actions.* A pass is `ListMailbox` (the sweep's or the button's query), `LoadAccount`, `Claim` (the
compare-and-set on `syncStatus` and `updatedAt`), then `ReadHistory`, or `HistoryExpired`,
`ReadProfile` and `ListThreads`; then per thread `FetchThread`, `WriteRow`, `WriteMessages`, or
`RejectThread` for data the import cannot store; then `FinishPass`, which writes status and cursor
in one conditional statement. `backfillEmailAccount` is `StartBackfill` ... `FinishBackfill`,
without a claim; its end, good or bad, writes the account row (`finishBackfill`, or the note in the
catch clause, `gmail-sync.ts:785-792`) and so makes a claim it does not own look alive:
`FinishBackfill` and `GiveBack` set `age` to 0. `FailTransiently`, `AbortAllFailed` and `FailAuth`
are the catch clauses, `Die` the end of the function. `Disconnect`, `Connect` (OAuth callback),
`RecordAuthError` (write-back or calendar) and `CalendarPull` are the other writers of the account.
`Tick` lets five minutes pass; a pass lives no longer (`maxDuration = 300`) and a claim is stale at
`age = 2` (`SYNC_CLAIM_STALE_MS`, ten minutes).

*Abstracted.* `lastSyncAt` is written with `historyId` and a catch-up lists from a day before it,
so it is folded into `cursor`. Flags, labels, parsing, matching and attachments are left out, as
are threads deleted at Google, the token refresh's own write of the account, page tokens, the
sweep's order and time budget, the text of the `syncError` notes (that writing one renews the claim's
age is modelled), and threads of junk or drafts only, which `syncOneThread` and `upsertThread` leave
out. The token refresh's write, about once an hour, renews the age as well and is left out with the
rest of it. A thread count below `FullCap` is assumed
while a first import is being repeated.

### Invoice filing

*State.* `status` is the invoice's; `docs` are document rows, with the key of their stored file and
whether they belong to the invoice; `store` says what is stored under a key: nothing, a PDF, a
stamped one. `req[p]` is where a request is and what it carries. `voided`, `stray` and `late` are
history: what the void found, filed and could not do; keys that a failure left behind; keys that a
copy brought back when nothing pointed at them any more.

*Actions.* `SendInvoice`, `RecordInvoicePayment` and `ResendInvoiceEmail` end with filing a copy:
`StoreFiled`, `FileRow`, and `DropNew` when the row could not be written. `VoidInvoice` is the first
read, `CountFiled` the preparation (count the copies, render one if there is none), `CheckVoid` and
`ClaimVoid` are `setInvoiceStatusUnchecked`, `CountLate` the count of an invoice that was sent
meanwhile, then `stampFiledInvoicePdfs`: `ListFiled`, and per copy `StampFiled`, `SwapKey`,
`CheckOld` and `DeleteOld`, or `DropNew`. `SetInvoiceStatus` is the void of the page that shows an
approved invoice: it stamps nothing. `CopyDocumentToFolder` and `InsertCopy`, `DeleteDocument`,
`DeleteRow`, `CheckOld` and `DeleteOld` are the document actions. `RequestDies` ends a request
anywhere; it stands too for a failure that the code answers by giving up the rest.

*Abstracted.* What a PDF says: one rendered after the void reads "nothing due", but is not stamped.
A database write that fails is taken as not applied: a commit whose answer is lost ends in the same
catch clauses (`invoice-filing.ts:77-79`, `void-filing.ts:68-71`), where the undo would delete bytes
that a row points at, and is not modelled. E-mails, the Invoices folder, names and the activity log
are left out. The status decides as in `Billing`, with `partial` and `paid` as one. Only invoice
documents and their copies are there, and no e-mail that was sent with one of them attached.

## Runs

Every property of a passing run is also checked against a mutant of the code (in
`PROJECT.json`, `mutants`): a definition changed the way a plausible bug would, after which TLC
must find the property violated.

| run | module / config | expected | distinct states | checks |
|---|---|---|---|---|
| `billing_money` | `MCBillingMoney` / `MCBillingMoney.cfg` | pass | 271,618 | `TypeOK`, `TrustBalanceIsLedger`, `PaidIsSumOfPayments`, `StatusTellsPayments`, `SnapshotsAreCurrent`, `NoDeadlock`, `RefinesReceivables` |
| `billing_lines` | `MCBillingLines` / `MCBillingLines.cfg` | pass | 643,395 | `BilledIffLinked`, `InvoiceHasLines`, `FrozenOnceApproved`, `ApprovedTotalWasShown` |
| `transcription` | `MCTranscription` / `MCTranscription.cfg` | pass | 499,705 | `TypeOK`, `EveryCopyIsTracked`, `CompletedShowsLatestRun`, `AttachedRunsSettleThemselves` |
| `transcription_live` | `MCTranscription` / `MCTranscriptionLive.cfg` | pass | 26,962 | `RunsSettle`, `CopiesAreDeleted` |
| `email` | `MCNotificationEmail` / `MCNotificationEmail.cfg` | pass | 565,643 | `TypeOK`, `ClaimsAreExclusive`, `SentMeansDelivered`, `DuplicatesNeedMishaps`, `DayClaimIsEarned` |
| `email_live` | `MCNotificationEmail` / `MCNotificationEmailLive.cfg` | pass | 75,428 | `NoticesSettle` |
| `records` | `MCRecordsRequests` / `MCRecordsRequests.cfg` | pass | 1,451,219 | `TypeOK`, `OneFollowUpPerRequest`, `ClosedRequestsAreNotChased`, `OneRollPerCompletion`, `PaidFeeIsBookedOnce` |
| `settlement` | `MCSettlement` / `MCSettlement.cfg` | pass | 292,067 | `TypeOK`, `ApprovedMeansSigned`, `AmountsAreVouched`, `CompleteChainIsPromoted`, `FrozenOncePaid` |
| `gmail` | `MCGmailSync` / `MCGmailSync.cfg` | pass | 4,163,357 | `TypeOK`, `NothingFallsBetween`, `DisconnectedStays` |
| `gmail_live` | `MCGmailSync` / `MCGmailLive.cfg` | pass | 460,708 | `CatchesUp` |
| `gmail_claim` | `MCGmailSync` / `MCGmailClaim.cfg` | violation | 10,204 | `CatchesUp` |
| `filing` | `MCInvoiceFiling` / `MCInvoiceFiling.cfg` | pass | 1,689,387 | `TypeOK`, `BytesAndRowsAgree`, `FiledCopiesAreStamped` |

*Invariants and steps that the passing runs check.*

- `billing_money`: `TrustBalanceIsLedger`, `PaidIsSumOfPayments`, `StatusTellsPayments` relate
  each cached number or status to the rows it summarises. `SnapshotsAreCurrent` is the reason
  they hold: what was read under a lock is still true at the write, although void, approve and
  trust requests take their locks in other orders or not at all. `RefinesReceivables` is the
  refinement. One matter, two invoices, two expenses and two requests: enough for two invoices to
  compete for one trust balance, for two payments to race on one invoice, and for a payment to
  race a void. Amounts up to 3 give a full, a partial and an excessive payment. `NoDeadlock`
  is the rule of `helpers.ts` that every transaction locks invoices before matters: no set of
  requests wait for one another's row locks. Its mutant is a delete that locks the matter first;
  against a payment of the same invoice that is a cycle.
- `billing_lines`: `BilledIffLinked`, `InvoiceHasLines`, `FrozenOnceApproved`,
  `ApprovedTotalWasShown`. Two matters with one line each make two
  mints compete for one number; two invoices let a line be released and billed again.
- `transcription`: two documents with one stored recording, two requests, two finishers and a
  deletion. `EveryCopyIsTracked` is the privacy promise of ADR-062 as an invariant: a copy the
  provider holds is always in somebody's hands. `CompletedShowsLatestRun` and
  `AttachedRunsSettleThemselves` are about late answers.
- `transcription_live`: with a death, a lost reply or a given-up purge, `RunsSettle` and
  `CopiesAreDeleted`. Fairness: requests and finishers go on until they end or die, the sweep
  keeps coming (strong fairness of `ReadTranscript`, since finishers are busy now and then), time
  passes, a queued purge is tried until it works.
- `email`: two overlapping runs, two notices, one death, one lost reply, one mode change.
  `ClaimsAreExclusive`, `SentMeansDelivered`, `DuplicatesNeedMishaps`, `DayClaimIsEarned`.
- `email_live`: `NoticesSettle`. Fairness: the cron starts a run every five minutes, a run goes
  on until it ends or dies, sends and digest claims are not put off at the same place for ever
  (e-mail is configured and the time budget allows at least the first send of each run), days
  pass. One run at a time is enough: the runs of the safety instance overlap, and progress comes
  from any of them.

- `records`: two actions race on one request, three task rows and one lead; the
  statuses asked for are those that open, close and reopen a chase. `OneFollowUpPerRequest` and
  `ClosedRequestsAreNotChased` need the request's lock before the task's in every action;
  `OneRollPerCompletion` is the conditional update that marks a task done; `PaidFeeIsBookedOnce`
  is the fee against the conversion's locks, without which a fee saved between the read and the move
  is lost. Tasks that a status write reopened unchecked, and requests that the conversion had not
  locked, are excepted by name.
- `settlement`: two actions, two steps, two amounts, liens, and any request and permission.
  `ApprovedMeansSigned` and `AmountsAreVouched`: an approved, disbursed or closed settlement has
  every sign-off, given on the numbers it carries. `CompleteChainIsPromoted`: of two last
  approvers one promotes. `FrozenOncePaid`: money that went out is not edited without a reopening.
  Deadlock is checked.
- `gmail`: two passes, one of which may be a backfill, two threads, three records of history, one
  mishap (death, failure, refused credential, disconnect, reconnect during a pass). A cap of 1 makes
  a catch-up and a backfill stop early. `IncrementalMax` and `FullCap` do not bind with two threads;
  what follows an overflow is reached through `HistoryExpired`, which is free and takes the same
  way. `NothingFallsBetween`: a message the cursor has passed is stored or being stored, or its
  thread will be looked at again, or was left to the backfill (`leftOut`), or was rejected, or is
  torn. Two passes overlap only when a reconnect ends the claim of a living one; then one may set a
  thread's row, or the cursor, back to an older one, which the property allows for: it speaks of the
  cursor as it is. `DisconnectedStays`: no late pass, failure or refused credential revives a
  disconnected mailbox.
- `gmail_live`: `CatchesUp`, for one pass, a backfill and one mishap, without the calendar scope.
  Fairness is weak: the cron lists the mailbox again and again, a run that is alive goes on, time
  passes. Nothing is assumed about Google beyond answering; the history may expire at any time. The
  property supposes that in the end the owner's backfills stop: they are a person's clicks, and each
  end renews the age of a claim. Without that TLC finds backfills of a rejected old thread that keep a
  dead claim fresh for ever, which is what ADR-031 concedes of account writes that are not the run's.
- `gmail_claim` is the same property with the calendar scope; see *Disagreements*.
- `filing`: two requests, three document rows, four stored files, one failed call or death.
  `BytesAndRowsAgree`: no row loses its bytes to somebody else's deletion, stamp or undo, and no
  bytes are left that neither a row nor a request has. Excepted by name are a copy inserted after
  the last row with its file went (`late`, see *Disagreements*), failures, and a row deleted while
  its file was being swapped (`stray`): `deleteDocument` cleans up after the file it read.
  `FiledCopiesAreStamped`: a void that found copies leaves every copy filed before it stamped,
  deleted or reported. `TypeOK` says too that no PDF is stamped twice. The instance also passes
  with three requests without failures, and with three requests and two rows with one.

*Bounds.* `MaxMoney`, `Hours`, `Rates`, `ExpenseAmounts`, `NumberAttempts = 2` (5 in the code),
`MaxAttempts = 2` (3 in the code), `FullCap`, `CatchUpCap`, `BackfillCap`, `IncrementalMax`,
`AllFailedMin` (200, 1000, 200, 200 and 3 in the code), `Old`, `MaxHistory`, `MaxMishaps`,
`MaxDocs`, `MaxKeys`, `MaxFaults`, `MaxDeaths`, `MaxLost`, `MaxChanges`, and the sets of rows and
processes. Row identifiers are used at most once, which bounds how often something is created
(`RoomToMint`). Two of a kind suffice for the races here because every guard in the code concerns
one row and one other writer; the proofs below remove the bounds for the money properties. Symmetry
is used in safety runs only, on requests, invoices, expenses, documents, finishers, runs and mail
threads, none of which the specifications order or name. `CHECK_DEADLOCK FALSE` is set where an
instance may run out of row identifiers and really stop.

## Proofs

`BillingProofs` proves, for any number of requests, matters, invoices, entries and expenses and
any amounts, from `BillingAssumption` alone (the sets are typed, the identifiers of invoices are
finitely many, `None` is none of the values):

| Theorem | Statement |
|---|---|
| `Invariance` | `Spec => []IInv`, the inductive invariant |
| `TypeCorrect` | `Spec => []TypeOK` |
| `TrustBalanceStaysLedger` | `Spec => []TrustBalanceIsLedger` |
| `PaidStaysSumOfPayments` | `Spec => []PaidIsSumOfPayments` |
| `StatusAlwaysTellsPayments` | `Spec => []StatusTellsPayments` |
| `SnapshotsStayCurrent` | `Spec => []SnapshotsAreCurrent` |

*The invariant.* None of the money properties is inductive: `PayCommit` writes
`paid = r.row.paid + r.amt` from what the request read, and `trustBalance = r.bal - r.amt`. So
`IInv` is `TypeOK /\ MoneyOK /\ RowsBegun /\ RequestsOK`: the money properties, that a row
identifier not yet used carries nothing, and of every running request the type of its record
(`RequestOK`) and what it knows (`Holds`): which locks it has, and that the rows it read under
them are unchanged.

*The argument* is rely and guarantee. `Rely(q)` says what a step of another request leaves alone
for `q`: its record, its locks, the invoices and the trust balances it has locked, and that an
invoice that exists goes on existing with its kind. `RelyKeeps` shows that `q` then knows after
the step what it knew before. `Guarantee(p)` says that a step of `p` establishes the global parts
of `IInv'` and `p`'s own part, and gives every other request its `Rely`; `GuaranteeKeeps` concludes
`IInv'`. So each action is proved for its own request only, in a lemma per operation
(`PayLockSteps`, `PayCommitStep`, `MintCommitStep`, ...). `PaymentTaken` and `TrustMoved` are
shared by payments and sends: they turn what the request knows into the arithmetic of the rows it
writes. `Abort` drops the locks of one request and touches no other's.

`BillingLinesProofs` proves, from the same assumption and `Invariance`, what `Billing` says of lines
and locks:

| Theorem | Statement |
|---|---|
| `LinesInvariance` | `Spec => []LInv` |
| `LinesStayLinked` | `Spec => []BilledIffLinked` |
| `InvoicesKeepLines` | `Spec => []InvoiceHasLines` |
| `NeverDeadlocked` | `Spec => []NoDeadlock` |
| `ApprovedStaysFrozen` | `Spec => FrozenOnceApproved` |
| `ApprovedWasShown` | `Spec => ApprovedTotalWasShown` |

`LInv` adds to `IInv` what a request knows of the lines in its hands (`Knows`, `LineHeld`: a mint's
lines are its matter's and not none, a line edit's line is still on the invoice it has locked, an
approval's total is the one shown) and at which places a request may hold a lock (`LocksOK`). A
step moves rows in one of five ways (`WipEdit`, `StatusMove`, `LinesReleased`, `LinesTaken`,
`LineRewritten`). `MovesKeepLines` proves the two invariants and the two action properties once for
each way, and the lemma of each action shows which way it is.

`NeverDeadlocked` follows from `LocksOK` alone. By `WaitersHoldLittle`, who holds a matter waits for
nothing, and who waits for an invoice holds no invoice. In a set of requests that all wait for one
another nobody can wait for a matter, then; so one waits for an invoice, whose holder waits for an
invoice too, and that is impossible.

The last theorem of `BillingProofs` is `BillingImplementsReceivables`: `Spec => RefinesReceivables`.
Initial states map to initial states; `TrustCommit` is `Transfer`, `SendCommit` is `Issue`,
`PayCommit` is `Collect`, the void of a client invoice is `Cancel`, and every other step leaves the
accounts and the trust balances as they are. What makes the commits legal steps of `Receivables`,
though they write from what they read, is `Holds` of `IInv`.

`SettlementProofs` proves, for any number of actions, approval steps, amounts and liens, from
`SettlementAssumption` (there is a step, amounts are positive):

| Theorem | Statement |
|---|---|
| `Invariance` | `Spec => []IInv` |
| `TypeCorrect` | `Spec => []TypeOK` |
| `SignedOffIsSigned` | `Spec => []ApprovedMeansSigned` |
| `AmountsVouched` | `Spec => []AmountsAreVouched` |
| `PaidIsFrozen` | `Spec => FrozenOncePaid` |
| `CompletionPromotes` | `Spec => CompleteChainIsPromoted` |
| `EditorsKeepSignOffs` | `Spec => SignOffsFallToApprovers`: a save wipes sign-offs only for somebody who may approve |

The argument is the advisory lock. `SawCurrent` says that who is inside saw the settlement as it
still is, so a check made on what was read is true of what is overwritten. `AmountsAreVouched` is
not inductive, since a complete chain survives a reopening: `ChainVouches` says that a complete
chain, whatever the status, was completed on the amounts in the row; `Resets` is what keeps it.
`Unopened` says that nothing is signed before there is a settlement. The action properties follow
from the invariant one step at a time. `SignOffsFallToApprovers` is proved only, no run checks it.

`NotificationEmailProofs` proves, for any number of runs, notices and recipients and any budget of
deaths and lost answers, from `NotificationEmailAssumption`:

| Theorem | Statement |
|---|---|
| `Invariance` | `Spec => []IInv` |
| `TypeCorrect` | `Spec => []TypeOK` |
| `ClaimsHold` | `Spec => []ClaimsAreExclusive` |
| `SentIsSent` | `Spec => []SentMeansDelivered` |
| `DuplicatesAreMishaps` | `Spec => []DuplicatesNeedMishaps` |
| `DaysAreEarned` | `Spec => []DayClaimIsEarned` |

The invariant adds to the four properties what a run carries (`RunsOK`: its rows are apart, its
digests are for different recipients), what it knows (`SendsOK`: who is about to stamp has sent, and
a key the provider knows stands for mail that went out), that a row which can be tried has an
attempt left (`AttemptsOK`), and the strengthening of `DuplicatesNeedMishaps` (`OpenRowsOK`): a row
that is neither settled nor about to be stamped was carried by no more e-mails than there were
mishaps, so one more e-mail still fits the bound. A step of a run is about the rows in its own
hands, which by `ClaimsAreExclusive` no other run has: `QuietStep` is a step of a run that sends
nothing, `SendStep` one that sends, `OutsideStep` one of readers, preferences and the clock. Each
action's lemma shows that it is of one of the three forms.

`TranscriptionProofs` proves, for any documents, requests, finishers and deleters and any budget of
deaths, lost replies and abandoned purges, from `TranscriptionAssumption`:

| Theorem | Statement |
|---|---|
| `Invariance` | `Spec => []IInv` |
| `TypeCorrect` | `Spec => []TypeOK` |
| `CopiesAreTracked` | `Spec => []EveryCopyIsTracked` |
| `LatestRunIsShown` | `Spec => []CompletedShowsLatestRun` |
| `RunsSettleThemselves` | `Spec => []AttachedRunsSettleThemselves` |

What the three properties lack is `RowsKeepTheirRun`: in flight, the secret in the row is that of its
run, and nobody has settled that run; settled, there is no secret; a job id in the row is the run's,
and by then the request of that run has ended. So a write predicated on row id, job id and status in
flight, as `jobs.ts` has it, hits the run its finisher read and no later one (`RowSettled`), and the
only step that takes a job id out of a row in flight leaves the copy in that finisher's hands, or in
the queue (`RowGone`, the trigger). Steps are proved by what they do to rows: `SameRows` writes none,
`RowSettled` settles one, `RowGone` deletes one, `RowTouched` changes age or text only.
`CopiesGo` is for the steps at the provider, which move copies towards deletion.

`RecordsRequestsProofs` proves, for any number of actions, requests, tasks and fees, from
`RecordsAssumption`:

| Theorem | Statement |
|---|---|
| `Invariance` | `Spec => [](IInv /\ Moves)` |
| `TypeCorrect` | `Spec => []TypeOK` |
| `FollowUpsAreSingle` | `Spec => []OneFollowUpPerRequest` |
| `ClosedStayUnchased` | `Spec => []ClosedRequestsAreNotChased` |
| `CompletionsRollOnce` | `Spec => []OneRollPerCompletion` |
| `FeesAreBookedOnce` | `Spec => []PaidFeeIsBookedOnce` |

`Sound` is stated for a function of tasks, not for the variable, because a transaction builds its
tasks in stages (the old one is closed, then another opened): `ClosedSound`, `OpenedSound` and their
like say what each helper keeps, and an action's lemma composes them. What `OneFollowUpPerRequest`
lacks is that a task an action has read is still its request's, or nobody's, when the action writes,
and that tasks belong to requests that exist. `FeeInv` says that an expense counts as booked exactly
while it is linked, which no request on the lead is. `Moves` is what `PaidFeeIsBookedOnce` lacks for
the conversion: a request it found at its locks is still on the lead, still locked by it and has the
fee it read, until it commits (`MovesStay`); a request it moves without having found it there is
`unlocked`.

`InvoiceFilingProofs` proves, for any number of requests, rows, stored files and faults, from
`InvoiceFilingAssumption`:

| Theorem | Statement |
|---|---|
| `Invariance` | `Spec => []IInv` |
| `TypeCorrect` | `Spec => []TypeOK`; in particular no PDF is stamped twice |
| `RowsAndBytesAgree` | `Spec => []BytesAndRowsAgree` |
| `VoidStampsWhatItFound` | `Spec => []FiledCopiesAreStamped` |

The argument is who owns a key. A key that was just made is known to one request, and no row has it
(`NewKeysAreOwn`), so its undo takes nobody's bytes, and a swap gives the row a file that is still
there. A key that was found without a row can get one again only from a copy that read it before
(`GoneKeys`, the exception `late`). `Numbered` is what makes a new key new. For the stamps,
`OneVoid` says that one void at most ever gets through, since the claim is the only step into
"void"; so nothing is stamped when its copies are listed, and what is on its list stays unstamped
until its turn. `Progress` says that each copy filed before the void is stamped, deleted, reported
or still to come. Lemmas say what a kind of step keeps (`QuietBytes`: moves no row and no byte;
`StoreBytes`, `RowBytes`, `DroppedBytes`, `RekeyedBytes`; `VoidKept`, `ProgressKept`), and each
action's lemma shows that it is of that kind.

`GmailSyncProofs` proves, for any number of threads, passes, backfills and mishaps, a history of any
length and any caps, from `BoundAssumption` (the history may have a message, bounds are naturals):

| Theorem | Statement |
|---|---|
| `Invariance` | `Spec => []IInv` |
| `TypeCorrect` | `Spec => []TypeOK` |
| `NoGap` | `Spec => []NothingFallsBetween` |
| `RowsCountHeldMail` | `Spec => []RowsAreBacked`: a row counts no message that is not stored, being stored, rejected or torn |
| `OnlyOwnerReconnects` | `Spec => DisconnectedStays` |

`NothingFallsBetween` is not inductive: a pass that ends makes the position at which it read the
history the cursor, whatever the cursor is by then. So each run answers for its own window.
`Covered(n, S)` says that the mail up to `n` is held, or its thread is due beyond `n`, was left out,
or is in `S`; `WorkOK` says of a run that this holds of the cursor it read, with nothing in `S`, and
later of the position it will write, with the threads it still has to do in `S`. `CoveredStays` is
the lemma that carries the proof: held mail stays held (`HeldStays`), a thread that is due beyond `n`
stays due, and a thread ceases to be left out only when all its mail is held (`Advances`); so a run's
`Covered` outlives every step of the others, and the conditional end of a pass needs no claim that is
still its own. That is why a stolen claim, or a cursor set back, costs work and no mail.
`RowsAreBacked` is what lets a catch-up skip a thread whose row is up to date. `DisconnectedStays`
follows from `CredentialsOK` (no token while disconnected) one step at a time. A step of a run that
moves no row is a `RunStep`, one of the account an `AccountStep`; `WriteRow`, `WriteMessages` and
`Change` are the other three.

TLC checks each of these inductive invariants on the instance of the safety run of its module as
well; they were found that way before they were proved. `GmailSync` keeps the threads to do as a set
and defines their order, where a sequence would be as faithful, because what a sorting operator
returns cannot be proved without induction over data.

*Only model-checked:* liveness (`RunsSettle`, `CopiesAreDeleted`, `NoticesSettle`, `CatchesUp`),
which is out of the prover's reach, and that some step is always possible (TLC's own deadlock check;
that row locks never close a cycle is the theorem `NeverDeadlocked`). Every invariant and action
property of the passing runs is a theorem.

## Disagreements with comments and tests

TLC prints a shortest behaviour for each of these. `gmail_claim` is a run, and `PROJECT.json`
(`findings`) quotes its lines; the others are kept as configurations that can be run the same way.

1. `gmail_claim` - a claim older than ten minutes is treated as a crashed run, and ADR-031 says
   that crashed runs recover without a lock table. The age is the account row's `updatedAt`. On a
   mailbox with the calendar scope the calendar pull, five minutes apart by cron and not stopped by
   `syncing`, updates that row, so after one death under a claim the mailbox is never synced again
   until its owner reconnects. The ADR concedes that an account write that is not the run's extends a
   stale claim (line 19); here the extensions never end. `gmail_live` shows that the calendar is the
   cause.
2. `MCGmailTorn.cfg` (`MCGmailSync`) - skipping a thread after a failure that may pass is said to
   advance the cursor past mail that was never stored, and therefore not done. A thread's row is
   written before its messages, without a transaction; when the import breaks off in between and the
   retry is a catch-up, the row looks current, the thread is skipped and the cursor passes the mail.
3. `MCBillingTotals.cfg` (`MCBillingDrift`) - `linkWipToInvoice` is said to make it impossible that
   a total disagrees with its lines. It re-checks that the rows are unbilled, not that their
   amounts are those summed: an expense edited between the mint's read and its commit is linked
   with the new amount.
4. `MCBillingAmounts.cfg` (`MCBillingDrift`) - the schema says whoever sets hours keeps
   `amount = hours x rate`. An edit that read an entry before it was billed, rated and released
   computes from the old rate.
5. `MCTranscriptionStale.cfg` (`MCTranscription`) - a stale claim without a job id is said never to
   have reached the provider. A request that dies after the submit and before the write of the job
   id leaves one whose copy the provider keeps.
6. `MCTranscriptionConsent.cfg` (`MCTranscription`) - a run over corrections is said to need
   confirmation. The check is on a row read before the claim, and a correction saved in between is
   not seen.
7. `MCNotificationEmailDeath.cfg` (`MCNotificationEmail`) - a dead run is said to cost at worst one
   duplicate, of the row in flight. A digest that was sent and not stamped goes out again the next
   day, with all its rows, under a key that holds the new day.
8. `MCRecordsChase.cfg` (`MCRecordsRequests`) - "at most one open task per request"
   (`follow-up.ts:2-3`). A task in review that is set to open again is not a reopening for
   `setTaskStatus`, and does not look for another open one.
9. `MCRecordsStranded.cfg` (`MCRecordsRequests`) - conversion is said to re-home every record of the
   lead (`record-scope.ts:9-10`). A request whose creation was checked before the conversion and
   inserted after it stays on the converted lead, where it is read-only.
10. `MCRecordsFees.cfg` (`MCRecordsRequests`) - a fee save in flight is said to commit before the
    conversion books, or to wait and find the request on the matter (`leads.ts:517-519`). A request
    inserted after the conversion's locks is not locked: its fee, saved between the conversion's
    read and its move, is on the matter with no expense until somebody saves it again.
11. `MCSettlementLiens.cfg` (`MCSettlement`) - once a settlement is approved the sign-offs are said
    to vouch for the liens too (`settlements.ts:326-328`). After a reopening the chain stays
    complete, a lien may change, and approving again needs no new sign-off; for amounts the same
    path clears the chain.
12. `MCInvoiceFilingVoid.cfg` (`MCInvoiceFiling`) - voiding an invoice that was sent is said to stamp
    the filed PDFs, or to file a stamped copy when none exist (`lifecycle.ts:217-218`). The copies
    are counted before the void: a copy that a send files between the count and the void is neither
    stamped nor reported. A copy filed after the void stays unstamped as well, and
    `setInvoiceStatus`, which the page of an approved invoice calls, stamps nothing if the invoice
    was sent since the page was loaded.
13. `MCInvoiceFilingBytes.cfg` (`MCInvoiceFiling`) - a copy is said to keep the shared bytes when the
    other row is deleted (`documents.ts:237-239`). A deletion that completes between the copy's read
    and its insert leaves a row without bytes.
14. `MCGmailStranded.cfg` (`MCGmailSync`) - "unknown threads older than the current frontier belong to
    backfill" (`gmail-sync.ts:537-539`). A backfill has fetched an old thread; new mail comes into
    it, and newer mail into every local thread, which an incremental pass brings in; it leaves
    the unknown thread out, as older than everything local. Then the backfill writes its older fetch: the
    thread is known now, lacks its last message, is not due, and no backfill lists it. It takes a
    mailbox with few local threads.

Billing's void and delete paths, the lock orders of payments and sends, the webhook races, the
outbox's claims and the approval chain were checked for the same kind of thing and hold.

## Not modelled

Components without a module are in `PROJECT.json` with the reason. In short: uploads, drafts and
attachments share stored bytes as invoice copies do, and are left; calendar sync needs a model of
Google's side as large as ours (two edits push after their commits, so the older may land last);
walls, roles, leads (but for what conversion does to records requests), contacts and portal sign-in
are single transactions or single conditional statements whose argument is the database's own;
templates, search, reports, parsing and pages are data and presentation, and make up most of the
source.

Of the modelled components: billing leaves out moving an entry to another matter; invoice filing the
e-mails and every document that is not a copy of the invoice; Gmail leaves out write-back to Google,
flags, and the refresh of an access token, which writes the account row without a condition and may
leave a short-lived token in a disconnected one.

## Plan

In order, each with its abstract promise, its runs and what is worth proving:

1. **Done**: `Billing` with `Receivables`, `Transcription`, `NotificationEmail`,
   `RecordsRequests`, `Settlement`, `GmailSync`, `InvoiceFiling`.
2. **Done**: every safety invariant and action property of the passing runs, for instances of any
   size, by inductive invariants, and the refinement of `Receivables`.
3. Uploads, drafts and attachments as further owners of stored bytes in `InvoiceFiling`; the portal's
   batch of uploads against a staff transition; calendar replication with a model of Google's side.

New modules get one safety run each; the liveness questions of one module share a run.

## Running it

    tlasany Billing.tla                                   # parse
    tlc -workers 2 -config MCBillingMoney.cfg MCBillingMoney
    tlapm BillingProofs.tla                               # the largest proof modules take minutes

The pairs of module and configuration are the `runs` of `PROJECT.json`.
