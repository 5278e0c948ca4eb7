# Metal-ERP in TLA+

Metal-ERP is a web application for small metal shops: invoices, orders, payments and
purchase bills live in a FastAPI backend on PostgreSQL, and a Windows agent in the shop
carries them into TallyPrime, the accounting program. These modules specify the parts of
it where several actors change one state, or one actor may be stopped half way: the push
of vouchers into Tally, the shop's invoices, orders and payments under concurrent
requests, the agent's replacement of itself and its backups, the sending of items, the
refresh from Tally, and suppliers' bills. TLC checks them on small instances and TLAPS
proves the main theorems for every size.

Contents: [the system](#the-system), [the plan](#the-plan),
[voucher push](#voucher-push-tallypush), [shop book](#shop-book-shopbook),
[self-update](#self-update-agentupdate), [backups](#backups-backupsync),
[item push](#item-push-itempush), [refresh](#refresh-from-tally-refill),
[inward bills](#inward-bills-inwardbill), [runs](#runs), [bounds](#bounds),
[fairness](#fairness), [proofs](#proofs),
[findings](#findings), [not modelled](#not-modelled).

## The system

| Component | State it keeps | Operations | Hard behaviour | Correct when |
|---|---|---|---|---|
| **Voucher push, backend** (`services/tally/jobs.py`, `push.py`, `voucher_check.py`, `receipts.py`, `agent_health.py`, `routers/tally_agent.py`, `tally_self_serve.py`) | `tally_sync_jobs`, `agent_outbox_items`, `tally_link`, the shop's last checkin and last Tally status | a person asks for a push; checkin hands jobs over; results and "not ready" reports come in; a job without news is given up | requests, checkins and results interleave; the agent can vanish with a job; a result may come after the job was given up | a document gets one voucher, one job at a time, nothing posted is forgotten, nothing false is shown as pushed, a retry ends |
| **Voucher push, Windows agent** (`TallyAgentService.cs`, `TallyMastersModule.cs`, `AgentContext.cs`, `BackendClient.cs`, `CompanyCheck.cs`) | jobs held in memory, the last checkin's outbox list, first-seen times, a fast-cycle flag | a round over the held jobs, then a checkin | restart loses everything; Tally answers late, wrongly or not at all; Tally is closed or has another company open | never posts what the backend has withdrawn |
| **Invoice lifecycle** (`routers/invoices.py`, `services/invoices/finalize.py`, `common.py`, `db.py`) | invoices with status, number and frozen total; `number_sequence` | create, duplicate, save, delete, finalize (cancel always refuses) | finalize and delete read their row without a lock; numbers are claimed behind one | numbers gap-free and unique; a final invoice permanent |
| **Payments** (`routers/payments.py`, `services/payments.py`, `models/payment.py`) | payments, allocations, the voucher series | record (lock each invoice, check its balance), reverse | two payments over the same invoices; deadlock; rollback | an invoice is never overpaid; vouchers gap-free; every request ends |
| **Orders** (`services/orders.py`, `routers/orders.py`) | order status and the draft made from it | place, accept, reject, edit, make invoice | steps read without a lock; finalize and delete change the order too | an order is billed once; status agrees with its bill |
| **Agent self-update** (`UpdateCoordinator.cs`, `UpdateSwapper.cs`, `ReleaseVerifier.cs`, `TallyAgentService.cs`, `agent_release.py`) | files of the install folder and of `app.prev`, `update-state.json`, a pending failure report; at the backend the agent's version, the mark of a failure, the pin and the latest release | offer, download, stage, swap, trial, prove healthy or roll back, report | the process may die between any two file moves, or between a move and the state file; reports and version changes meet in one checkin | a build that cannot run is replaced; a version that failed is not installed again; the agent ends where the operators send it |
| **Backup sync** (`BackupSyncModule.cs`, `AgentStateStore.cs`, `backup_retention.py`) | per-file upload rows; the backups in the cloud | poll, upload, confirm, prune here and there | restart between any two calls; lost answers; Tally writes the files meanwhile | every backup is stored in the end; none is deleted before; the cloud loses whole sets |
| **Item push** (`services/catalog/tally_items.py`, `item_state.py`, `routers/item_tally.py`) | an item's state in Tally, the price sent, the batches of a run | check the stock, start a run; a result queues the next batch | a batch given up may still arrive; prices change meanwhile; partial imports | a run ends, stops at its first failure, and what is shown as sent is in Tally |
| **Refresh from Tally** (`refill_job.py`, `voucher_capture.py`) | the chain of read jobs, the pace learned, the change markers | start a read, apply a result, cut windows | slow answers, lost jobs, changes between reads | every day is read once; no change is passed over; Tally is not overloaded |
| **Company verification, masters pull** (`company_verify.py`, `staging.py`) | verification state, staged masters | jobs sharing the push's table | large pulls, renamed companies | staged data belongs to the verified company |
| **Tax and weighment arithmetic** (`domain/`) | none | pure functions | rounding | totals add up |
| **Inward bills** (`routers/inward.py`, `services/inward/approve.py`, `run_extraction.py`) | bill rows, PDFs and XMLs on a volume | upload, correct, read again, reject, approve | several files in one transaction; files change at once, rows at the commit | the bill, its PDF and its XML belong together; one row per invoice |
| **Web app** (`web/`) | user interface | | | |

How they interact: the web app calls the backend over HTTP; the backend never calls the
agent. The agent polls: each checkin carries its health in, and jobs out; results go
back as separate requests. A finalized invoice, an approved inward bill or a payment
becomes a *push job*. An order becomes a draft invoice, finalizing it marks the order
invoiced, deleting it opens the order again. A payment is allocated to final invoices.
`PROJECT.json` lists every component with its status and every hazard at its line.

## The plan

Order of work, most important behaviour first:

1. **TallyPush** (done): backend job book, heartbeat and agent in one module, since their
   interleaving is the point; `VoucherPromise` is the abstract specification it implements.
2. **ShopBook** (done): invoices, orders and payments as concurrent transactions.
3. **AgentUpdate** and **BackupSync** (done): the two parts of the agent that keep files,
   each with the end of the process between any two steps; `MCAgentHost` composes them.
4. **ItemPush**, **Refill** and **InwardBill** (done), which `MCBackOffice` composes:
   parts of the backend that share no rows.
5. Theorems (done): the invariants of 1 to 4, each in a module of its own
   (`TallyPushProofs`, `ShopBookProofs`, `AgentUpdateProofs`, `BackupSyncProofs`,
   `ItemPushProofs`, `RefillProofs`, `InwardBillProofs`), over `DataLemmas`, the facts
   about sums, greatest elements and rankings they share.

Left for whoever goes on: placing an order with its two-minute duplicate window; two voucher
push requests inside their transactions; a report of an item batch that overlaps its
give-up; overlapping requests on one inward bill; tax rounding
and weighment against a reference definition.

## Voucher push: TallyPush

Pressing "Push to Tally" makes a row in `tally_sync_jobs` and an outbox item. The next
checkin hands it to the agent *once*; the agent keeps it in memory (`_held`), tries it in
every round until Tally is ready, posts it, and reports. When a push may have landed
unheard (`outcome_unknown`), the next request queues a **voucher check** instead: the
agent asks Tally whether the voucher is there, and the backend links it or queues the push
again.

| Model | Code |
|---|---|
| `njobs, kind, entity, status, unknown, waiting, age, outbox` | a `TallySyncJob` row and its `AgentOutboxItem`; `waiting` = `last_agent_status` is a not-ready reason; slots are ordered by creation |
| `linked` | `tally_link` rows |
| `seen, tallyStatus` | `last_checkin_at`, `last_tally_status` of the shop |
| `pc, pending, held, heldAge, todo, cur, answer, pace` | the agent's loop, `ctx.PendingOutbox`, `_held` with `FirstSeen`, the foreach of the round, the result not yet delivered, the fast-cycle flag |
| `posted` | how many vouchers Tally has for the document |
| `PushLinked`, `PushHandsBackCheck`, `PushQueuesCheck`, `PushQueuesPush` | the four outcomes of `enqueue_push_sales` / `enqueue_push_purchase`, give-up included |
| `RequestReceipt` | `enqueue_push_receipt` |
| `BeginRound` … `EndRound`, `PostVoucher`, `RunCheck`, `NotReady`, `StopForCompany` | `TallyMastersModule.RunOnceAsync` and what it calls |
| `ResultCreated`, `ResultError`, `ResultFound`, `ResultAbsent`, `ResultTooLate` | `job_result` with `process_push_result` and `process_check_result` |
| `Checkin`, `SkipCheckin`, `CheckinLost`, `CheckinAnswerLost` | `TallyAgentService.ExecuteAsync`, `checkin` |
| `Restart`, `Tick` | the agent's process; the clocks |

A request of the backend is one transaction, so one action. The agent's round is cut at
each call to Tally or to the backend. `Faults` names what may go wrong in a run:

| Environment | Faults | Meaning |
|---|---|---|
| ready | restart, lost, timeout, refused, check_failed, blocked, slow | Tally is open with the right company; the agent may be arbitrarily slow |
| waiting | not_ready, timeout, refused, check_failed, blocked | Tally is closed at times; the agent is punctual and always reaches the backend |
| any | all ten | |

`NoRef` are bills without a number or date, which Tally cannot be asked about: a retry
posts them again by design, so the one-voucher promises are about `Checked`, the others.

`VoucherPromise` is the abstract view: a document is closed, open or confirmed; Tally saves
a voucher only for an open document and only once; an open document is closed again only
while Tally has nothing. `KeepsPromise` maps `linked` to confirmed, "a live or doubtful
push exists" to open, and requires every step of TallyPush to be a step of the promise
or a stutter.

Simplifications: a document's content does not change after finalize (it cannot; changed
checksums of re-pushed bills are left out); Tally answers an import before it is asked the
next thing; a connection reset while posting counts as never reached Tally, as the agent
counts it; `PollIntervalMinutes` is one, as shipped.

## Shop book: ShopBook

Every HTTP request is one PostgreSQL transaction at READ COMMITTED. A request here loads
what it works on, takes its locks one by one, and commits; its writes are seen at the
commit, and a rollback undoes all of it. A request can be refused, can die at any point
(`Die`), or be chosen by the deadlock detector (`Victim`).

| Model | Code |
|---|---|
| `status, worth, number, total, source` | an `invoice` row: its status, what its lines come to, its number, `grand_total`, the order named in its note |
| `ostatus, obill` | `customer_order.status`, `.invoice_id` |
| `paid, voucher, parts` | `payment.status`, `.voucher_no`, its `payment_allocation` rows |
| `last, seqLock` | `number_sequence.last_value` and who holds the row (`FOR UPDATE`) |
| `rowLock` | who holds an invoice row |
| `tx` | what a request has read and done so far |
| `CreateDraft`, `Save` | `create_invoice`, `duplicate_invoice`, `update_invoice` (locks its row, so one step) |
| `LoadToFinalize`, `ClaimNumber`, `CommitFinalize` | `finalize` and `finalize_invoice` around `_claim_number` |
| `LoadToDelete`, `CommitDelete` | `delete_invoice`, with the orders it opens and the `SET NULL` of allocations |
| `LoadOrder`, `CommitStatus`, `CommitMake` | `accept_order`, `reject_order`, `make_invoice` |
| `BeginPayment`, `Allocate`, `ClaimVoucher`, `CommitPayment` | `create_payment`, one `Allocate` per allocation |
| `Reverse` | `reverse_payment` |

`Overlap` says whether two requests that read one invoice (finalize, delete) or one order
(accept, reject, make) without a lock may overlap. The code lets them. With `FALSE`,
everything holds; with `TRUE`, a finalized invoice is not permanent (see Findings) and, in
the same way, two `make_invoice` requests make two drafts of one order. What holds of
final invoices with `TRUE` as well is `SettledIsPermanent`: once no request is left that
read the draft, the invoice stays as it is. TLC checks it with `FALSE`, `SettledStays`
proves it for both. Payments, saves and numbering overlap freely in both.

Simplifications: one tenant, one customer, one sales series whose row exists already; money
in whole units; money on account touches no invoice and is left out; a draft that could
not be finalized (no party, no lines) is one that has not been saved with a worth yet;
editing an order's lines changes neither its status nor its bill; `cancelled` is left out,
since nothing sets it any more.

## Self-update: AgentUpdate

The backend offers a version at check-in. The agent downloads and tests it, writes a
*staged* plan and exits; the scheduler starts it again and it swaps its own files one by
one: the old ones are moved to `app.prev`, the new ones copied in, the plan becomes
*swapped*, and it exits. The new build is on trial until it has stayed up for 90 seconds;
each start before that is counted, and one start beyond `MaxStartsBeforeRollback` moves the
old files back.

| Model | Code |
|---|---|
| `app, prev` | each file of the install folder and of `app.prev`, by the version it is from |
| `plan` | `update-state.json`; `report` is `update-failure.json` |
| `me, at, offer, ignored, proved` | the process: its version, where it stands, the offer in hand, `ignoredOffers`, `markedHealthy` |
| `known, mark, pin, latest` | `agent_version`, `last_update_status = "failed:..."`, `target_agent_version`, the promoted release |
| `Launch`, `StartIdle`, `StartStale`, `StartSwap`, `StartTrial`, `StartRollback` | the scheduler, and the branches of `OnStartup` |
| `MoveAside`, `CopyIn`, `SwapFails`, `SwapDone`; `Remove`, `Restore`, `RollbackDone`, `RollbackFails` | `UpdateSwapper.Apply` and `Rollback`, one action per file, and what `OnStartup` does after them |
| `MarkHealthy`, `Checkin`, `StageSkipped`, `StageRejected`, `StageLater`, `Stage` | `MarkHealthy`, `checkin` with `update_offer_for`, `StageAsync` |
| `SetTarget`, `Promote` | `set_firm_agent_target_version`, `agent_release.py promote` |
| `Die`, `SwitchOff`, `Crash` | the end of the process: an `Unsound` build's own, the shop's closing, a kill |

`healthy`, `failed` and `cut` are history: what has stayed up here, whether the present
target has failed since it was named, and whether a swap was cut short by a kill or by a
file that would not move. What the code does *not* survive is stated by `cut`:

* A kill in the middle of a swap leaves a plan that still says *staged*. The next start
  that finds a program to run begins the swap again and first deletes `app.prev`
  (`UpdateSwapper.cs:49`), which by then may hold the only copy of the old files. So
  `RecoverableOnDisk` holds until the agent is started again (`cut # "resumed"`), not after.
* A kill between the swap and its note leaves a new build that nothing on the disk knows
  to be on trial; `WatchedUntilProven` is about `cut = "no"`.

Simplifications: what is checked of a download (signature, zip, selftest) is a property of
the version, `Unfit`; an unsound build dies after its `OnStartup`, as one that dies before
it counts no start and is never rolled back by this code; the staged folder is not
modelled; `WriteFailure` and `ClearFailure` always succeed (in the code they are best
effort).

## Backups: BackupSync

A poll lists the watch folder. A file whose size is as at the last look, and whose key (name,
size, time) is neither pending nor confirmed, is uploaded: the row is recorded as pending,
the file is sent, the backend confirms and prunes the cloud, the row is confirmed. Then the
files of all but the newest confirmed rows are deleted here.

| Model | Code |
|---|---|
| `folder, written` | the files; Tally's writes, each a new content |
| `seen, todo, step, busy, key, put` | `_lastSeenSize`, the foreach of the poll, the upload in hand; `put` is what was sent, which need not be what was looked at |
| `row, landed` | `processed_backup` and its confirmed rows by `confirmed_utc` |
| `cloud` | the confirmed `BackupUpload` rows, each with its `uploaded_at`; one content may have two after a lost answer |
| `Poll`, `Look`, `Request`, `RequestFails` | `ProcessLandedFilesAsync`, `upload_request` |
| `Record`, `Put`, `Confirm`, `MarkConfirmed`, `UploadFails` | `UploadAsync` with `AgentStateStore`, `upload_confirm`, `prune_confirmed_backups` |
| `PruneLocal` | `PruneOldLocalCopies` |
| `Restart` | the process, between any two calls |

Tally may write to any file at any time: while it settles, between the look and the sending,
during the upload, after it failed, and after it was confirmed. The agent compares sizes from
one look to the next (`seen`, `SizeOf`), so a rewrite of the same size does not put an upload
off. `rewritten` remembers the names Tally wrote to between the sending of the file and the
end of its upload, or after one of the name was confirmed: for these alone
`PrunesOnlyConfirmed` fails (the run `backup_reused_name`), and `PrunesWhatWasSent` and
`BackupKept` except them. `arrived` remembers every content the backend confirmed.

A row left pending by a restart counts as known for ever (`orphans`), which is why
`EveryFileConfirmed` excepts it. A file that comes after the cloud has dropped its set
(`late`) evicts another set by itself; `BackupKept` excepts such histories.

## Item push: ItemPush

A run sends items in batches, one Tally job each; the report of one queues the next. A
batch that has been silent for ten minutes is given up by whoever looks next. A request for
a run looks whether one is in flight (`preflight`) and inserts its first job later
(`start_run`); nothing locks in between, so two runs may go side by side, and in the model
they do. Everything here holds however many runs there are: `ItemTypeOK` asks for one batch
in flight of each run, not of all of them.

| Model | Code |
|---|---|
| `rate, push, sent` | the item's selling rate; `item_tally_state.status` and `.price` |
| `asked` | what each request has decided to send, between `preflight` and its commit |
| `known, fresh` | `known_stock_items`, and whether it is younger than `STALE_AFTER` |
| `batches` | the `push_items` jobs: status, items with the prices sent, `rest` (the ids behind it), the run, and how far the agent is |
| `tally` | the rate Tally shows |
| `CheckTally`, `GoesStale` | `enqueue_stock_check` to `apply_stock_check` |
| `Preflight`, `StartRun`, `PushFails` | `preflight` without a blocker; `start_run` and the commit; the rollback |
| `EditRate` | `update_item` |
| `Deliver`; `ReportIgnored`, `ReportFailed`, `ReportAccepted` | `checkin`; `process_items_result` |
| `Expire` | `expire_stalled_run` |
| `Import`, `StopAtCompany`, `Lose` | the agent's `ProcessPushAsync` with Tally, which may take a part of the batch or answer too late; `GuardCompanyAsync`; a report lost, the agent's restart or its `RetryWindow` |

`doubtful` are items of a batch that failed or was given up after the agent had it: Tally
may have them without the server's knowing. The next run of such an item collides with its
name there, which `preflight` sees once the stock is checked again.

Simplifications: every item has a name of its own and one price; groups, units, tax codes
and the links the stock check makes are left out; an import of a batch is one step. Giving
a batch up (`expire_stalled_run`) and taking its report (`process_items_result`) each read
`job.status` and write it later without a lock (`tally_items.py:486`, `708`); here each is
one step, so a report and a give-up of one batch do not overlap, and a push that gives a
batch up does so at once, not at its own commit. The agent takes each job once:
the second taking of a finding below (`push_company_stop`) is modelled for vouchers only.

## Refresh from Tally: Refill

| Model | Code |
|---|---|
| `chain` | the jobs of the latest read, each with its step, the steps left, the slow answers so far and `window_days` |
| `recent` | whether a complete read lies within `FULL_EVERY_DAYS` |
| `marker, applied, change` | `_advance`'s marker; what is in our books; Tally's latest change number |
| `Plan`, `Chunks`, `Resize`, `Learned`, `Mode` | `plan_steps`, `_chunks`, `_resize`, `learned_window`, `choose_mode` |
| `StartRead`, `MasterApplied`, `SalesApplied`, `TooSlow` | `start_refill`, `apply_refill_result`, `_after_failure` |
| `AgentReads` | the agent's `ProcessCaptureAsync`, after `checkin` has handed the job over |
| `Fails` | an answer that cannot be read or applied (`refill_job.py:407-413`), an error that is not a slow sales window (463-464), the give-up by the next read (`voucher_capture.py:206`) |

The size noted by a quick last window is its own (`refill_job.py:435`), and the last window of
a span is often the rest of a division. So the pace the next read starts with may
shrink although Tally was quick; reads stay complete, only longer.

Simplifications: the masters' rows are counted by their change number; what each applied
read writes to the books is left out.

## Inward bills: InwardBill

An upload takes several PDFs in one transaction. A file whose supplier and bill number are
already there takes the place of what the earlier row held. Files are written and deleted
at once, rows change at the commit.

| Model | Code |
|---|---|
| `bills, view` | the committed `InwardBill` rows, and the rows as the open request sees them |
| `pdfs, xmls` | the volume |
| `UploadFile` (`Keep`, `Fold`) | one turn of the loop of `upload_bills`, with `run_extraction`, `_find_prior_bill`, `_replace_extraction`, `_drop_bill` |
| `PatchBill`, `ReExtract`, `Reject`, `Approve` | `patch_bill`, `re_extract`, `reject`, `approve_bill` |
| `Commit`, `Fail` | `get_session` |

`torn` are rows whose files a request has changed without committing: when a later file of
an upload is refused, the XML or PDF of an earlier bill is gone while its row is rolled back
(`inward.py:352`). The properties are about the other rows; `byHand` are bills whose number
a reviewer has typed, of which there may be two.

Simplifications: requests are taken one after another (no lock keeps a correction and an
approval of one bill, two uploads of one invoice, or two approvals that make one new
supplier apart; none of these is modelled); the states `uploaded` and `extracting` are
never committed; parties and items made by an approval are left out; the push of an
approved bill is in TallyPush, where its content does not change, although an upload of
the same invoice after its push opens the row again while Tally keeps the voucher.

## Runs

Times are for two workers.

| Run | Environment | Checks | Shows |
|---|---|---|---|
| `push_ready` | ready, one invoice, 6 job slots, 3 faults; 70 000 states | `OneInFlight`, `Accounted`, `AtMostOneVoucher`, `ReadyInv`, `NoPostAfterCancel`, `KeepsPromise` | retries, restarts, losses and give-ups at any pace never make a second voucher nor forget one; the inductive invariant of the proofs holds |
| `push_waiting` | waiting, 4 slots, 2 faults; 104 000 states | `InTimeInv`, `KeepsPromise` | with a punctual agent, a held job is dropped before the backend gives it up, so the promise (no second voucher, none forgotten) is kept with Tally closed too; the inductive invariant of the proofs holds |
| `push_any` | any, 3 slots, 2 faults; 700 000 states | `TypeOK`, `LinkedIsPosted` | nothing false is ever shown as pushed |
| `push_live` | restart, lost, timeout, refused, check_failed; an invoice, a bill without reference and a receipt, 7 slots, 1 fault; 79 000 states | `EventuallyLinked` | every document is linked in the end, with a receipt sharing agent and outbox |
| `shop_book` | 2 requests, 2 invoices, 1 order, 2 payments; 139 000 states | `TypeOK`, `InvoicesGapFree`, `VouchersGapFree`, `NeverOverpaid`, `BilledOnce`, `EveryRequestEnds`, `SettledIsPermanent` | see the comments of the properties |
| `agent_host` | two files, four versions (one unsound, one unfit), two namings of a target, one kill; or three files in two sets, any one of them written twice at any time, one trouble; 283 000 states | `UpdateTypeOK`, `RecoverableOnDisk`, `WatchedUntilProven`, `NoRetryOfFailed`, `BadBuildLeaves`, `ReachesTarget`; `BackupTypeOK`, `BackupKept`, `PrunesWhatWasSent`, `PrunesWholeSets`, `EveryFileConfirmed` | an update cut short or failing at any file leaves a working build, a bad one is rolled back and not taken again, the agent ends where it was sent; it deletes what the cloud was sent and nothing else, unless Tally wrote to it when it was sent, and every file is confirmed in the end |
| `back_office` | two items in batches of one, two who ask for runs, one edit of a rate; or a span of five days with two reads; or three bills and two prints of one invoice; 639 000 states | `ItemTypeOK`, `RowsFollowBatch`, `PriceKnown`, `FirstFailureStopsRun`, `RunEnds`; `DaysCovered`, `TimeoutsBounded`, `MarkerSound`; `SourceKept`, `XmlIsTheBill`, `OneRowPerInvoice` | runs that overlap each keep to their own order and leave no item queued or wrongly priced; for the others see the comments of the properties |
| `push_window`, `push_company_stop`, `push_receipt_wedge`, `shop_double_finalize`, `backup_reused_name` | | one property each, violated | the findings below |

Some definitions begin with "Slip": deliberate mistakes that stand for no code. Each takes
the place of the definition after it in a sensitivity run, one for every property of the
passing runs, and TLC then reports the property violated.

## Bounds

* **Job slots (`MaxJobs`)**: a request needs a free slot, and one slot is kept for every
  live check (`Room`), because a check that finds nothing must be able to queue its push.
  Six slots with three faults let a document go through push, check, push, check, push;
  every further push needs a further fault, since a push ends either linked or at a fault.
* **Faults (`MaxFaults`)**: two are needed for the shortest histories that would break a
  weaker design (a lost result, then a lost check); three go beyond. In `push_any` two
  faults with ten kinds already give 700 000 states.
* **Windows**: the real values are 8 minutes for the agent (`RetryWindow`), 10 for the
  backend (`StuckAfter`), 30 for a silent check (`PullCeiling`) and 5 for "online". The
  ready runs keep their order with 1, 2, 3 and 1 ticks, and lateness does not matter there
  (`slow`). `push_waiting` uses 2, 4, 5, 1 and lets a job be one tick old when it is
  fetched (`Lag`): the windows differ by more than the lag, and the property holds.
  `push_window` has the real values in two-minute ticks (4, 5, 15, 2) and the same
  lag of one tick: they differ by no more than the lag, and it fails.
* **ShopBook**: two requests at once give every pairwise interleaving; two invoices and
  payments of two allocations give the circular wait and the second allocation on one
  invoice; a worth of 2 with allocations of 1 lets two payments compete for the last unit
  of a balance. Invoice and payment rows are never reused, so a behaviour may run out of
  them: this is why the ShopBook configurations switch the deadlock check off. All
  runs of TallyPush check for deadlock.

* **AgentUpdate**: two files are enough for every half-way state of a move, since a file is
  either moved or not; four versions give a good, an unsound, an unfit one and the one
  installed; two namings of a target let an operator move on from a failed one or go back;
  `MaxStarts` is 2 where the code has 4, enough for a counted start that is not the last
  (the theorems are for any limit); one kill reaches every point of a swap and of a trial.
  Nothing happens any more when the bounds are used up, or when the program's own file is
  gone: the deadlock check is off.
* **BackupSync**: three files in two sets give a set that is complete, one that is not, and
  one that drives the other out of a cloud that keeps one. Any one file is written a second
  time (`MaxAgain`), which is what a file that grows, one that changes in mid-upload and one
  whose name is used again need; the two contents of the manifest have one size, those of
  the others differ.
* **ItemPush**: two items in batches of one give a run of two batches; two batches are also
  enough for two runs side by side, and for a second run before a late report of the first;
  two requests are enough for two runs at once. The second batch of a run beside another
  run needs a third: the theorems are for any number of batches, runs and requests. Batches
  are never reused, so a behaviour may run out of them and the deadlock check is off.
* **Refill and InwardBill**: a span of five days with
  first windows of three gives windows that are cut in halves, cut to one day, and doubled
  again; `MaxTimeouts` is 2 as in the code; a second read starts from a learned pace.
  Three bills and two files in an upload give a fold into a row of the same upload and of
  an earlier one. Reads and bills are never reused, so here too a behaviour may
  run out of them and the deadlock check is off.

The compositions are plain: a behaviour of `MCAgentHost` or of `MCBackOffice` plays one part
and leaves the others where they began, because the parts share no state.

## Fairness

* TallyPush: the agent's loop goes on (weak fairness of `AgentStep`: a hosted service
  that loops for ever, each call with a timeout); time goes on (strong fairness of `Tick`:
  it may be disabled while the agent is inside a round, never for ever); the shop keeps
  asking (strong fairness of each request: liveness is promised to a person who presses
  the button again). Nothing is assumed of the faults: they are finitely many.
* ShopBook: strong fairness of `Go(r)`, because PostgreSQL grants a row lock in the order
  it was asked for and a request that waits is not overtaken for ever; weak fairness of
  `Victim(r)`, because the deadlock detector runs whenever a waiting circle lasts. Nothing
  makes a request die or a new one start.
* AgentUpdate: weak fairness of `Launch` (the scheduled task restarts the agent),
  of `Starting` (its code runs on) and of `Die` (an unsound build does die); strong fairness of
  `MarkHealthy` (the process is left up for 90 seconds now and then), `SwitchOff` (an
  ignored offer is looked at again only by a new process, and shops close for the night),
  `Checkin(TRUE)` and a finished download. Nothing is assumed of file operations that fail:
  `BadBuildLeaves` excepts the histories in which a swap was cut short.
* BackupSync: weak fairness of the agent's one loop, which polls and carries each poll on;
  calls and restarts trouble it at most `MaxTroubles` times, so `EveryFileConfirmed` says
  that a finite number of failures loses no file.
* ItemPush: weak fairness of `Expire`: somebody who waits for a run asks for it
  (`GET /run` gives a stalled batch up). Nothing is assumed of the agent.

## Proofs

All theorems hold for every value of the constants that satisfies the named assumptions
in the modules; nothing else is assumed but the hypotheses stated in a theorem.

**TallyPush** (`TallyPushProofs`; invariants in `TallyPushInv`):

* `TypeCorrect`, `LinkedVouchersExist`: in every environment. `LinkedIsPosted` is not
  inductive: an answer on its way would link a voucher. `AnyInv` adds that an answer
  "created" or "found" is about a voucher Tally has, and that the agent holds only jobs
  that exist.
* `NoSecondVoucher`, `OneJobInFlight`, `NothingForgotten`, `NothingPostedAfterCancel`,
  `PromiseKept`: under `Ready` or `InTime`. `Ready` allows no `not_ready`,
  `wrong_company` or `garbled` among the faults. `InTime` allows Tally to be closed, but
  no restart, loss or lateness of the agent (a lost last ping, or a stop of the agent
  while it holds jobs, defeats the windows), and needs `RetryWindow + Lag < StuckAfter`:
  with the real 8 and 10 minutes, a job must be fetched within less than two minutes.
  The findings show why neither can allow more: `push_window` fails where the sum reaches
  `StuckAfter`.
* Both rest on `PushInv`, whose parts say where the agent and each job stand (`ShapeInv`:
  after an early checkin the outbox list holds no finished job; an answer "absent" for a
  live check means Tally has nothing), what is open for each document (`BookInv`: at most
  one push in flight or in doubt, a check only with a push in doubt) and what the agent may
  still do (`HandInv`: a push it may yet run is open and its voucher is not in Tally; it
  never holds a check together with a push of the same document, so that a check's answer
  is not outdated by a post in the same round).
* `PushInv` goes on where what a request gives up is safe to give up (`SafeToGiveUp`): a
  push not flagged as in doubt is not in Tally, and the agent will not run it. The two
  environments differ in why. `ReadyInvariant`: every job handed out is flagged when it is
  given up, because none is ever "not ready" (`RoundShape`); the windows play no part, and
  the environment is safe at any pace. `InTimeInvariant`: a job on its way is at most
  `Lag` old and a held one at most `Lag` older than it is held (`Timely`), so that a job
  the agent may yet run is never old enough to be given up; it is live (`HandLive`), and
  the voucher of a live push is not in Tally while no answer is under way
  (`LiveUnposted`), which covers the jobs the agent dropped.

**ShopBook** (`ShopBookProofs`):

* `TypeCorrect` and `VouchersCorrect` for any overlap. The strengthening `VoucherClaims`
  says that a request with a claimed voucher holds the row of the series and carries the
  next voucher, and that no two requests work on one payment.
* `SettledStays` for any overlap: a request can only write what it has read, and after an
  invoice is final no request reads it as a draft.
* `InvoicesCorrect` and `OrdersBilledOnce` for `~Overlap`. `NumberClaims` is
  the same for numbers; `DraftsHeld` says that a draft some request read without a lock is
  still a draft; `OrdersHeld` that an order is still as it was read; `BillsPointBack`
  that a bill of an order names it, so that a fresh draft is nobody's bill.
* `NothingOverpaid` for `~Overlap`: a second finalize may freeze another total under an
  invoice that is already paid, and a delete takes an invoice from under its payments, so
  the hypothesis is needed (`shop_double_finalize`). `MoneyInv` adds that recorded money
  is on final invoices (`PartsOnFinal`) and that a payment under way holds the row of
  every invoice it has allocated to, where its allocations together are still within the
  balance (`Allocations`): so no other payment can take the balance between its check and
  its commit. A commit adds one payment to the sum over all posted ones, a reversal takes
  one away; both are facts about sums over finite sets (`DataLemmas`).

**AgentUpdate** (`AgentUpdateProofs`), for any files, versions, limit of starts and number
of kills: `UpdateTypes`, `OldBuildRecoverable`, `UnprovenIsWatched`, `FailedIsNotRetried`.
The types need `StartsBounded` (only a kill lets a build on trial start once more than it
may). `DiskInv` says where each file is at each place of the process as long as no swap
was cut short (`Whole`), and that a proven build is spread over the two folders right
after one was (`AfterCut`): from it come the recoverable and the watched build.
`FailureNoted` says that what failed has no plan and no offer and is on its way to the
backend or noted there under the running version, so that no answer offers it.

**BackupSync** (`BackupSyncProofs`), for any files, sets and copies kept:

* `BackupWellTyped` and `OnlyWholeSetsLost`, whatever Tally writes. The cloud's rows are
  finitely many, each with a time of its own, in no more sets than it keeps (`CloudInv`).
  A confirmed upload therefore leaves one set too many at most, and of one set more than
  it keeps the one whose newest file is the oldest goes (`Pruning`, from `BestRanked`).
* `OnlyWhatWasSentPruned`. A file is as Tally left it, or was deleted after one of its name
  was confirmed (`LastOrGone`); every row in the list of confirmed ones is confirmed, and
  the upload in hand is of a file that was not (`LandedConfirmed`, `RowInHand`); and of a
  name that is not `rewritten`, what was sent and confirmed is what Tally wrote last
  (`SentArrived`).
* `FinishedBackupsKept`, from the same invariant `KInv`, with two parts more: what the
  backend confirmed is in the cloud or was until its set went (`InCloud`), and a set which
  went is gone whole and others fill its place, unless a file of it came later (`GaveWay`).

**ItemPush** (`ItemPushProofs`), for any number of items and of people who start runs at
the same time: `ItemTypes`, `NoneLeftQueued`, `PricesKnown`, `NothingAfterFailure`. Nothing
is assumed of how requests overlap. `Orderly` says of the batches: of the run of a batch in
flight every other batch went well, so that of each run one at most is in flight; a batch
given up in the agent's hands is doubtful; what Tally has taken of a batch in flight it
shows, because the agent reports one job before it runs the next. `SyncedIsShown`: a synced
item that no batch in flight overtakes is in Tally at the price noted. `Waiting` is
`RowsFollowBatch`.

**Refill** (`RefillProofs`), for any span, first window and limit:

* `SlowRequestsBounded`, `NoChangePassedOver`. The number of slow jobs of a chain is the
  count its last job carries, and a read in flight is below the limit (`SlowCounted`),
  whatever the windows are.
* `EveryDayRead`: the days read and the days ahead are, in order, all days of the span,
  each once, however often the windows are halved and doubled on the way. `DaysCovered`
  is inductive once the last job is known to carry well-formed steps (`LastWellFormed`).
  The work is in the operators: cutting a window gives windows that follow one another
  and cover it (`Chunking`), laying the rest of a chain out anew keeps its first and last
  day (`Resizing`), and one list of windows after another covers the days of both
  (`Joined`).

**InwardBill** (`InwardBillProofs`): `SourceIsKept`, `XmlCorrect`, `OneRowEach`. The same
facts are kept of the committed rows, with respect to the rows no open or failed request
has touched, and of the rows of the open request with respect to those it has (`RowsOK`):
a commit turns the second into the first, a failure the first into the second.

**DataLemmas** holds the facts about data several proofs need. A schema of induction cannot
be instantiated here, so each is proved by a smallest counterexample: of a set of finite
sets that is not empty, one has no smaller one in it (`SmallestSet`), and of a set of
numbers one is least (`LeastNumber`). From the first come the sum over a set with one
element more or less, sums that agree, and greatest elements; from the second, in
`RefillProofs`, what flattening a sequence of sequences gives.

**Only model-checked**: liveness (`EventuallyLinked`, `EveryRequestEnds`, `BadBuildLeaves`,
`ReachesTarget`, `EveryFileConfirmed`, `RunEnds`), which needs ENABLED and fairness and is out
of TLAPS's reach.

## Findings

1. `push_window`. The agent counts its 8 minutes from the first round that sees a job, the
   backend its 10 from the job's creation; an agent silent for up to 5 minutes counts as
   online. With Tally closed and nothing else wrong, a job that was fetched late is given
   up as "never sent" while the agent still holds it, then posted, and posted again by
   the retry. A lost last "not ready" ping has the same effect.
2. `push_company_stop`. A job the company guard stopped is still in the outbox list of the
   last checkin; when the next round comes before the next checkin, it is run again,
   although the backend has recorded that nothing was sent.
3. `push_receipt_wedge`. A receipt's job lost with the agent's memory is never given up, so
   the payment can never be sent.
4. `shop_double_finalize`. Finalize and delete act on a copy read without a lock. Of two
   finalize requests of one draft the second gives the final invoice a new number and the
   first number is lost; a delete that read the draft removes the final invoice. A save
   may also come between a finalize's read and its commit: the frozen total is then that of
   the old lines (`total` differs from `worth`). Every run allows this save; with the one
   worth of the configurations it changes no value.

5. `backup_reused_name`. The local pruning deletes by path what an old confirmed row names.
   When Tally has written a new backup under that name, the new file is deleted before
   anybody has uploaded it. `PrunesWhatWasSent` says when this cannot happen.

Observations without a run of their own: "one push at a time per firm" (`tally_items.py:72`)
is a query (414, 506-519) and, later, an insert (641-660), with neither a lock nor a unique
index: two item pushes that overlap both find no job in flight and both start a run. Each
run then stops at its first failure, but not at the other's. Further, an answer of Tally that cannot be parsed makes a
push a plain error although the voucher may be saved (`push.py:137-141`), so a retry posts
again; the withdrawal of a queued outbox item in `_expire_stuck_job` cannot happen for a
shop that is reachable, and only a reachable shop gets that far;
`assert_tally_reachable`'s comment says that a stale signal does not block, and the code
answers 409 to one.

## Not modelled

* Two voucher push requests for one document inside their transactions: both may pass the
  in-flight query before either has inserted its job (`jobs.py:299`). TallyPush takes a request as one step.
* Placing an order and its duplicate window (`orders.py:172`), editing an order's lines,
  linking a customer. Overlapping `make_invoice`, `accept` and `reject` (`orders.py:456`) are
  in ShopBook under `Overlap = TRUE`, where `BilledOnce` fails; no run shows it, since
  nothing in the repository says that they are safe.
* Overlapping requests on one inward bill, and the rows and files of an upload that fails
  half way (`inward.py:352`) beyond what `torn` says of them.
* Company verification (one answer compared with one row) and the masters pull with
  its staging, a review of rows by hand; several shops, companies and number series.
* Connection resets after a request was written; a second voucher after an answer that
  cannot be parsed (`push.py:137`).
* Tax and weighment arithmetic: pure decimal functions without state.
* Lists, search, reports, PDFs and their layout, message templates, the reading of a
  supplier's PDF, and the web app: by far the larger part of the repository's lines. They
  keep no state that two actors share, or only read it, so the modules here stand for a small
  share of the lines, and for most of the steps that can go wrong between two actors.
