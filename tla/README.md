# TLA+ models of the vibocnc shop

Verification project for the repository in `src/`: a web shop for CNC spare
parts with a Go backend (`backend/`: Gin handlers, GORM, MySQL, Redis), a
Next.js frontend and integrations with PayPal, eBay, mail, CDN and language
models. Paths below are relative to `src/backend/` unless they begin with
`frontend/`.

## 1. Inventory

| component | code | state it keeps | operations |
|---|---|---|---|
| Coupon redemption | `controllers/coupon.go`, `controllers/order.go` | `coupons` row (limits, `used_count`), `coupon_usages`, `orders.coupon_id` | validate, consume in checkout, edit, delete |
| PayPal checkout | `controllers/paypal_payment.go`, `services/paypal_client.go`, `CreateOrder` | `orders`, `order_items`, `payment_transactions`, `products.stock_quantity`; PayPal's orders and captures | create order, create PayPal order, capture, webhook |
| Order refunds | `controllers/refund.go`, `services/paypal_refund.go` | `refunds`, the order's payment state and refunded amount, stock; PayPal's refunds | refund, sync |
| Order administration | `controllers/order.go` | the same rows | update status, update, delete |
| AI task gate | `controllers/ai_task_limiter.go` | limit, active count, queue of waiters (in memory) | acquire, release, resize |
| Resumable uploads | `services/product_catalog_transfer.go`, `controllers/media_sku_archive.go`, `services/ebay_import_json_task.go`; `frontend/src/services/{backup,media,ebay-import-draft}.service.ts` | job rows, files of chunks, a session per browser tab | create or resume, chunk, complete, cancel, expire |
| Assistant conversations | `controllers/ai_agent_session.go`, `ai_agent_stream.go`; `frontend/src/components/admin/AIAgentAssistant.tsx`, `frontend/src/services/ai-agent.service.ts` | conversations and messages, the hub of runs (in memory), a widget per admin page | prompt (stream, classic), resume, load, reset, delete |
| AI job scheduler | `controllers/ai_job_scheduler.go`, `ai_task_limiter.go` | slots (in memory), `worker_token` | wake, pass, claim, exit, restart |
| AI product jobs | `controllers/ai_seo_jobs.go`, `ai_seo_category_jobs.go`, `ai_seo_spec_jobs.go`, `ai_listing_jobs.go`, `ai_product_identification_jobs.go` | job and item rows, counters, the product columns a job writes | create, run items, pause, resume, end, close |
| eBay draft review jobs | `services/ebay_draft_review_job.go` | job, items, counters, cancel functions in memory | start, pause, resume, cancel, finish, restart |
| eBay import, bulk confirmation | `services/ebay_*.go` | drafts, import tasks | import, confirm |
| AI agent, content generation | `controllers/ai_agent*.go`, `services/product_*.go` | profiles, prompts | generate, check |
| Catalogue, categories, search, import and export, media, shipping, policies, customers, support, analytics, caches, mail | see `PROJECT.json` | single rows, files, caches | CRUD |
| Frontend (the rest) | `frontend/` | stores of one tab, tokens | calls the endpoints above |

**How they interact.** Handlers run concurrently, one goroutine per request,
and share the database. Only few places lock a row for a whole decision
(`SELECT ... FOR UPDATE` in `finalizePaidOrder`, `RefundOrder`,
`applyPayPalRefundResult` and the closing and writing transactions of AI jobs);
some statements are conditional updates (`ConsumeCoupon`, the claims of jobs and
items, the chunk updates of archives and JSON files). Every other handler reads
a row, decides, perhaps calls PayPal, and writes. PayPal is called without a
transaction open, and calls back through the webhook. The admin's edits write
whole rows (`Save`). Background work runs in goroutines of the same process: the
run of an assistant prompt outlives the request that posted it, and the workers
of AI jobs outlive a pause or an end of their job. Both share a provider gate;
jobs share the slots of the scheduler. The browser is an actor of its own where
it retries: chunks, streams and completions are sent again when an answer is
missing.

**Hard behaviours.** Interleavings of a webhook with a capture, of refunds with
syncs, of any of them with an admin's edit or delete; an answer lost after PayPal
acted; a crash between commit, call and record; a webhook delivered twice or
very late; stock that is checked but not reserved, so that it may be gone before the
order is even inserted; copies of rows saved after they are stale; a limit checked on a snapshot and enforced elsewhere. A chunk
that arrives after its repetition or after the upload's end; a file torn by a
crash; files that share a fingerprint because it samples them. A stream that breaks after its prompt was accepted; a widget whose
exchanges outlive it. A worker that outlives a pause and meets its successor, a
restart with items in flight, waiters of a resized semaphore.

**What makes each part correct.** Coupons: limits hold, `used_count` agrees with
the usage rows. Checkout: an order is paid exactly once, only for money PayPal
captured, always when PayPal captured it; stock is taken once. Refunds: never
more than was paid, goods go back once, the books agree with PayPal.
Administration: payment states are never invented. Gate: never more tasks than
the limit allows, no waiter forgotten. Uploads: what the worker takes is
whole, nothing but files of the job's fingerprint has a part in it, and the page says what
the server knows. Assistant: one run per
conversation, no answer lost, and a widget that becomes free again. Jobs: a
product is asked for by one worker at a time, late answers are dropped, a closed
job holds nothing back, and every queued job is run.

## 2. Plan

1-8 are done, in this order; 9-12 are left.

1. `CouponRedemption`: small, and the template for read/decide/write handlers.
2. `PaymentStore` (shared rows and the two locked transactions), `PayPalCheckout`,
   with `OrderLedger` as the abstract specification it implements.
3. `OrderRefund`, `OrderAdmin` on the same store.
4. `OrderService`: all of them composed.
5. `TaskGate`: a semaphore with waiters, implementing the abstract `Semaphore`.
6. `UploadJobs`, `ChunkUpload`: the three chunked uploads with their browser
   sessions, implementing the abstract `UploadedFile`.
7. `RunHub`, `AssistantChat`: conversations, runs, streams and the widget.
8. `AIJobRows`, `AIJobs`: jobs, the dispatcher and the workers.
9. eBay draft review jobs: counters against items through pause and resume.
10. The admin's session in the frontend: token, refresh and the requests that
    race them.
11. The storefront's checkout page against `PayPalCheckout`.
12. Category tree (no cycles after a move) as a pure algorithm.

Every safety property the runs check of the code is also a theorem (section 5). Of the steps
left, 9 and 10 would bring invariants worth a proof.

## 3. Modules

| module | models | EXTENDS |
|---|---|---|
| `CouponRedemption` | one coupon, concurrent checkouts, edits, deletes | |
| `PaymentStore` | rows, PayPal's state, `finalizePaidOrder`, `applyPayPalRefundResult` | |
| `PayPalCheckout` | CreateOrder, create, capture, webhook, the customer, PayPal's review | `PaymentStore` |
| `OrderLedger` | abstract: orders found covered, placed, paid once, stock taken | |
| `OrderRefund` | RefundOrder, SyncRefund, PayPal's refunds | `PaymentStore` |
| `OrderAdmin` | UpdateOrder(Status), DeleteOrder | `PaymentStore` |
| `OrderService` | all of the above | the three |
| `Semaphore` | abstract: at most limit holders are let in, whatever the limit was before | |
| `TaskGate` | the gate of provider requests, its settings, an admin who changes them | |
| `UploadedFile` | abstract: the content of a job grows by the next piece, cut from files of its fingerprint, and is handed on whole | |
| `UploadJobs` | the server of the three uploads: rows, files, handlers between the two | |
| `ChunkUpload` | the sessions of the admin's tabs and their requests | `UploadJobs` |
| `RunHub` | the server of the assistant: posts, runs, events, readers, deletes | |
| `AssistantChat` | the widget in one tab and its exchanges | `RunHub` |
| `AIJobRows` | job and item rows, and what administrators do to them | |
| `AIJobs` | the dispatcher, the workers and their item goroutines | `AIJobRows` |
| `MC*` | instances for TLC | their module |
| `*_proofs` | theorems and proofs about `CouponRedemption`, `PayPalCheckout`, `OrderRefund`, `OrderService`, `TaskGate`, `ChunkUpload`, `AssistantChat`, `AIJobs` | their module |

**From handler to actions.** A handler is cut where it holds no lock: between two
statements outside a transaction, and before and after a call to PayPal. Each
request is a record with a program counter and what the handler keeps in local
variables (`create[c].seen` is the `payment_id` it read, `edit[e].row` the copy
`Save` writes, `checkout[o].row` the coupon its transaction read). A
transaction that locks what it reads is one action. A transaction under MySQL's
REPEATABLE READ that reads first and writes later is two: `ReadInTransaction` and
`ConsumeCoupon`. `CreateOrder` is two as well: the stock is read without a lock or a transaction
before shipping and coupon are looked up (`CheckStock`), and the order is inserted later
(`CreateOrder`), whatever the stock is by then. A handler that returns early is an action that is not enabled,
or one that ends the request (`Refuse`, `CreateFails`, `CaptureFails`,
`DeleteFails`). `DeleteOrder` and `DeleteCoupon` run statement by statement, since they
open no transaction. `Save` on a row that is gone inserts it again, as GORM does.

*Orders.* `order` is the table `orders`; `items` the orders with rows in
`order_items`; `recorded` and `latest` the `payment_transactions`; `refunds`
the table `refunds` (its field `known` says that the provider's id is stored);
`stock` is `stock_quantity`, and `checked` the checkouts that found it enough and have not
inserted their order. `paypal` and `settled` are PayPal's own truth, which
the shop sees only through calls and events. `finalized` and `restocked` are history
variables that count what happened and guard nothing. One product; one item per
order; cents as naturals; one coupon. Dates, minimum amounts, signatures and
currencies can only refuse a request, and a refusal is always possible in the models.

*Gate.* It lives in memory under a mutex: an action of `TaskGate` is what happens in one
hold of it, or one query of the settings. A channel taken off the queue is sent to right
after the mutex is given up and has room, so its owner counts as woken at once.
`acquireAITaskSlotForRequest` passes `context.Background()`, so the branch for a context
that is done is left out. One save of an admin is under way at a time. `tryAcquire` serves
the other gate, `aiOptimizationJobSlots`, and is part of `AIJobs` (`PassTake`).

*Uploads.* A job is a row (`job`), the file beside it (`disk`, chunk by chunk, possibly
torn) and the chunk, complete and cancel handlers that are between the two (`admitted`,
`writing`, `validating`, `cancels`). The archive and JSON handlers hold a mutex. The
catalogue's hold none, so that its chunk handler is cut twice: between reading the row and
writing the file (`admitted`), and before updating the row (`writing`); `kind` says which of the three a behaviour is about. Of the catalogue's
statuses "queued" stands for ready and "running" for what follows the decision to apply
it. A session (`tab`) is one call of the page's upload function; `sent` and `completing`
are requests the server has not handled, given up by the browser or not. A chunk of `disk` is
the set of files its bytes come from, `Missing` among them where nothing was written: a
chunk written over another in part has two sources. All files have one name and size. Their
fingerprint is a hash of name, size and the first and last MiB (a catalogue's is name, size and time), so
different files may share one: `Sample` maps every file to the one that stands for its
fingerprint, and is any function. `Contributors(j)` are the files sessions upload that share the
fingerprint `j` was created with: the sessions of two such files are led to one job and
continue each other's upload, and the job then holds a mixture that is nobody's file. This
happens in every browser, and the properties say so: what is confirmed or queued is
there and comes from `Contributors(j)`, which is one file if the files uploaded are told apart
by their fingerprints (`ToldApart`, a premise about the files that the code cannot establish).
`UploadedFile` is instantiated once per job.

*Assistant.* A run's events are those that change what a reader does ("stage", "delta",
"final", "error"); texts, tools and proposals are left out, and so is the column `status`
of a conversation, since clients are told `liveStatus`, from the hub. A reader receives an
event as it reads it. A request that was refused or lost and a reader of a process that
died are forgotten. A widget that is navigated away takes its requests along, while the
runs go on; the tab's storage hands the conversation to the next widget. A delete that
fails takes no further step.

*AI jobs.* A worker is a token: the goroutine tree of `runDispatchedAISEOJob`. Its
`phase` is "work" from the claim to the statement that closes the job and "exit" until
its deferred end; `handed` is how far its stream is, `lane` its item goroutines. A token
no goroutine holds may be drawn again, which is sound because nothing but the goroutines
and the job row (rewritten by the next claim) compares tokens. Job kinds are merged where the code runs the same
statements: "content" is the modes selected, auto_candidates and auto_failed; "draft" is
specification research and product identification. An unresolved item is a failed one, a
skipped one optimized. A release of an ended job
takes the pending items in batches (`ReleaseItems`) and may fail or be cut before any of them; the query that finds nothing
more is one step with the last batch. Merged steps: taking a slot and claiming the job; handing an item
over and claiming it (the claim reads again all that was read in between); the ways a worker gives up before its
first item (`GiveUp`). `max_concurrent_jobs` is any of `Limits` in each pass. Provider
slots are `TaskGate` and only delay a lane. Statements other than those in `Faults`
succeed.

## 4. Runs

| run | question | result |
|---|---|---|
| `coupon` | do limit, count and references survive concurrent checkouts, an edit, a delete? | yes, as far as the properties claim |
| `checkout` | exactly once, only if captured, always if captured, stock taken once; implements `OrderLedger`: an order is placed only if the stock was found enough, not necessarily while it still is | yes |
| `refund` | do concurrent refunds and a sync with every fault restock once, stay within the total and leave a state that a refund explains? | yes |
| `refund_timeout` | after a lost answer, do the books agree with PayPal? | no: a refund that moved money is recorded as failed |
| `service_money` | with everything interleaved, do rows ever claim what PayPal did not do? | no |
| `service_late_webhook` | is an order finalized once even after a refund? | no |
| `gate` | while the limit changes, is the gate a semaphore, is no wake-up lost, is everyone served? | yes |
| `upload` | whatever is lost, late, repeated, torn or cancelled, is what the worker gets whole and of the job's fingerprint, and does the page know it? implements `UploadedFile` | yes; of one file only if fingerprints tell the files apart |
| `assistant` | one run per conversation, answers stored before they are told, streams with an outcome, a widget that becomes free? | yes |
| `jobs` | content jobs: slots and workers, one request per product, late answers dropped, progress, every job settles? | yes |
| `jobs_kinds` | the kinds that sweep, with failing statements: does a closed or ended job hold products back, is a product in one job? | as far as the properties claim |
| `jobs_left_behind` | does a completed job of any kind leave nothing behind? | no: a resumed content job strands the item under way |

**Bounds.** Every request constant is a set of one-shot requests; two of a kind are
enough for a race, since the handlers know nothing of each other but the rows. Three
checkouts of two customers cover "one customer twice, another in between". In
`checkout` the second order wants two units of a stock of two, so that both can be
placed and only one be covered, and either can be paid between the other's check and its insert. An order of three cents gives full, partial and
partial-then-rest refunds with two refund rows; `refund` has one sync, since with
two `RefundsWithinTotal` is false of the code (section 5). `MaxDeliveries` bounds the
deliveries of one event (two: one duplicate); it counts only those answered 200, so it
takes away no retry. `Again` saturates the history counters at two: the
properties ask only whether something happened more than once. A PayPal order
whose id was never stored goes back to "unused" so that a failing create does not
use up the small set of ids. `OrderService` has one order, since its handlers
touch one order each; two orders meet in `checkout`.

`gate` has three requests, the fewest with which one holds, one has been woken and one
still waits, and limits of one and two (`Jobs` times `Workers`), so that the limit falls
below the number of holders and rises while requests wait; a failing query
(`ReadsFail`) brings in the fallback limits of two to eight.

`upload` has two tabs, files of two chunks (`Length`: a first and a last one), two rows
(`MaxJobs`: one and its successor), two attempts per chunk (`Attempts`, four in the code: the second
already meets the first), at most two requests under way when another is sent
(`MaxUnderWay`), and one cancel under way at a time. The tabs upload two files that share a
fingerprint or two that do not; two sessions of one file behave as the former. The tabs, and
the files of a pair, are symmetric.
`Blind = {}`: every browser has `crypto.subtle` (section 6 says what happens without).

`assistant` has one prompt with both endpoints, one resumption, one conversation of an
earlier day beside the new one, one load (`MaxLoads`) and one delete (`MaxDeletes`) under way. These are the
fewest with which an exchange is taken over by another one, falls back, and finds its
conversation busy, emptied or replaced. `StoreFails = FALSE`: section 6.

`jobs` has two jobs of one product, two tokens (an old worker and its successor, or two
jobs; a third claim finds no slot under `Limits = {2}`), one resume and one restart
(`MaxResumes`, `MaxRestarts`) and no fault; `jobs_kinds` has a category and a listing
job, every fault and no restart. One lane per worker (`Width`) is enough with one
product. With one product a release has one batch: releases that are cut between batches are left to the
theorem `EndedReleases`, which holds for any number of products. `MaxActive` is `maxActiveAISEOJobs`, two instead of the code's limit.

**Deadlock.** Requests are one-shot and the bounds above end a behaviour, so an
instance comes to rest; `CHECK_DEADLOCK FALSE` is for that. That nothing waits for ever is
stated by `EveryoneServed`, `WidgetFreed` and `JobsSettle`.

**Fairness.** `checkout` assumes weak fairness of `Webhook(p)`: PayPal
repeats the delivery of an event until it is answered with 200, and the handler
answers another code when it fails. Nothing is assumed of browsers, captures or admins.
`gate` assumes, of every request that has begun, weak fairness of its steps: the
runtime schedules every goroutine, and a provider request ends because its client has a time limit.
Nothing makes a request begin or an admin act. The requests are one-shot, so
`EveryoneServed` says that nobody is lost; it does not say that an unending stream
of newcomers cannot overtake a waiter for ever.
`assistant` assumes that goroutines are scheduled, that a run ends (its context has 15
minutes), that the classic request ends (the browser's client gives it 60 seconds) and that a broken connection
is noticed. Nobody has to send, reset, load or delete. `jobs` assumes that dispatch goroutines, workers and lanes are
scheduled, and that a provider request ends (`controllers/ai_agent.go:976` gives its client a time limit).
No administrator has to act. Resuming after a restart is part of the restart itself: `main.go:61` does it before
the server listens.

## 5. Proofs

All for every value of the constants under the named assumptions of the modules
(finite sets where something is counted, positive amounts and sizes, sentinels that are
no rows). Each module's comments say what its invariant adds to the property and why.

Sums are not folds: `SumOver(f, S)` is the number of units, each of `x` in `S` having
the units `<<x, 1>>` to `<<x, f[x]>>`. TLC counts them as it would add, and what the sum is when
an element is added follows from the cardinality of a union, without an induction over the
set (lemmas `SumEmpty`, `SumAdd` and `SumMonotone` in `PayPalCheckout_proofs`).

- `CouponRedemption_proofs`: `Typing`; `UsageLimit` (`UsageLimitRespected` and
  `CheckoutsCountRight`), by an invariant that says, while no
  admin has saved an edit or begun a delete, `used_count` is the number of usage rows,
  every claim's snapshot has the limit of the row, and no order that is still under
  way has a usage row, so that a claim adds exactly one; `NeverOvercounts`, by one that
  bounds by the usage rows both the row's `used_count` and that of every copy an edit holds
  (a save may lose uses, never invent them); `ReferencesPaid`, inductive as it stands.
- `PayPalCheckout_proofs`: `CheckoutTyping`; `CheckoutSafety` (`FinalizedOnce` and
  `PaidOnlyIfCaptured`), by the invariant that a paid order has been finalized exactly once and
  an unpaid one never, that a request about to finalize holds a capture PayPal completed for
  its order, and that a completed capture stays so; `CheckoutImplementsLedger`: every step
  checks one order, places one that was checked, pays one, or leaves the ledger's variables alone; `StockAccounted`
  (`StockConserved`): the stock is what there was less the units of the orders finalized, and zero once these
  are more, by adding that an order keeps its items, so that it takes its own quantity and nothing else.
- `OrderRefund_proofs`: `RefundTyping`; `RefundedGoods` (`RestockedOnce` and `RefundedIsSettled`) and
  `RefundPendingExplained`, by the invariant `RefundInv`: from its insert until its request has
  recorded PayPal's answer a row belongs to that request alone, is pending and has no
  provider id, so that no sync works on it; the order's `restored` flag says whether its goods
  went back; and a `refund_pending` order has a pending refund *with* an id. The id is what makes it
  inductive: `RefundOrder` turns rows into failed ones without looking at the order, but only
  rows that have none. `FailedMeansUnmoved` assumes that no answer is lost (the run
  `refund_timeout` shows that it must) and adds to the invariant that PayPal has not been asked
  about a row whose request still calls or was refused.
  These hold for any number of syncs. `RefundsAddUp` (`RefundsWithinTotal`, and that the refunded amount is that
  of the completed refunds) and `SettledForGood` (a completed or failed row never changes, a counted refund stays
  counted) have the hypothesis `OneSyncPerRefund`: no two syncs work on one refund at a time. With two, TLC
  finds a completed refund turned back to pending and refunded once more, although
  `controllers/refund.go:158` calls `SyncRefund` safe to call repeatedly; so it is, one call after the other.
  Their invariant `BooksInv` says of each sync what its copy of the row may still be: pending, or
  cancelled, and then PayPal tells the sync that the refund failed.
  All are about the refund endpoints by themselves:
  an admin's edit can rewrite a payment state, which is why `OrderService` claims less (run
  `service_money`).
- `TaskGate_proofs`: `LimitInRange`, for any integers in the settings; `GateTyping`;
  `NobodyForgotten` and `GateIsSemaphore`, by the invariant `GateInv`: the limits a request or
  the admin has computed but not applied are in range, `active` is the number of requests that
  hold a slot, the queue holds every waiting request once, and while it is not empty at
  least as many requests are woken as slots are free. `active` is a counter that
  `release` refuses to take below zero; only with `HoldersCounted` does it stand for the
  holders of the abstract semaphore.
- `ChunkUpload_proofs`, by `UploadInv`: a session only uses a job of its own fingerprint, and its requests
  and handlers carry its file, as far as fingerprints tell; a handler that has
  written a chunk and not confirmed it stands at or below the confirmed offset, and what it wrote stays there or
  is replaced by a chunk of another file of that fingerprint, since the handlers of archives and JSON files
  are alone with their job and those of a catalogue all write files of one fingerprint; so the compare-and-set of the row confirms
  only what is there. For every browser and any `Sample`: `UploadTyping`, `SessionsFollow`, `OneAtATime`,
  `SuccessHasACause`, and `WorkersGetNoHoles` (no byte of what waits for a worker is missing). Where every session sends
  its fingerprint (`Sighted`: a catalogue, or no browser without `crypto.subtle`) and for any `Sample`, however many files
  it throws together: `ChunksAreTheFile`, `WorkersGetWholeFiles` and `JobsAreUploadedFiles`. `WorkersGetOneFile` adds the
  premise `ToldApart`, and concludes that all of what is queued is one file. Without `Sighted` these are false (section 6),
  and without `ToldApart` so is the last.
- `AssistantChat_proofs`: `AssistantTyping`; `OneRun`, `OutcomeIsDelivered` and `WakeupsArrive`, by
  `HubInv` (a run under way is its conversation's newest; a response that ended has read
  all of a run that is done; one that waits has read all of a run that goes on);
  `OwnerFreesWidget`, by `ChatInv`, which adds what the client knows of its exchanges;
  `FinalStored`, under the assumption `~StoreFails`, by `SavedInv`.
- `AIJobs_proofs`: `JobsTyping` and `SlotsAreWorkers`, by `JobsInv`: a worker has a job that exists
  from its claim to its exit and exits only when the job is not running under its token; a running job's token is
  that of a worker alive. `OneJob`, `EndedReleases`, `CompletedReleases`, `AskedByOne` and
  `LateAnswersDropped` (listing jobs apart), by `SafeInv`, which adds: a busy lane of a content job has its item, no longer
  queued, for itself (`AskedOnce`); an asking lane that would pass the fence of `ApplyResult` has its
  item still pending (`Fence`); an ending is one of a cancelled job (`EndingInv`); and who waits for a
  product was created after whoever wrote it (`Succession`). The fence is what couples them: a
  writer's item is pending, so by `OneJobPerProduct` no other job wants the product, so the writer
  is the newest job that wanted it. Two frames carry the proof over all other steps: `RowFrame`
  (all but an insert) and `LaneFrame` (all but the hand-over of an item). `ProgressIsDone` counts: the lanes
  about to count and the counts made are at most the finished items. All hold with every one of `Faults`.
  `LeftBehindByResumeOrClaim` bounds what the run `jobs_left_behind` finds: without a resume a completed
  job leaves nothing pending but items whose claim failed. `LeftInv` says why: a queued job has no item
  that runs, and a worker that has its job has a lane for each running item. A resume breaks the
  first, since it queues a job whose old lanes have not left.

- `OrderService_proofs`, for everything that works on orders at once: `ServiceTyping`; `RowsHaveCauses`
  (`RecordedIsCaptured`, `RefundStateHasRefund`, `DeletedHasNoItems`) and, under the assumption that
  no admin writes "paid", `PaidIsCaptured`. Two ideas carry it. `Growth`: a completed capture, a refunds
  row and PayPal's record of having been asked are never taken back, by any step. `Sources`: the payment state a row
  has after a step is the one it had, "pending", that of a capture, that of a refund PayPal was asked for,
  or one from an edit. So `RefundedInv` and `CapturedInv` speak of the rows *and* of the copies that edits
  hold: a copy was backed when it was read, and its evidence is still there when it is written
  over a newer row. `PaymentSources` states the two as properties of every step. `FinalizedTwiceOnlyIfTouched`
  bounds what the run `service_late_webhook` finds: an order is finalized a second time only if a refund
  or an edit of it was begun (deletes, webhooks and captures are not enough), since any other order
  is finalized once if it is paid and never if not (`OnceInv`). `CountedWasPaidBack`: what an order counts as refunded
  is what PayPal paid back for it, and a completed row is one PayPal completed; by `MovedInv`, which says the same of the copies edits
  hold and of the answers that requests and syncs are about to record. The checkout part is that of `PayPalCheckout_proofs`, cited. The assumption
  that the marks of an absent and of a deleted order differ (`SentinelsAssumption`) is used here: an id is
  not placed a second time.

Only model-checked: `CapturedIsPaid`, `EveryoneServed`, `WidgetFreed` and `JobsSettle`, which
are liveness under fairness, beyond this prover; and the properties of the three runs that expect a violation, which are false.

## 6. Not modelled, and why

**Components.** Those marked `not_modelled` in `PROJECT.json`. eBay draft review jobs and
the admin's session are next in the plan; the category tree is a pure algorithm. The others
are single-row CRUD, pure I/O, parsing or text generation, where no step of one actor
depends on the state another left half-way. By lines the frontend is most of the repository:
JSX, forms, dictionaries of translations and thin wrappers of endpoints. Of it only the
code with a protocol in it (uploads, the assistant) has something a model could get wrong, so
the models cover a small share of its lines however much of its behaviour they cover.

**Within the modelled parts.** Orders: the discount's arithmetic, shipping fees, address and guest
checks, mails after payment, read-only endpoints. Uploads: what a worker does with the file, its
pausing and resuming; the old `POST /json-import` (`services/ebay_import_json_task.go:317`), which no page calls any
more: it takes a task without a fingerprint and sets its `uploaded_bytes` back to 0, so that `OffsetIsConfirmed` would be false of a
session that is under way on it. Assistant: tools, proposals, one-shot drafts. AI jobs: which products are
candidates, what is written of a product, the
categories a category job creates, `maxActiveCategoryJobs`, options that cannot be decoded.

**Assumed of the environment, and false without it.**

- A browser without `crypto.subtle` (plain HTTP) sends no fingerprint for an archive or a JSON file
  (`frontend/src/services/media.service.ts:106`), which then matches every file of its name and size. The run
  `upload` has `Blind = {}`; the theorems say which promises need it. Files that share a fingerprint although
  browsers compute it are *not* assumed away: see *Uploads* in section 3.
- The error of storing the assistant's answer is dropped
  (`controllers/ai_agent_session.go:510`): with `StoreFails = TRUE` an answer is announced that is
  nowhere stored.
- A failed query reads as "not running" (`controllers/ai_seo_jobs.go:913`) and ends a
  worker's stream early; a failed read of the queue ends a pass without another wake-up
  (`controllers/ai_job_scheduler.go:63`). `AIJobs` has neither.

**Seen while modelling, without a run of their own.**

- Two checkouts of one customer both pass the per-customer limit of a coupon before either inserts
  (`controllers/coupon.go:403`).
- Two create requests of one order store different PayPal orders; the later store
  wins (`controllers/paypal_payment.go:87`, `:106`). The webhook matches by
  order number, so no payment is lost.
- A cancelled order is revived by a payment (`controllers/paypal_payment.go:56`).
- `DeleteCoupon` runs without a transaction and may leave usage rows or orders that name
  a coupon no longer there (`controllers/coupon.go:278`).
- `UpdateOrder` saves a stale copy and can turn a paid order back to pending, after which
  it can be paid again (`controllers/order.go:712`).
- `UpdateCoupon` saves a copy it read before a checkout claimed the coupon, and so takes the
  claimed use back (`controllers/coupon.go:242`): `used_count` may undercount, never overcount.
- `DeleteOrder` may delete an order that was paid after its check
  (`controllers/order.go:550`, `:579`), and checks for refunds before its statements run, so a refund
  begun in between survives its order (`:541`).
- A refund whose recording failed has no provider id, so that no sync can settle it and it
  stands in the way of others until an edit (`controllers/refund.go:141`).
- Two syncs of one refund may apply their answers in the opposite order: a completed refund becomes
  pending or failed again (`controllers/refund.go:212`), and then the amounts may exceed the total
  in the books. Hence the one sync of `refund` and the hypothesis `OneSyncPerRefund` of two theorems.
- A released slot of the gate may go to a newcomer before the waiter it woke runs
  (`controllers/ai_task_limiter.go:172`). A request that computed its limit before an admin changed the
  settings applies it afterwards; the next request puts it right (`:250`).
- An upload session whose task was cancelled elsewhere may report success
  (`frontend/src/services/ebay-import-draft.service.ts:328`).
- A catalogue import resumed while its paused worker has not left yet starts no worker, since the old one is still
  registered (`services/product_catalog_transfer.go:1113`); cancelling an archive does not look whether its
  conditional update matched and removes the file all the same (`controllers/media_sku_archive.go:625`).
- A conversation loaded slowly may be shown under another one that was chosen since
  (`frontend/src/components/admin/AIAgentAssistant.tsx:421`); a prompt whose stream broke after it was
  accepted is posted again (`:643`).
- `createListingJob` looks for pending products outside the lock its neighbours hold
  (`controllers/ai_listing_jobs.go:226`), so that a listing job and another may share a product.
- `EndSEOJob` whose release failed asks to click End again (`controllers/ai_seo_jobs.go:574`), but a cancelled
  job is refused (`:558`). A job whose closing transaction failed is "failed" with items pending
  (`controllers/ai_seo_spec_jobs.go:445`). Their products stay excluded from later jobs.
- The counter of a kind that sweeps may pass the total when a lane of an old worker counts
  after the closing transaction counted anew. A job paused, resumed and paused
  again before its claim still carries the old worker's token, so the old worker goes on writing.
  Draft rows are stored without a fence.
