# RSSMonster: a verification development

RSSMonster is a self-hosted RSS reader: an Express server over a Sequelize
database (MySQL or SQLite), worker processes that crawl feeds, run AI jobs and
send webhooks and email, an inference service, a Vue client and an Electron
shell. Everything durable is a database row, and almost every row that matters
is shared by several processes through leases, compare-and-set updates and row
locks. That is what these TLA+ modules model, what TLC checks on small instances
and what TLAPS proves for instances of any size.

Paths below are relative to the repository; `services/` stands for
`server/services/`.

Contents: 1 the system, 2 the modules, 3 how the code is abstracted, 4 the runs,
5 fairness, 6 the proofs, 7 what was found, 8 what is not modelled, 9 the plan.

## 1. The system: inventory

### 1.1 Durable work

| Component | State | Operations | Interacts with |
|---|---|---|---|
| Processing-job queue, `services/jobs/processingJobQueue.js`, `processingJobOperator.js` | `processing_jobs`: status, attempts, leaseOwner, leaseUntil, availableAt, payload; one row per (user, type, dedupeKey) | enqueue or reactivate, claim, renew, complete, retry, dead-letter, recover expired leases, requeue dead, clear history | every producer; AI workers |
| Execution of a claimed job, `processingJobHandlers.js`, `server/src/workers/aiWorker.js` | in memory: claim, lost flag, abort signal, interval timer | first renewal, handler, confirming renewal, settlement, failure hook, shutdown | queue, handlers, crawl-priority gate |
| Article enrichment, `handlers/articleEnrichmentJobHandler.js`, `strandedArticleRecovery.js`, `services/crawl/...` | `articles.aiAnalysisStatus`, the hash of the analysis input, filteredInd | create, revise, prepare, analyse, persist, mark failed, retry, recover stranded | queue, crawler, inference |
| Personalization refresh, `personalizationRefresh.js`, `personalizationRefreshScheduler.js`, `islands/runIslandCalibration.js`, `score/scoreArticlesFromIslands.js` | one reusable job per user whose payload holds a request id, reasons and a calibration checkpoint; islands; scores with the time of their evaluation | request after a reader action, timed request, calibrate, score, complete or follow up | queue, reader actions, settings, crawler |
| Webhook delivery, `services/webhookDelivery.js`, `server/src/workers/webhookWorker.js` | `webhook_deliveries`: status, attempts, nextAttemptAt | enqueue, claim, request, settle, give back, expire final attempts | webhooks' enabled flag, articles |
| Email outbox, `services/email/emailOutbox.js` | `email_deliveries`: status, attempts, lease | enqueue with a dedupe key, claim, renew, complete, fail, expire | SMTP, digests, password resets |

Hard here: two workers on one row after a lease ran out; a process that dies
between two transactions that belong together; readings of the clock that are
old by the time the row lock is granted; an attempt budget counted at one place
and compared at another; a user's retry among all of it. Right means: at most one
execution may settle a row; attempts are bounded; accepted work ends; a late
execution changes nothing newer; nothing a user did is forgotten.

### 1.2 Crawling

| Component | State | Operations | Interacts with |
|---|---|---|---|
| Feed execution, `controllers/crawl.js`, `services/feeds/feedClaims.js`, `feedFetchState.js`, `executionDeadline.js` | the feed's row: status, interval, nextFetchAt, quarantine, lease, endpoint, validators, import state; in memory: work and its controller, abort signal, the feed as read at the claim | claim, attempt, acquire, store items, terminal write, time out, release, observe | article creation, user edits, merges |
| Feed scheduling and edits, `feedScheduling.js`, `feedManagement.js` | the same row | status, interval, endpoint and credentials changed by the user | feed execution |
| Crawl runs, `services/crawl/crawlRunHeartbeat.js`, `startUserCrawl.js`, `controllers/crawl.js` | `crawl_runs`: one running row per user, owner token, heartbeat | start, renew, fail when stale, finish | feed execution, client |
| Crawl-priority lease, `services/jobs/crawlPriorityLease.js` | a row of `worker_leases` per pipeline | acquire, renew, release | crawl runs, AI worker |
| Feed slots, `controllers/crawl.js:105` | active count and a queue of waiters per process | wait, release | feed execution |
| Live progress, `services/crawl/orchestration/crawlJobManager.js` | jobs in memory with ring buffers | publish, subscribe, collect | client |
| Feed identity and reconciliation, `services/feeds/feedReconciliation.js`, `feedUrlAliases.js` | feeds, aliases, articles | merge feeds that are one, moving articles and the caller's lease | feed execution |
| Acquisition, discovery, parsing, content, identity of articles, OPML | mostly none | HTTP and text | feed execution |

Hard here: the deadline of a feed races its own terminal write; work goes on
after the deadline released the lease; the in-memory feed is older than the row;
the user edits the row meanwhile; workers crash. Right means: an execution that
was superseded writes nothing; conditional requests use validators of the
endpoint in force, and only of complete imports; every due feed is requested in
the end; the user's switch wins.

### 1.3 Inference, reading and the client

| Component | State | Operations |
|---|---|---|
| Inference circuit breaker, `services/inference/inferenceCircuitBreaker.js` | closed, open, half-open; failures; one probe | admit, report, open |
| Inference work queue, `inference/src/queue/inferenceWorkQueue.js` | waiting jobs by priority, running count, detached jobs | enqueue, abort, run, reject when full |
| Events, `services/events/` | `articles.eventId`; the event's count, representative and developing article | join, create, remove members, repair, merge |
| Duplicates, hot articles, recommendations, briefings, search, smart folders | rows computed from articles | recompute, query |
| Offline article actions, `client/src/services/articleSynchronization.js`, `offlineDatabase.js`, `services/articles/syncActions.js` | IndexedDB queue, account epoch and lease shared by tabs; receipts on the server | enqueue and coalesce, dispatch, acknowledge, retry, discard, invalidate |
| Article list and read state, `client/src/components/articles/feed/pagination.js`, `readState.js` | pages, cursor, request generations, pending marks | load, refresh, load more, mark read or unread |
| Accounts, push, API facades, archiving, schema, desktop shell | rows and processes | single requests, start and stop |

Hard here: answers that arrive after the question lost its meaning; several tabs
on one queue; lost acknowledgements; places held by work nobody waits for;
articles and events chosen without locks and brought together under them. Right
means: what the reader did is handled once, in order, and not forgotten; a place
is given back however its work ends; an event's row agrees with its members.

`PROJECT.json` lists each component with what is modelled, and each hazard at the
line where it bites with the property that covers it, or why none does yet (the
most telling ones where a part is not modelled).

## 2. The modules

| Module | Models | Lines |
|---|---|---|
| `ProcessingJobRow` | a row of `processing_jobs`, the WHERE clauses and SET lists of its statements | operators only |
| `ProcessingJobQueue` | producers, slots that execute jobs, lease recovery, the clock | `EXTENDS ProcessingJobRow` |
| `JobLifecycle` | what the queue promises to those who use it: phases, one holder, attempts; no lease, no clock | abstract specification |
| `ArticleEnrichment` | an article against the jobs of its content versions | queue by `INSTANCE JobLifecycle` |
| `PersonalizationRefresh` | the reusable refresh job, islands and scores | queue by `INSTANCE JobLifecycle` |
| `FeedExecution` | one feed's row, its executions and its user | |
| `Outbox` | what both outboxes promise whoever puts a message in: no lease, no worker, no clock | abstract specification |
| `WebhookDelivery` | delivery rows and the places of the workers' batches | implements `Outbox` |
| `EmailOutbox` | delivery rows, batches of web processes, SMTP | implements `Outbox` |
| `CrawlRuns` | crawls and their rows, feed slots, pipelines and the priority lease | |
| `InferencePath` | circuits of a server process, requests, the service's queues and their gate | |
| `OfflineActions` | the browser's queue and lease, its tabs, the server's receipts | |
| `EventMembership` | articles, events and the transactions that bring them together | |
| `MC...` | symmetry and constant definitions for TLC | |
| `...Proofs` | theorems about the module named; `OutboundCallsProofs` about `WebhookDelivery` and `InferencePath`, `DerivedDataProofs` about `EventMembership` and `PersonalizationRefresh` | |

How state corresponds:

* **ProcessingJobQueue.** `row[j]` is the database row of one identity, `none`
  its absence. `exec[s]` is what one slot of one worker process remembers: its
  program point in `executeClaimedProcessingJob`, the claim it made, and whether
  the heartbeat lost the lease. `lease` and `wait` are leaseUntil and availableAt
  relative to the database's present. Each statement carries the age `d` of the
  `now` its process read before it waited for a lock. `activation` and `starts`
  are history variables.
* **JobLifecycle.** `tries` counts the grants of a job since it was last opened. A
  lease that runs out is a `Revoke` that may happen at any moment. `ProcessingJobQueue` implements it (`ImplementsLifecycle`), which is
  what entitles the two modules above it to use it in place of the queue.
* **ArticleEnrichment.** `article` is the row of one article, with its content
  version in place of the hash; one job per version, as the dedupe key has it.
  Content may return to a former version. `kept` is a history variable: the content
  has a job and no revision has changed it since that job was last opened.
  `expired` holds the jobs a recovering worker found dead and has yet to mark on
  the article: a separate transaction in the code.
* **PersonalizationRefresh.** `payload` is the job's payload; `order` is the
  relation "evaluated in a later second than" among the scorers that took an
  evaluation time and the stored score, which is all that the code asks of those
  times, ties included; the ghosts
  say which scorers and which stored score account for every reader action.
* **FeedExecution.** `work[c]` is `processSingleFeed`, `ctl[c]` is
  `runFeedWithTimeout`; both hold `mem[c]`, the feed as read at the claim.
  `plan[c]` is the terminal write under way. A row-locking transaction is one
  step; every await between transactions may interleave.
* **WebhookDelivery.** `row[d]` has status, attempts and nextAttemptAt (null, due
  or ahead); `place[p]` is one place of a worker's batch with the attempt number
  it holds; `heard` is what receivers were sent, a history variable.
* **EmailOutbox.** `batch[w]` is what one claim of a process gave it and it has yet
  to handle, `phase[w]` where the first of it stands; a claim is told from a later
  one of the same row by its attempt. `hist` is what SMTP saw.
* **Outbox.** A message is put, carried, confirmed or given up, and may be removed.
  An attempt carries one copy at most, and one that was given up may still arrive.
  `Stage` of the two modules above maps a row's status to the stage of its message;
  the copies are the requests a receiver was sent (`heard`) or the messages the
  provider took (`hist`), by attempt.
* **CrawlRuns.** `crawl[c]` is one call of `performCrawlOperation`, `row[c]` its row
  with the recency of its heartbeat; `active` and `waiters` are the limiter of a
  process, `holding` which crawl has its slots; `gate[p]` is a row of
  `worker_leases`.
* **InferencePath.** `breaker[c]` is a circuit; `call[r]` the admission a caller
  holds (`stale` once its circuit was configured anew); `net[r]` an answer under way;
  `gone` the callers whose leaving the service has not noticed; `running`,
  `waiting` and `detached` the queue of each capability; `model` and `gate` the
  queue of model calls all capabilities share.
* **OfflineActions.** `queue`, `local`, `epoch`, `lease` and `unsettled` are in
  IndexedDB, shared by the tabs; the queue, a batch and its results are functions of
  the local sequence number. `run[t]` is the `request` in progress in tab t,
  `visit[t]` a download or an online operation that shares the lease; `handled` are
  the receipts, in the order the server wrote them, with the intent each keeps;
  `stray` the requests given up that may still arrive. `expected` says what the
  reader should find. Since every place that names an action is proved to say the
  same of it, the server's check for a reused identifier never fires and is left out.
* **EventMembership.** `article[a].event` is eventId; `earlier` are the articles
  that had been read when a arrived, all that readAt and createdAt are compared
  for. `tx[w]` is a transaction between its unlocked reading and its commit, with
  the event rows it has locked.

## 3. How the code is abstracted

* Statements and transactions under a row lock are single steps; what a process
  read before is state of its own and may be stale.
* Multi-row transactions are modelled row by row. The claims of a batch are
  independent rows locked with SKIP LOCKED, so this adds interleavings and
  removes none.
* The UUID drawn for leaseOwner is the slot, execution or place itself, as each
  holds one claim at a time; in `FeedExecution` a crawl that returns to idle has
  lost its lease or released it, so a reused name is a fresh UUID.
* Coalesced renewals (`processingJobHandlers.js:155-182`) reach no state that
  confirming and losing the lease later does not.
* Claims in `ArticleEnrichment` and `PersonalizationRefresh` include the first
  renewal, which only filters them.
* Payload validation, unknown contract versions and foreign owners end a job as
  other refusals do. The schema's `cancelled` status is never written.
  The miss of a retry that meets a locked row (SKIP LOCKED) is modelled.
* An `explicit_feedback_refresh` job is requested and completed by the same code
  with no delay and only scores; it is not modelled on its own.
* Evaluation times in `PersonalizationRefresh` are those of clocks that agree, in
  whole seconds as interestScoredAt has them: a scorer is later than, or of the
  same second as, the latest before it. The correction when articles are read
  (`refreshExpiredArticleInterests.js`) is not modelled.
* `FeedExecution` leaves out muting (it narrows "due"), backoff and failure
  counts (a failed feed is due "later"), convergence of endpoints and
  `supersededClaimedFeedIds` (merges). The heartbeat is the assumption that a
  live lease ends only by a stall or a crash of its holder; acquisition and its
  ownership check are one step; several edits in one request are several edits.
  One active crawl run per user is not assumed.
* `WebhookDelivery` reduces nextAttemptAt to null, due and ahead; a lease may run
  out under its holder at any time since the holder waits for the database;
  request and answer are one step; conditions, payloads and signatures are left
  out; deletion of an article or webhook deletes the row by cascade. The article
  and its feed are two reads: either may find nothing, the row deleted or not
  (`SourceUnavailable`). Oldest first
  appears as strong fairness of the claim of each row.
* `EmailOutbox`: a lease is live or lapsed, and lapses under a holder only by a
  stall or for a delivery that waits behind another. A database error while a
  result is recorded leaves the row to its lease, so the message is sent again.
* `CrawlRuns`: feeds are claims, at most `MaxFeeds` of a crawl; after a lost
  heartbeat a crawl goes on as the code does. The priority lease's expiry under a
  living holder is left out, and so is the AI worker that looks at it. Any
  statement of a crawl may fail, with its effect or without (`StatementThrows`): a
  crawl whose terminal write fails leaves its row running until it is stale.
* `InferencePath`: sending and arriving are one step, so a lost request is one
  whose answer is. Breakers of other processes are other instances; their load is
  more requests. Streams have no circuit, remote providers no gate. A request of
  the model is one job of one queue under one circuit. A classification is up to
  three jobs over two queues under one circuit, one after another
  (`inference/src/classifications/articleClassificationService.js:483-505`), and
  several circuits share the generation queue
  (`services/ai/providers/inference.js:5-20`): neither is modelled.
* `OfflineActions`: `acknowledgeActions` and `retryActions` are two transactions in
  the code and one step here; between them the lease may lapse, and the second
  checks it again. A write of the second that fails is left out: its catch
  (`articleSynchronization.js:59-68`) may then put acknowledged actions back in the
  queue, and the receipts make sending them again harmless. A page is read and
  overlaid with the queue in one step, since an assignment in between does not
  touch what the server sent. A field is an article's state or saved mark; which
  articles an assignment names is a choice among `Selections`, and what the view
  showed of them is any value, stored or not.
* `EventMembership`: any articles may match, whatever the evidence and the time
  window; a transaction's locked reads and writes are its commit. Lock orders
  differ between removals and merges, and what deadlocks is rolled back
  (`RollBack`). What becomes of the removed articles is chosen at the commit, which
  allows more than the callers do. Merges take one pair at a time. The reset
  script and the deletion of a user are left out.

Beside some definitions stands a faulty variant: a slip a change of the code
could make. Each property is known to notice at least one.

## 4. The runs

| Run | Instance | States | Shows |
|---|---|---|---|
| `processing_queue` | 1 job, 2 slots, 2 attempts, lease 2 ticks, readings up to 1 tick old, 2 activations | 30,003 | the inductive invariant: leases, attempts, owners, reasons for death; live leases end by their holder; refinement of `JobLifecycle`; accepted work settles |
| `enrichment` | 2 versions, 2 workers, 2 attempts | 1,042,530 | while its content stays, success settles the article; stale jobs touch nothing; analysis ends or the article is left to stranded recovery, unless the queue is for ever busy elsewhere or with retries |
| `enrichment_retry` | 1 version, 2 workers, 1 attempt, no fairness | | finding, section 7 |
| `feed_execution` | 2 crawls, 1 change: edit, fault or publication | 377,427 | superseded executions write nothing; validators; complete imports; the switch; a due feed is requested |
| `refresh_safety` | 2 workers, settings run, timer, 3 request ids, 1 attempt for each activation | 1,596,951 | no action is lost but in two ways; actions are prompt; one calibration per request |
| `refresh_liveness` | 1 worker, 2 attempts | 306,270 | activity does not starve the refresh; it rests when activity ends |
| `webhook_delivery` | 1 delivery, 2 places, 3 attempts, 3 toggles | 74,728 | the budget of requests, the verdict, refinement of `Outbox`; deliveries conclude |
| `email_outbox` | 2 processes, 2 deliveries in one batch, 3 attempts, 1 fault | 97,909 | each repeated message costs a fault; one sender; statuses tell the truth; the first in line is tried; refinement of `Outbox`; deliveries conclude |
| `crawl_runs` | worker with 2 batches of users, server with one crawl, 2 slots, 3 crawls, 1 fault | 445,066 | one running row, verdicts and rows agree, no slot leaks, overlaps and refusals have one cause each, crawls end |
| `inference_path` | 3 embeddings, 1 generation, 1 waiting place, threshold 2, 1 restart or reconfiguration | 149,177 | one probe per circuit that always ends; only it closes a circuit; no place lost or idle; bounded waiting at the gate |
| `offline_actions` | 2 tabs, 1 field, 2 assignments, 1 fault, 1 change from outside | 1,894,140 | handled once and in order; copy and server agree; nothing is dropped; completion is earned |
| `event_membership` | 3 articles, 2 events, 2 transactions, removals of up to 2 articles | 970,808 | rows agree with members; pointers move for a reason; no member is taken over |

Where a run names an invariant `...Consistent`, it is the type invariant with the
named parts that its module lists.

Why the bounds are enough. A hazard of the queue needs an execution that lost its
lease, one that took over and a new activation, hence two slots, two attempts and
two activations; a lease of two ticks with readings one tick old has live,
disputed and expired leases. With one job TLC does not exercise the order of
claims; the variant with two jobs, two slots and one activation (197,833 states)
holds as well, and a finite number of activations cannot starve a job. For the
safety of the queue the proofs need none of these bounds. An article needs two
versions for staleness, and for content that returns, and two workers for a late execution beside a new one. A
refresh needs three request ids: one in the row, one in a snapshot, one drawn
afresh. One attempt for each activation is enough for its safety: a job that died
and is retried by the user keeps its request and its checkpoint, so the second
execution of one request is there; the backoff of a retry is in `refresh_liveness`,
and the proofs hold for every number of attempts. A feed needs two crawls for a superseded one and the change that made it
so; with one crawl name and two changes `FeedExecution` holds as well, and the
proofs need no bound. A webhook delivery needs three attempts for one late, one
current and one left, and so does an email; two emails make one wait behind the
other. A crawl overlaps another after one fault; three users in two batches make a
batch of two, a next batch, and a user who asks beside them. The gate needs a
running, a waiting and a detached embedding beside a generation. Actions need two
tabs of which one is behind, and two assignments of one field for order and
coalescing; the order over several fields is the same queue. Two events are
needed so that one article may be wanted by two, two transactions for every race
between an unlocked reading and a commit; three articles leave an event in place
when one is taken out.

TLC checks for deadlock in the queue, feed and refresh runs. In the others the
system may come to rest (settled rows, no caller, nothing queued, bounds used up),
so `CHECK_DEADLOCK FALSE`. Symmetry is used only in runs without liveness
properties, over workers or request ids, which the specifications never tell
apart.

## 5. Fairness

* Queue: a worker is up and polls (`ecosystem.config.cjs` restarts it), its loop
  recovers expired leases, handlers end since inference calls time out, time
  passes. A crash, a producer and the user are never fair.
* Refresh: the same, with `Revoke` in place of time.
* Enrichment: executions do not all stand still, and an expired lease is recovered
  in the end; these are weak fairness of some worker's progress and of some
  recovery. Nothing is assumed of claims, which prefer urgent and newer jobs
  (`processingJobQueue.js:200-202`), so that jobs of other articles may be preferred
  for ever: `AnalysisConcludes` excepts a job that waits for ever beside a free
  worker (`PassedOver`) and an article whose jobs are opened over and over
  (`OpenedForever`).
* Feeds: the worker polls for due feeds, work under way and its deadline go on,
  and leases of the dead run out. Nothing else makes a feed due or the user act.
* Webhooks: time passes, the worker polls, requests end (`webhookDelivery.js`
  gives each a timeout), and oldest-first claims pass over no row for ever, which
  is strong fairness of a row's claim because a lease may make it come and go.
* Email: the loop of a process polls, SMTP calls end by their timeouts, time passes;
  crashes, stalls and lost answers are never fair.
* Crawls: promises of a living process resolve. Nothing is assumed of heartbeats,
  new starts or administrators; a crawl whose process died counts as ended.
* Inference: the timer of each call fires and a model call ends. That an answer
  arrives, or that the service notices a caller's leaving, is not assumed.
* Offline actions: `FairSpec` is for `IntentsSettle` (section 7).
* Event membership has no liveness: a transaction that rolls back leaves its work to
  the next pipeline.

## 6. The proofs

TLAPS proves, for every value of the constants that satisfies the modules'
named assumptions (non-empty budgets, null values that are not identities):

* `ProcessingJobQueueProofs`: `TypeCorrect`, `Invariance`,
  `LeasesBelongToRunningRows`, `OwnerIsCurrent`, `RetriesAreBounded`,
  `LateSuccessIsImpossible`, `LiveLeasesAreExclusive`, `DeathHasAReason` and
  `QueueImplementsLifecycle`. The invariant is `InductiveInvariant`. That the
  attempts of a row bound the handler runs is not inductive: one must know that
  an execution which still owns its row but has not begun has not spent its
  attempt (`UnspentClaim`), that owners hold the present attempt
  (`OwnerHoldsCurrentAttempt`), and for the claim that pending rows have budget
  left (`PendingHasBudget`). Lemmas about `ProcessingJobRow` say what each update
  does to a row's type, owner and lease; one lemma per action carries the
  invariant. The refinement maps each step to a step or a stutter of
  `JobLifecycle`.
* `FeedExecutionProofs`: `TypeCorrect`, `OwnerAlwaysKnows`,
  `ValidatorsAlwaysMatch`, `IncompleteImportAlwaysFetched`, `OffAlwaysStaysOff`,
  `SupersededNeverWritesAgain`, `LeaseAlwaysEndsWithItsCrawl`. The invariant is
  `OwnerKnows`: whoever still owns the lease knows the endpoint in force, because
  replacing the endpoint ends the lease in the same transaction, and one that was
  superseded never owns it again.
* `OutboundCallsProofs`, on `WebhookDelivery`: `TypeCorrect`, `NumbersAreSentOnce`,
  `NothingIsEverStranded`, `VerdictsAreEarned`, `DeliveriesStayConsistent`,
  `SettledStaysFinal`, `WebhooksImplementOutbox`. Its heart is
  `Numbers`: the attempt numbers places hold are distinct and none exceeds the
  row's counter, so the only place that may lower the counter, when it finds its
  webhook disabled, holds the highest number that was never sent. The refinement
  rests on it: a place sends under a number that carried no request before, and
  only the place whose number the row counts, with the receiver's yes in hand, makes
  the message a sent one (`RecordedMoves`).
* `ArticleEnrichmentProofs`: `Invariance`, `SuccessAlwaysSettles`,
  `StaleJobsNeverTouch`, `CompleteStaysFinal`, `AnalysisIsAlwaysOfCurrentContent`.
  What makes it inductive: jobs and executions belong to contents the article has
  had (`KnownContents`, `KnownTargets`), and an execution whose handler returned
  has left its content settled (`ReturnedIsSettled`) if the content has been `kept`,
  so the success that the queue grants later finds the article as it should be. An
  execution that found its content replaced may return when the content is back;
  no job was opened for the return, so `kept` is false then, and the job that makes
  it true again is opened while no execution holds it. The last two theorems state
  properties of the module that no run carries.
* `DerivedDataProofs`, on `EventMembership`: `Invariance`, `RowsAlwaysAgree`, `RepresentativeStays`,
  `UnreadDevelopingStays`, `LeavingNeedsAReason`. `EventsMatchMembers` is inductive
  together with what transactions remember of their choice (`Remembered`). The lemma
  the rest hangs on (`AfterInv`) is about any step that reconciles a set of events:
  an event outside the set keeps its row even when articles are deleted, since its
  representative is one of its members, and the events of all that go are in the
  set. `RemoveInv` and `MergeInv` show that the events a removal or a merge touches
  are such a set, though they were found before the locks were taken.
  `PointersChange` then needs to look at joins only.
* `DerivedDataProofs`, on `PersonalizationRefresh`: `RefreshInvariant`,
  `RefreshStaysConsistent`, `OneCalibrationPerRequest`. That a succeeded job has
  missed no action is not inductive: the scores are written in batches that no lease
  fences, by executions, settings runs and crawls at once. `Answers` says what makes
  it so. An execution that works for the present request (`IsAnswered`) read islands
  and evidence that account for every action, so did every scorer evaluated later
  than it, and so does the stored score if that was evaluated later; once the
  execution has written, the same holds of the stored score and those evaluated
  later (`Settled`). Whoever writes last, then, writes a score at least that good.
  `AnswersWritten` carries this through a write, which hands the scorer's
  evaluation time to the stored score: it rests on that relation being a weak order
  (`Ordered`, kept by `InPlaceOfIsOrdered`), so that what is not earlier than a
  later one is later too; a scorer of the same second may write over a newer score,
  which is then `tied`, not `stale`. A new action draws a request
  that nobody holds, so that nobody answers it yet. `CheckpointsAreKept` is for the
  calibrations: the row remembers the request last calibrated for, as far as it is
  the present one or that of the lease's holder.
* `EmailOutboxProofs`: `OutboxInvariant`, `OutboxStaysConsistent`,
  `DuplicatesArePaidFor`, `FirstsAreTried`, `EmailImplementsOutbox`. The proof keeps
  an account. A message the
  provider took is `Safe` once its row says sent, or while the worker that sent it
  can still record that; a worker that talks to SMTP without owning the row is one
  of the `Orphans`. `Counted` says that the messages taken and the orphans never
  outnumber the faults and the safe deliveries together; `Faultless` is the case
  without faults, and `HeadsWait` keeps the first of a batch owned until it is
  tried. The account needs finitely many processes, which `BoundsAssumption` says.
  For the refinement, `TakenOnce` adds that an attempt the provider took is counted
  in its row and its claim is past SMTP or gone; since claims are apart
  (`ClaimsAreApart`), no later send can be of the same attempt. A claim that ends
  several exhausted rows is one `GiveUp` of all of them.
* `CrawlRunsProofs`: `CrawlInvariant`, `CrawlsStayConsistent`,
  `OverlapsFollowRecovery`, `RefusalsFollowAnEnd`, `LiveRunsAreKept`. Rows are kept
  apart by the one running row a user may have (`OneRunning`); slots by two facts,
  that only crawling crawls hold them or wait for them (`SlotsKept`) and that the
  count of a process is the sum of what its crawls hold (`Granting` shows it through
  the loop that hands slots on); the lease by what a pipeline knows of its crawls
  (`PipelinesKnow`).
* `OfflineActionsProofs`: `OfflineInvariant`, `ActionsAreHandledOnceInOrder`,
  `CopyComesToAgree`, `NoActionIsDropped`, `ReconciliationIsEarned`. The order on the
  server rests on what every request under way carries, in a tab or astray: all
  older actions still to be handled (`OlderTravelAlong`), so whatever is still to be
  handled is younger than what was (`NoneIsLate`), and what is under way is queued
  as it was sent or already settled (`FlyingAreQueued`). `TabsKnow` says what a tab
  knows of its own request, and of the queue as long as the lease is its own: that
  is what entitles `acknowledgeActions` to remove what it names. `Agreement` ties
  the copy and the server to the reader's expectation through every reading under
  way: an answer, a download and an online operation agree while the lease they
  were read under lasts. Most steps change none of this (`Calm`) or only forget
  expectations (`ForgettingAgreement`); the rest have a lemma each.

* `OutboundCallsProofs`, on `InferencePath`: `PathInvariant`, `PathStaysConsistent`,
  `OnlyProbesCloseCircuits`. The four promises of `PathConsistent` are not inductive
  by themselves: that a caller has its job or its answer does not say that a job
  under way has no answer yet, nor who has left it. `Accounted` does: every request is
  asleep, served, answered, left by its caller or forgotten, and each stage fixes the
  call, the answer, the leaving and the job. `JobsArePlaced` keeps a job in its
  queue once, and either waiting or running; `ProbesAreKnown` says that probes are
  out only where their circuit says so. The lemmas before them state what
  inserting by priority, appending, removing and taking do to the members of a
  queue; `GateJobByJob` turns the gate's equality of sets into a statement about
  each job, which one lemma per action of the service preserves.

Each theorem follows the same line: the initial states satisfy the invariant,
one lemma per action preserves it, and the last step combines them temporally.

With these, every safety property of every run is a theorem. All liveness is only
model-checked: fairness and ENABLED are beyond the proof system used, as is what a
recursive definition computes for every input; no module here is recursive.

## 7. What was found

One run ends in a violation of what the repository says of itself:
`enrichment_retry` (`articleEnrichmentJobHandler.js:329`). The failure mark of a
dead job comes in a later transaction and does not look whether the job is still
dead. A user's retry in between is undone: the retried job finds the article
failed and succeeds, and the article stays failed with no dead job to retry.
Contrast `services/jobs/README.md:41-43`.

Seven formulas that no run carries are false of the code as well; each stands
beside the property that holds instead. Put the formula into the run's cfg as the
invariant (or property), or drop the condition named, to see the trace.

| Formula, in the instance of | What the code does | What holds instead |
|---|---|---|
| `NoActionIsLost`, `refresh_safety` | Two ways. A scorer that finds its score already stored writes only the evaluation time (`scoreArticlesFromIslands.js:132`); an older scorer that wrote in between leaves an old score under the newer time. And times of the same whole second count as not newer (`scoreArticlesFromIslands.js:77-78`), so the scorer that read its evidence first may write last. Contrast `services/jobs/README.md:82`. | `OnlyMixedOrTiedScoresLoseActions`: there is no third |
| `SuccessSettlesArticle` without `kept`, `enrichment` | A revision opens no job, and content may come back to a former version: the article is then pending beside a job that has succeeded (or that an execution completes because it found the content replaced), until stranded recovery opens the job again (`processArticleRevision.js:134`, `strandedArticleRecovery.js:74`). | `SuccessSettlesArticle`: while the content stays |
| `ExactlyOneTerminal`, `feed_execution` | A deadline that falls while the terminal write waits for the row lock makes no write of its own and releases the lease; the waiting write finds no owner and nothing is recorded (`controllers/crawl.js:1226`). Contrast the comment at `controllers/crawl.js:677`. | `DueFeedIsRequested`: the feed is requested again |
| `DisabledStaysDisabled`, `feed_execution` | The terminal write sets the feed active, though the user disabled it during the crawl (`feedFetchState.js:49`). Contrast `docs/feeds-and-categories.md:215`. | `OffStaysOff`: the interval is respected |
| `GateCoversCrawls`, `crawl_runs` | One failed crawl of a batch ends the await of all of them, and the priority row is deleted while the others go on (`scripts/runSemanticPipeline.js:86`). Contrast `docs/how-rssmonster-works.md:84`. | `GateHeldUnlessOneFailed` |
| `FailedWasTried`, `email_outbox` | A delivery that waits behind a slow one loses its lease and an attempt each time, and may fail without ever being sent (`emailOutbox.js:211`, and `:150` for the exhausted). | `FirstInLineIsTried` |
| `WaitingEmbeddingsGoFirst`, `inference_path` | The gate sees one job per capability, so while an embedding that ended makes room for the next, a generation waiting at the gate starts before it (`inferenceWorkQueue.js:137`; contrast `docs/inference.md:682`). | `SecondInLineIsServed`: which is also what keeps the second capability from starving |

`IntentsSettle` of `OfflineActions` (every queued action is settled in the end
while a tab is signed in) holds under `FairSpec` with one assignment and all the
faults; with two it takes too long beside the safety properties, so no run
carries it. `CompleteIsFinal` and `AnalysisIsOfCurrentContent` of
`ArticleEnrichment` hold in the instance of `enrichment` and are proved.

Observed while modelling, without a formula:

* Feeds. Enabling a disabled feed whose credentials were replaced leaves
  nextFetchAt null (`feedManagement.js:751`), which `models/feed.js:325` reserves
  for disabled and quarantined feeds. Items that fail while the validators are
  accepted are not tried again until the feed changes (`controllers/crawl.js:1091`,
  `docs/architecture/crawl-system-contract.md:65`). The observation of a crawl
  (`feedCrawlObservability.js:132`) is written without regard to the lease, so a
  late one overwrites a newer status.
* Enrichment. Claims take the newest job of a priority first
  (`processingJobQueue.js:200-202`), so an older article may wait as long as newer
  ones keep arriving.
* Webhooks. A delivery whose feed is gone between the reading of its article and
  that of the feed, as when the feed is merged into another, fails for good with
  nothing sent and attempts left (`webhookDelivery.js:176-182`), though article,
  webhook and delivery are still there (`VerdictIsEarned` says so).
* Offline actions. An action that was sent and then discarded by the reader may
  still take effect later (`HandledOnceInOrder` excepts it). `reconcileArticles`
  (`offlineDatabase.js:380`) checks the epoch and not the lease. An online "mark as
  seen" can be undone by the queued retry of an older, opposite assignment.
* Crawls. A crawl that lost its heartbeat goes on claiming feeds; only their own
  leases and its terminal write notice.
* Email. The scheduler of digests polls every five minutes for the hour of the
  user and can miss a late one.
* Inference. With three capabilities a generation can be starved by embeddings and
  scorings that alternate. A full queue counts as success for a probe, and failures
  of requests from before a circuit closed count after it.
* Events. Removals and merges lock events and articles in different orders, so
  they can deadlock, and are then rolled back. `transferArticles` may leave a
  survivor with status `duplicate` though nothing it duplicates is left, and a
  survivor that was hidden for two reasons comes back.

## 8. What is not modelled

* Text, HTTP, parsing, discovery, scoring and similarity: no interleaving there,
  and outcomes enter the models as choices.
* Queries and recomputations that are idempotent: duplicates, hot articles,
  recommendations, search, briefings; the vectors, windows and labels of events.
* Accounts, push, API facades, archiving, the schema, the desktop shell and
  presentation: single requests or sends, or no state of their own.
* The reading side of the client, `ArticleList` in the plan: request generations
  over pages and the order of read and unread marks (`readState.js:282`).
* Live progress and previews: jobs of one process that are lost with it.

## 9. The plan

1. Queue, with its abstract specification and refinement. Done.
2. Article enrichment and personalization refresh over it. Done.
3. Feed execution with deadlines and edits. Done.
4. Webhook delivery and the email outbox. Done.
5. Offline actions: tabs, account lease and epoch, coalescing, lost answers,
   receipts, another device. Done.
6. Crawl runs with slots and the crawl-priority lease. Done.
7. The path of an inference request: circuits over the work queues. Done.
8. Event membership, with the merges of reconciled feeds. Done.
9. Proofs of the safety of every module. Done. Where safety is proved for every
   instance, the run can shrink to the instance its liveness needs.
10. The abstract specification of the outboxes, implemented by webhook and email
    delivery. Done.
11. `ArticleList`; previews and live progress.
