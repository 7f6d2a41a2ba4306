# Verification of the itinerary system

TLA+ specifications of *Sistema de Itinerarios Personales*, checked with TLC and proved about with TLAPS.
The system is a set of FastAPI services around PostgreSQL, Redis and RabbitMQ: a user logs in at a gateway,
browses the airports of API Colombia, keeps itineraries, and is notified of each one that is created.
Everything here is read off the code under `src/`; where a document or a comment is the specification of a
property, the property quotes it.

1. [The system](#1-the-system)
2. [Modules](#2-modules)
3. [Runs](#3-runs)
4. [Fairness](#4-fairness)
5. [Proofs](#5-proofs)
6. [Findings](#6-findings)
7. [What is not modelled](#7-what-is-not-modelled)
8. [Plan](#8-plan)

To check a run: `tlc -config OutboxSafety.cfg MCOutboxDelivery.tla`; to check proofs:
`tlapm OutboxDeliveryProofs.tla`.

## 1. The system

| Component | Code | State | Operations |
| --- | --- | --- | --- |
| Itinerary service | `itinerary-service/app` (`application/service.py`, `infrastructure/database.py`) | tables `itineraries` and `outbox`, row locks | create, get, list, update, delete |
| Event pipeline | `outbox_worker.py`, `shared/.../broker.py`, `notification-function/app` | `outbox.published_at`, durable queue, dead-letter queue, `notifications` | publish a batch, deliver, save once, ack, nack, reject |
| Airport service | `airport-service/app` | `airports:fresh` and `airports:stale` in Redis, the circuit breaker of the process | list, get, translate |
| Report function | `report-function/app` | none; reads the itineraries page by page | report |
| API gateway | `api-gateway/app`, `shared/.../auth.py` | rate counters in Redis; tokens carry the session | login, forward |
| Frontend | `frontend/app.js` | token, airports, trips, pending deletion | login, logout, load, create, edit, delete, report |
| Shared helpers, settings, migrations, deployment | `shared/`, `migrations/`, `infra/`, `scripts/` | none at run time | – |

They interact in four ways.

* **Synchronous calls with a forwarded token.** Browser → gateway → airport, itinerary or report; itinerary →
  airport (does each airport exist?); report → itinerary (pages of 100). Each hop verifies the token anew and has
  a timeout of its own (60 s at the gateway, 30 s inside, 8 s per attempt at the provider).
* **The outbox.** A creation writes the itinerary and its event in one transaction. Workers publish what is
  unpublished, consumers write notifications. The two sides share only the durable queue.
* **Shared storage.** Several workers share the outbox table, several consumers the queue, several requests the
  rows of a user, several gateways the counters, several airport calls the two cached copies.
* **Retries.** Both loops of the pipeline, the provider's client and the broker retry; nothing else does.

What is hard about each, and the properties that make it correct:

| Component | What is hard | What must hold |
| --- | --- | --- |
| Itinerary service | update validates over HTTP between its two transactions; two INSERTs and a commit whose confirmation may get lost | creation is atomic with its event; a deleted itinerary stays deleted; a locked row does not change; concurrent requests look atomic |
| Event pipeline | a crash between any two of publish, confirm, mark, commit; a handler that outlives its connection; several of everyone | nothing published is lost, nothing is notified twice, nothing uncommitted leaves, only invalid bodies are dead-lettered, everything is notified in the end |
| Airport service | concurrent fills whose writes fail one by one; late failures and successes around an open circuit; swapped axes | the fallback outlives the fresh copy; data is served no longer than promised; an open circuit is quiet, and closes again |
| Report function | no snapshot: pages interleave with writes, and rows do not commit in the order of the pages | the total was true at some instant; misses and repeats are bounded by overlapping writes |
| Frontend | one state object, handlers that await: answers of another session, of a closed dialog, of a load overtaken by a write | the list is true once the writes are known; a session ends for a reason and leaves nothing behind; a button is disabled exactly while it is awaited |
| From request to notification | the answer of a creation and its event take different paths, each with failures of its own | 201 means notified in the end, a refusal means never; whatever happens to the itinerary meanwhile |
| API gateway | fixed windows back to back, INCR with EXPIRE, replies lost, Redis down; tokens that expire between two hops | at most two limits in a window's length; nobody is locked out for ever; an expired token is a 401 |

The hazards, each at its line, are in `PROJECT.json`.

## 2. Modules

Each component has a module with its constants, `Init`, one action per await-to-await stretch of a handler or
loop, `Next`, the specification and its properties; an `MC` module with what TLC needs; and a `Proofs` module.
A step that the code does without awaiting is one action. What happens between two awaits of the same process
cannot be interrupted by its own event loop, and what is awaited may fail, take its time, or be answered after
the caller is gone. Definitions marked *Mutant* are not part of a specification: each is a plausible bug in the
definition that follows it, and the property it is meant for fails when it takes that definition's place.

| Module | Models | Used by |
| --- | --- | --- |
| `NotifyContract` | the abstract pipeline: committed events are delivered once | `OutboxDelivery` (refinement) |
| `OutboxDelivery` | outbox, workers, broker, consumers, notifications | `MCOutboxDelivery`, `OutboxDeliveryProofs` |
| `ItineraryContract` | the abstract itinerary service: each call takes effect at one instant | `ItineraryStore` (refinement) |
| `ItineraryStore` | the four writing and reading handlers, await by await | `MCItineraryStore`, `ItineraryStoreProofs` |
| `AirportCatalog` | cached copies, retries and breaker | `MCAirportCatalog`, `AirportCatalogProofs` |
| `AirportTranslate` | coordinates of a record, a pure function | `MCAirportTranslate`, `AirportTranslateProofs` |
| `ReportPaging` | paged reading against concurrent writes | `MCReportPaging`, `ReportPagingProofs` |
| `Gateway` | limiter, login, token checks, forwarding | `MCGateway`, `GatewayProofs` |
| `Frontend` | the page: session, list, dialogs, buttons, requests under way | `MCFrontend`, `FrontendProofs` |
| `System` | `ItineraryStore` and `OutboxDelivery` over one outbox table | `MCSystem`, `SystemProofs` |

### OutboxDelivery

| State or action | Code |
| --- | --- |
| `outbox[e]` | the committed `OutboxRow`: absent, pending, published (`published_at`) |
| `SelectBatch`, `NextBatch`, `Selectable` | the query of `publish_batch`: unpublished, `ORDER BY created_at, id`, `LIMIT`, `FOR UPDATE SKIP LOCKED` |
| `Publish`, `Accept`, `Mark` | `exchange.publish(..., timeout=10)`: send, the broker stores and confirms, the worker sets `published_at` |
| `CommitBatch`, `AbortBatch`, `PublishTimeout` | the end of the transaction; the except branch of `run` with its rollback |
| `place[k]` | whereabouts of a copy: the publisher's socket, the queue, a consumer, the dead-letter queue |
| `Deliver`, `Handle`, `RejectMalformed`, `SaveOnce`, `StorageFails`, `Ack`, `Nack` | the iterator of `consume` and the branches of `process_message` |
| `Subscribe`, `LoseConnection`, `AnswerFails`, `CrashConsumer` | connections that come and go |

`CommitCreate` is what the other modules of the system see of `ItineraryService.create`; `ItineraryStore` shows
that it is atomic. `Copies` are slots for copies that are alive at the same time. Of aio_pika's robust
connection the model has what the code can observe: an answer to a delivery of an old connection raises
(`AnswerFails`), a dropped idle connection is a `CrashConsumer` followed by `Subscribe`.
PostgreSQL's and RabbitMQ's own behaviour (row locks, `SKIP LOCKED`, durable queues, requeueing) is external.

### ItineraryStore

`Begin` is the route; `Build`, `Read`, `Validate`, `AddItinerary`, `AddEvent`, `LockRow`, `WriteRow`, `DeleteRow`,
`Commit`, `Return` and `Abort` are the stretches between awaits of the handlers and of the unit of
work. `unsaved` holds what a transaction has flushed, `lock` whom a row's lock belongs to, `outcome` what a handler
will answer. The commit and the answer are two steps: at label `answer` the writes are visible to everybody, while the
handler still awaits the confirmation of the commit and the close of the session; if either fails, an `Abort` answers
503 although the writes stay. `ItineraryContract` has the same three instants: a call is made (`Begin`), takes effect
(`Succeed`) and is answered (`Return`). The transaction of `get` alone reads one row and ends at once, so it is one step; the two calls of `_validate` have one joint outcome.
`invalid`, `missing` and `unavailable` stand for 400, 404 and any 5xx. `list` writes nothing and is the subject of
`ReportPaging`. Isolation is READ COMMITTED, PostgreSQL's default.

### AirportCatalog and AirportTranslate

A call walks `readFresh → request → (writeStale → writeFresh | readStale)`; each label is one await of
`list_airports` (service or adapter). Any Redis operation may fail, with or without effect. `failed`, `open` and
`rest` are the state of the `circuitbreaker` package as it is configured here, which is external code: when the
recovery time is over all calls pass, the first success closes the circuit, and a failure at or above the
threshold opens it again. The failure count is capped at the threshold, beyond which it makes no difference.
Time is in ticks. A request to the provider may take any time; both writes to Redis end within `WriteDelay`
(`socket_timeout` of 2 s), which is far below the difference of the two times to live (`TtlAssumption`; 23 h).
`GET /airports/{id}` is `list_airports` followed by a lookup. Redis persists what it holds
(`--appendonly yes`); its eviction of catalogue entries (two entries, 128 MB, `volatile-lru`) is left out.

`AirportTranslate` has one step, `Translate`, over every pair of raw coordinates. `Null` is what `float()` refuses
and what the adapter returns for no coordinate. `TooLarge` stands for a JSON integer that no float can hold: `float()`
raises `OverflowError`, which `translate` does not catch, and the record is left without a translation (`Raised`); what
becomes of the whole collection then is finding 1. Degrees are integers: the function only compares them.

### ReportPaging

A row is its rank in `ORDER BY created_at, id`. `Stamp` draws `created_at` (before the airports are validated),
`CommitCreate` commits in any order, `CommitDelete` deletes; an update keeps `created_at` and moves nothing.
`FetchPage` is one query of the loop of `list_all`: the rows at `OFFSET` the number of rows read, up to
`PageSize`. `Selects` says what a page is instead of sorting. `steady`, `low`, `high`, `shifted` and `late` are
history: they say what happened to the rows while the report was read. One reader suffices, since readers do not
affect each other. The loop of `loadTrips` in the frontend is the same.

### Gateway

Counters are kept per address, so the module has one. `Count` is the Lua script, which Redis runs as one step;
the count is capped one above the limit, where the answer does not change any more. `Allow`, `Refuse` and
`LimiterFails` are the middleware, `Login`, `Authenticate`, `Serve`, `ServeInner` and `UpstreamFails` the request;
`nested` requests are the creations, updates and reports, whose service asks another one with the same token.
`Recount` is the retry of redis-py after a lost reply. An observer, who may begin to watch at any instant, counts
the requests let in during the length of a window: `Watch`, `watch`, `seen`. He stops when Redis loses the counter
(`LoseCounter`: restart, or eviction, which hits counters first as they have a time to live).

### Frontend

A handler of `app.js` runs to its `await` as one action and from the answer on as another.

| State or action | Code |
| --- | --- |
| `token`, `airports`, `list` | `state.token` (and its copy in sessionStorage), whether `state.airports` is loaded, the copies `state.trips` holds of each itinerary |
| `dialog`, `editing`, `pendingDelete` | the modal dialog that is open, the hidden field `itinerary-id`, the global of that name |
| `disabled` | `button.disabled`, set by `busy` and by the handler of the form |
| `request[s]` | the request that sender `s` awaits, with the session whose token it carries; a sender is a load started by the page (`start…`), by a login (`login…`) or by a button |
| `Login`, `ReloadPage` | the login's answer with `enter()`; the script that runs again, with `enter()` if sessionStorage has a token |
| `ClickLogout`, `Denied` | `logout()`, by the user or by a 401 |
| `OpenForm`, `AskDelete`, `CloseDialog`, `Submit`, `ConfirmDelete`, `ClickRead` | the other clicks |
| `AirportsArrive`, `DrawMap`, `MapDrawn` | `loadAirports`, which awaits `Plotly.newPlot` after its answer: until the map is drawn, the button that started the load stays disabled |
| `TripsArrive`, `Saved`, `Deleted`, `ReportArrives`, `Failed` | what each handler does with its answer |
| `Serve`, `Fail`, `Settle`, `Expire` | gateway and services: an answer, a failure whose write may still be carried out, a token that expires |

Modal dialogs make the rest of the page inert (`Clickable`), and no request is aborted: an answer finds the page as it
is by then. `orphans` are writes nobody awaits any more, because the request failed for the page only or the page was
reloaded. `dirty` and `unsure` are history: the itineraries written while a load was under way, and those about which the
list may rightly be wrong for a reason that `ListIsTrue` names. The page is the only client of its user, and the listing
fits on one page. A login is one step with its answer (one that fails changes nothing, and what arrives
while it is under way finds a page without a token, as it does before). What a card shows of an
itinerary, the search and filter of the airports and what the map shows are left out.

### System

`System` EXTENDS `ItineraryStore` and instantiates `OutboxDelivery` with the ids as events (an itinerary has one event,
that of its creation). `AnswerIsKept` relates what a client is told to it: after a 201 the event is `OnRecord`, that is,
its outbox row is pending, or the event is notified or held by the broker. After a refusal, and before it, nothing of the
creation is published. The worker is another process and sees the row from the commit on, so the event may overtake the
201: what is published belongs to a creation that is at label `answer` or has been answered 201 or 503. A step of a request (`ServiceStep`) leaves
the pipeline alone unless it commits a creation; then `EventCommitted` inserts the outbox row, which is `CommitCreate`
of the pipeline. `PipelineStep` is any step of a worker, the broker or a consumer, and leaves the service alone. Each
side has its own budget of failures.

## 3. Runs

| Run | Instance | Shows |
| --- | --- | --- |
| `outbox_safety` | 2 events, 2 workers, 2 consumers, 3 copies, batches of 2, 1 invalid body, 2 failures | `NoSilentLoss`, `BatchesAreExclusive`, `AtMostOneNotification`, `OnlyCommittedLeave`, `OnlyInvalidIsDead`, `AckAfterCommit` |
| `outbox_liveness` | 2 events, 2 workers, 1 consumer, 2 copies, batches of 1, 2 failures | `EveryRowPublished`, `MalformedIsDeadLettered`, `QueueDrains`, and `ContractSpec`: the pipeline implements `NotifyContract` with its liveness, so every committed event is notified |
| `itinerary` | 3 requests, 2 users, 1 id, two valid and one invalid input, 2 failures | `ItineraryHasEvent`, `NoResurrection`, `OwnRowsOnly`, `LockedRowIsStable`, `ContractSpec`: the service implements `ItineraryContract`, and every request is answered |
| `system` | 2 requests, 2 ids, 1 worker, 1 consumer, 2 copies, 1 failure on each side | `AnswerIsKept`, and `NotifySpec`: the composition implements `NotifyContract` with its liveness |
| `catalog` | 2 calls, times to live 2 and 4, writes up to 2 ticks, 2 attempts, threshold 2, recovery 2 | `FreshHasFallback`, `BoundedAge`, `OpenCircuitDrains`, `EveryCallAnswered`, `CircuitRecovers`, `CatalogueHeals` |
| `catalog_fallback` | 2 calls, times to live 2 and 3 | violated: see finding 1 |
| `translate` | all pairs of 29 values: both sides of every bound, inner points, no number | `ColombiaIsRestored`, `OthersStay` |
| `report_paging` | 5 itineraries, pages of 2 | `TotalWasTrue`, `MissesAreDeletions`, `RepeatsAreLateCreations`, `ReportEnds` |
| `gateway` | 2 callers, window 2, limits 2 and 1 | `AtMostTwoWindows`, `QuotaReturns` |
| `gateway_token` | 1 caller, token life 2 | violated: see finding 2 |
| `frontend` | 2 itineraries, 2 versions of each, 2 sessions, 3 calls | `ListIsTrue`, `SessionEndsForAReason` |
| `frontend_delete` | 2 itineraries, 1 session, 3 calls | violated: see finding 3 |

Each passing run with invariants also checks the `TypeOK` of its module, which beside types says what shape the
state has (for example, that a row is locked only inside a transaction, or that a counter counts exactly while it
has a time to live).

Why these bounds are enough. The races of the pipeline need two workers for one batch and two consumers for one
event that is delivered twice; three copies allow a duplicate beside another message; two failures allow a failure
while another one is being repaired. The races of the itinerary service need a writer, a
deleter and a reader of the same row; two users and a second failure cover ownership and a failure while a first one is
answered. Two calls interleave their pairs of writes in every way; times of a few ticks contain every order of expiries.
A further request, id or call takes TLC beyond minutes; the safety properties of both runs are proved for any number.
In the system a second request deletes or updates what the first one created while its event is on its way, or creates
another itinerary. Three calls let a load, a write and a second write (or a login, a load and a write) of the page
overlap in any order, over two sessions. Five rows and pages of two make reports of up to three pages plus the empty one
that ends a full last page, with deletions and late creations between any two. Windows of two ticks and limits of one
and two contain the burst across the edge of a window. Bounds that exist only in the models are `MaxFailures`,
`MaxPipelineFailures`, `Copies`, `MaxRows`, `MaxCalls`, `MaxSessions`, and the numbers of requests, ids and events;
`PageSize`, `BatchSize`, `Prefetch`, `Attempts`, `Threshold` and the times and limits are settings of the code, made
small.

Symmetry is used in `outbox_safety` and `frontend`, never with a liveness property. Only
`translate` may stop (its one step is done); in `ItineraryStore`, `OutboxDelivery` and `System` the legitimate end is an
explicit action (`AllServed`, `AtRest`), so that deadlock is checked.

## 4. Fairness

* `OutboxDelivery!Fairness`: `run` and `consume` are loops that catch what they can and start over, and the processes
  are restarted (`restart: unless-stopped`); so each worker and consumer is weakly fair in its own steps. The broker
  serves a queue that has a consumer, and TCP delivers or breaks. Failures and creations need not happen.
  Failures are bounded, which is what makes "in the end" meaningful: a worker whose every attempt fails makes no
  progress in the program either.
* `ItineraryStore!Spec`: weak fairness for each handler: every await ends, the HTTP calls by their timeout, the
  database by an answer or an error. Locks need no strong fairness in these instances: finitely many requests
  compete.
* `AirportCatalog!Spec`: each call goes on (timeouts, finitely many attempts) and time passes. Nothing is assumed
  of the provider; `CatalogueHeals` speaks of behaviours in which it is well from some point on.
* `Gateway!Spec`: time passes. No caller is obliged to do anything.
* `ReportPaging!FairSpec`: a query that neither fails nor times out (15 s) is answered. Nobody stops writing, but at
  most `MaxRows` rows are drawn: `ReportEnds` shows that only further creations can keep a report going. That they do
  not do so for ever (the rate limit admits 120 a minute, a page holds 100) is a fact about time scales.
* `Frontend!Spec`: `fetch` settles, since the gateway answers within its timeout or the connection breaks, and the event
  loop runs what awaits it. The user need not do anything. The finding's run is the one that states it.
* `System!SystemSpec`: the fairness of the two parts, nothing more.

## 5. Proofs

| Module | Theorems | Inductive invariant |
| --- | --- | --- |
| `OutboxDeliveryProofs` | `TypeCorrect`, `PublishedIsNotLost`, `WorkersDoNotShareRows`, `NotifiedOnce`, `NothingUncommittedLeaves`, `ValidEventsAreNotDeadLettered`, `AcknowledgedIsNotified`, `ImplementsContract`, `HeldIsForever`, `InvalidBodiesAreKept`, `DuplicatesNeedFailures`, `RetriesRunOut` | what a worker, a copy, a consumer and a row know |
| `ItineraryStoreProofs` | `TypeCorrect`, `CreationIsAtomic`, `DeletedStaysDeleted`, `RowsBelongToTheirOwner`, `LocksProtect`, `ImplementsContract`, `WaitsEndWithTheHolder`, `HandlersOnlyAdvance` | control, flushed writes, claims and locks of each request |
| `AirportCatalogProofs` | `TypeCorrect`, `FallbackOutlivesFresh`, `CopiesAgeBounded`, `OpenCircuitIsQuiet`, `LateFailuresRunOut`, `CallsNeverLoop` | `Backed`, and the sum of age and time to live |
| `AirportTranslateProofs` | `TypeCorrect`, `ColombianAirportsAreRestored`, `OtherAirportsStay`, `TranslationIsIdempotent` | the airport is the translation of the record |
| `ReportPagingProofs` | `TypeCorrect`, `TotalIsOfAnInstant`, `MissesAreBounded`, `RepeatsAreBounded`, `EveryPageCounts` | the rows the offset has passed |
| `GatewayProofs` | `TypeCorrect`, `TwoWindowsAtMost`, `RefusedRequestsDoNotProlong` | the observer's account |
| `FrontendProofs` | `TypeCorrect`, `SessionEnds`, `ListTrue`, `RequestsAreNotReplaced` | what the page knows, and what each request under way will make of it |
| `SystemProofs` | `ServiceRuns`, `PipelineRuns`, `AnswersKept`, `SystemNotifies`, `SystemImplementsContracts`, `NothingStoredIsForgotten`, `PipelineKeepsItsPromises` | the service's and the pipeline's invariants, `Coupled`, `OwnIds`, `Told` |

All of them hold for every value of the constants that satisfies the named assumptions of the module, which say no
more than that bounds are natural numbers, null values are none of the values they stand beside, and (airports) that
the fallback's time to live exceeds the other one by the time of the writes.

* **Pipeline.** `NoSilentLoss` is not inductive: a worker that has the confirm but has not marked the row yet knows
  something that is in no property. The invariant says so for each worker (its confirmed row is held by the broker or
  notified; an awaited copy is in the socket and carries the row being sent), each copy, each consumer (what it
  acknowledges is notified; a tag it may answer is delivered to it) and each row. One lemma, `HeldStable`, says that no
  step takes away both the notification of an event and its last copy; the rest follows. The refinement maps
  `committed` to the rows that exist and `delivered` to the notified events. `HeldStable` is itself a result
  (`HeldIsForever`). That duplicates come from failures only rests on an invariant of undisturbed runs (`Undisturbed`):
  an event that has ever had a copy is published, or the worker that sent it still has its row in hand (`InHand`). A
  failure may leave a worker waiting for a confirm that will not come, or a consumer with a message it could not store
  or whose connection is gone: each then owes one retry, and `RetriesRunOut` keeps these accounts.
* **Itinerary service.** The invariant follows each request: where it is tells the operation and that its input is
  valid; what it has flushed; that a creation that has not committed yet (`Pending`) owns an id nobody else has written under; that an update or
  deletion about to commit holds the lock of a row that is there and belongs to its user. The commit is then the step
  `Succeed` of `ItineraryContract`, the answer its step `Return`, and all other steps are stutters or refusals. A request takes its one lock last, so whoever holds
  it only writes and commits (`WaitsEndWithTheHolder`), and requests cannot wait for each other in a circle, however
  many there are. Every step raises the `Stage` of one request, from 0 to at most 7.
* **Catalogue.** A call at `writeFresh` has written the stale copy, or somebody has since: `Backed` says that the
  copy's remaining time plus the age of what the call got is at least `StaleTtl`. With `TtlAssumption` the fresh copy,
  when written, expires first. An entry's age plus its remaining time stays what it was at the write. `Asking`, the
  calls that may still fail at the provider, never grows while the circuit is open; `Left`, the steps a call has yet to
  take, falls with each of them.
* **Paging.** The rows the offset has passed are those with fewer than `offset` rows before them. A page reads exactly
  the rows it passes; a deletion moves at most one row back across the offset, a late creation at most one forward.
  Rows that are missed are therefore paid for by deletions, rows repeated by late creations. `high`, the most rows there
  have been, is bounded by `MaxRows` (`HighInv`) and bounds the offset, hence the pages.
* **Gateway.** What the observer has seen belongs to the window that was open when he began, or to that one and the
  next. The next one got its whole time to live after he began, so it outlasts him, and there is no third.
  Only the request that opens a window sets its time to live.
* **Frontend.** `ListIsTrue` speaks of moments when no write is under way, so it says nothing of the steps in between. The
  invariant says what list and server have in common all the time (`Sure`): for an itinerary outside `unsure`, what the
  list will show when the answers under way have arrived (`Expected`) is what the server stores. A load that has been
  answered has seen what is stored, outside `dirty` (`Read`). Beside these the invariant has the shape of the page (which
  button belongs to which request, which request writes) and that whatever names an itinerary names one whose id the
  server has drawn (`Known`), so that a new one is never mistaken for an old one.
  `RequestsAreNotReplaced` needs `Shape` only: a button is disabled exactly while its request is awaited.
* **System.** The steps of the composition are steps of `ItineraryStore` and of `OutboxDelivery` (`ServiceRuns`,
  `PipelineRuns`), so what is proved of each part holds in the composition; the pipeline's theorems are used there through
  `Delivery`, an instance of `OutboxDeliveryProofs` (`PipelineKeepsItsPromises`). What neither part can say: the
  service's events are the rows of the outbox (`Coupled`); no two creations draw the same id (`OwnIds`); and an answer
  agrees with the event (`Told`: from the commit on, before it is answered, a creation has its event, and what has its
  event is answered 201 or 503). With the pipeline's invariant, what is announced has a row, hence a committed
  itinerary, which makes the step `Deliver` of `NotifyContract`; and whatever is committed is on record
  (`NothingStoredIsForgotten`).

Most liveness properties of the runs rest on something that cannot go on for ever, because a measure bounds it. That
part is a safety property, and proved: retries by debts (`RetriesRunOut`,
for `EveryRowPublished` and `QueueDrains`), requests by `Stage`, calls by `Left` (`EveryCallAnswered`), late failures by
`Asking` (`CircuitRecovers`), pages by `high` (`ReportEnds`), windows by their time to live (`QuotaReturns`). That the
steps which lower the measure are in fact taken is what the fairness of section 4 adds, and that half is left to TLC.
These theorems are about any number of processes, where the runs have two or three.

Only model-checked: every liveness property, and the liveness half of the refinements (fairness and `ENABLED` are out
of the prover's reach). The refinement theorems are about the safety parts, `SafeSpec`.
Of `MalformedIsDeadLettered` it is proved that an invalid body is not lost on its way (`InvalidBodiesAreKept`); of
`CatalogueHeals` no part is.

## 6. Findings

1. **An unreadable item defeats the fallback** (`catalog_fallback`, `FallbackIsUsed`). `docs/README.md:31` promises the
   second copy whenever the provider fails. A collection with an item that is not an object makes `translate` raise
   `AttributeError` (`airport-service/app/infrastructure/adapters.py:87`), which is not among the exceptions that lead
   to the fallback: the call fails with 500 while the copy is there. A coordinate that is an integer beyond the range of
   `float()` has the same effect, by `OverflowError` (`adapters.py:62`).
2. **An expired token can be a 503** (`gateway_token`, `ExpiredIsUnauthorized`). `docs/README.md:103` documents 401 for
   expired tokens. When the token expires after a service accepted it and before the service that this one asks verifies
   it, `raise_for_status` turns the inner 401 into `AirportUnavailable` or `ItineraryUnavailable`, hence 503.
3. **A deletion takes the wrong itinerary off the list** (`frontend_delete`, `KeptTripStays`). The dialog says which one
   goes and which are kept (`frontend/index.html:131`). After the DELETE is answered, `app.js:236` filters by the global
   `pendingDelete`: if the user has closed the dialog and opened it for another itinerary by then, that one leaves the
   list although it is kept (and its dialog is closed), and the deleted one stays until the next load.

## 7. What is not modelled

* **Rendering, search, filters and the looks of the map of the frontend**: functions of the state that `Frontend` has. Several tabs
  share nothing but the server (sessionStorage is per tab).
* **A creation tried again by the user after a 503**: a new call with a new id; the code promises nothing about it.
* **Aggregation of a report**: sums over rows already read; pure, without state.
* **Wording, schemas, logs, traces, correlation ids, headers, URL rewriting, static files**: they carry no state that
  a property is about. Inputs are those that pass the schemas.
* **Names and codes of airports**: copied field by field. Of the catalogue, `AirportCatalog` keeps only its age.
* **Retention of published rows**: not automated in the program either.
* **Login throttling per account, revocation, refresh**: not in the program.
* **Migrations, compose files, CI, scripts**: the models take from them only what the environment may do.

## 8. Plan

Order of the modules, most important behaviour first. All of it is done.

1. Event pipeline: `NotifyContract`, `OutboxDelivery`, proofs of its safety and of the refinement.
2. Itinerary service: `ItineraryContract`, `ItineraryStore`, proofs of its safety and of the refinement.
3. Airport service: `AirportCatalog`, `AirportTranslate`, proofs.
4. Report: `ReportPaging`, proofs.
5. Gateway: `Gateway`, proofs.
6. Frontend: `Frontend`, proofs.
7. Composition of 2 and 1: `System`, with `NotifyContract` as its abstract specification, proofs.

What a change of the code should lead to: a new await splits the action around it; a new endpoint is an action of
`ItineraryStore` and a step of `ItineraryContract`; a second event type is a second set of events in `OutboxDelivery`.
