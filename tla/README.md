# A verification project for "멈춰, 섬!"

The repository is a pop-up event's web application: a visitor proves a purchase with a
photo of a receipt, gets a token for the day, and with it reserves one of a few seats for two
hours. A FastAPI backend over SQLite keeps the state, a Go service (`receipt-core`) reads the
photos, a Svelte single-page application is the client, and an operator audits, releases seats
and moderates a guestbook.

These modules model what is hard about it: handlers are synchronous functions run in parallel
by a thread pool, each with a database session of its own; a reservation ends by the clock, but
only when some request looks; answers are assembled from several reads; and the process may
die, or a statement fail, between any two statements.

## Files

| file | what it is |
|---|---|
| `Kst` | the clock, and the KST day of a UTC time |
| `Ledger` | abstract: the verification rows that carry a token, one approval per device and day |
| `SeatLease` | abstract: what the reservations side promises of its seats |
| `Booking` | reservations, their sweeps, the views of the seats, the operator's part in them |
| `Judge` | the verifier chain, a pure function |
| `Verify` | the receipt pipeline and the audit queue over the whole verifications table |
| `Guestbook` | posting, the rate limit, keyset pages and the screen that shows them |
| `Desk` | operators' sessions, and the edits of shops and seats behind them |
| `Capacity` | threads, connections and slots under a slow engine: backend and receipt-core together |
| `Client` | the stored reservation, the guard and the asynchronous handlers of the application |
| `MCBooking`, `MCVerify`, `MCGuestbook`, `MCDesk`, `MCCapacity`, `MCClient` | values and symmetry of the small instances |
| `BookingProofs` | theorems about `Booking`, for all values of its constants: types, exclusive seats, sweeps |
| `BookingRequestProofs` | more about `Booking`: what its answers say, `SeatLease` implemented, the promises about tokens |
| `VerifyProofs`, `GuestbookProofs`, `DeskProofs`, `CapacityProofs`, `ClientProofs` | theorems about the module named |
| `FiniteOrders` | lemmas about maxima and minima of finite sets of numbers, and the elements of a sequence, for `VerifyProofs` and `GuestbookProofs` |
| `*.cfg` | one per run |
| `PROJECT.json` | components, runs, mutants, the map from definitions to source lines, findings, hazards, theorems |

    SeatLease  <--implements--  Booking  --extends-->  Ledger  --extends-->  Kst
                                                         ^
                                      Verify  --implements
                                         \--extends--> Judge

`Booking` is composed with `Ledger`, not with the whole of `Verify`: the reservations side
reads of a verification only its token, status, day and device. That `Verify` implements
`Ledger` is what makes this sound. `Guestbook`, `Desk`, `Capacity` and `Client` stand on their own:
each takes the two sides whose interplay is hard (a screen and its handler, a guard and the
handlers behind it, backend and receipt-core, the screens and what the server answers) and
reduces the rest to a choice.

## Inventory

| component | state | operations | interacts with | what is hard | what makes it correct |
|---|---|---|---|---|---|
| Reservations: `routers/reserve.py`, `routers/reservations.py`, `reservations_core.py` | table `reservations`, partial unique index on active seats | reserve, read, cancel, `expire_stale` | token row of `verifications`; every seat view sweeps | check, sweep, look-up and INSERT are separate steps; blind UPDATEs by id | a seat is held once; only lapsed reservations expire; a sweep leaves none; ended stays ended; one seat per token |
| Views: `routers/seats.py`, `routers/status.py`, admin list | none of their own | sweep, then two reads; `/api/status` does it twice | reservations, seats | each part is of another moment | no lapsed holder is shown, no older holder overlooked |
| Verification: `routers/verify.py` | table `verifications`, partial unique index on approved device and day | submit a photo or a shop, read the day's result | OCR engine, chain, shops | an engine call of seconds inside the request; the duplicate check and the INSERT are apart | one approval per device and day; a receipt is accepted once; everything doubtful reaches the audit |
| Verifier chain: `ocr/verifiers.py` | none | `evaluate` | shops, today | priority among failures, thresholds | reject before retry before review |
| OCR engines: `ocr/*.py` | an HTTP client | `recognize` | receipt-core | timeouts, no receipt, error codes | a failure costs the visitor nothing |
| Operator: `routers/admin.py` | columns of the tables above, guestbook, shops | login, audit ok/revoke, toggle, release, delete, shops, statistics | all tables | two operators; revocation while the token reserves | an audit decides once; a revoked token holds no seat |
| Admin sessions: `adminauth.py` | in-memory dictionary with TTL | issue, check, drop | restart | lost at a restart, pruned lazily | a session is accepted exactly while it lasts; other logins do not matter |
| Guestbook: `routers/guestbook.py` | table `guestbook`, in-memory time of the last post | post, page through | restart, deletion by the operator | the limit is checked before and written after the INSERT; keyset pages while entries come and go | no entry repeated or skipped; the limit holds |
| Shops and seed: `routers/shops.py`, `seed.py`, `init_db.py` | tables `shops`, `seats` | list, idempotent seed, create, switch | chain, statistics | check-then-insert of an id | an operator's edits outlive a restart |
| receipt-core (Go) | semaphore of slots | `handleExtract` | model provider, backend's timeout | the caller gives up and the call goes on; slot given back on every path | never more engine calls than slots, no slot lost, nobody else waits |
| Client store and guards: `store.svelte.js`, `guard.js`, `poll.js` | localStorage: device, token, reservation | reconcile, guard, poll | API | late answers, several tabs, unmounted screens | a stored id is the reservation of this device; the guard admits only whom the server would |
| Screens: `routes/*.svelte` | local component state | submit, cancel, poll | store, API | double taps, lost answers | an uncertain answer is resolved by the server's state |
| Deployment | none | - | - | - | - |

## How the code is modelled

*Steps.* FastAPI runs each `def` handler in a thread; `get_db` gives it one session with
`autoflush=False`; pysqlite's legacy transaction control begins a transaction only before a
write. So a SELECT is an autocommit step of its own, and `UPDATE ... COMMIT` or `INSERT ...
COMMIT` is one atomic step (SQLite admits one writer; readers see committed states). Every
handler is a sequence of such steps. `req[w]` holds what the thread `w` is doing: `pc`, the
next step, and the handler's locals. Python code between two statements belongs to the
step before it.

*Blind writes.* SQLAlchemy writes a changed attribute as `UPDATE ... WHERE id = ?`. `SetStatus`
therefore changes a row whatever its status has become. The operator's handlers instead
use conditional UPDATEs (`WHERE status = 'active'`, `WHERE audited_at IS NULL`), which are
guards of the one-step actions `Release`, `Revoke` and `AuditOk`.

*Time.* `now` counts ticks of UTC. `KstDay` shifts by the zone's offset, so that midnight in
Korea falls inside a UTC day. A SELECT that compares with the clock (`datetime.utcnow()`) reads
it in the same step. Where the code keeps a clock reading over other statements the model does
too: `swept`, the `day` of a verification, the token's day checked early, and `made`, the date of
a reservation, which is read before its INSERT has the write lock. `InsertDelay` bounds the ticks
between the two, as SQLite's busy timeout of seconds bounds the wait: `TimePasses` does not
outrun an INSERT that waits, and one that would have to wait longer is a request that fails.

*Failures.* `Fail` is an exception from the database at any statement (a lock not obtained):
the session is closed and uncommitted work is gone. `Crash` is the end of the process: all
requests in progress disappear, tables stay. `Abort` in `Verify` is both. There is no
retry in the backend; a client's retry is another request.

| `Booking` action | code |
|---|---|
| `BeginReserve`, `Sweep`, `Flush`, `FindExisting`, `FindSeat`, `Insert` | `create_reservation`: token check; `expire_stale` SELECT; its UPDATEs and COMMIT; the token's reservation; the seat's existence and the reading of the clock; INSERT or the index's refusal |
| `BeginOwned`, `Flush`, `Load`, `CancelOwn` | `get_reservation`, `cancel_reservation` with `_load_owned` and the refresh |
| `BeginView`, `Flush`, `ReadTaken`, `ReadSeats`, `ListActive` | `seat_status`, `count_available`, `is_full`, the admin list |
| `Approval`, `AuditPasses`, `Revoke` | the verifications table as `Ledger` describes it; `Revoke` also cancels the token's reservations in the same transaction |
| `ToggleSeat`, `Release` | the operator's seat switch and release |
| `Deliver`, `Fail`, `Crash`, `TimePasses` | the environment |

| `Verify` action | code |
|---|---|
| `BeginVerify` | `verify_receipt` up to the path, with `_validate_image` |
| `ChooseShop` | `_handle_manual` |
| `EngineAnswers`, `JudgeReading`, `CheckDuplicate`, `InsertRow` | `_handle_photo`: `recognize`; active shops and `evaluate`; `_duplicate_exists`; `_persist_failure` or `_commit_approved` |
| `BeginStatus`, `ReadLatest` | `verify_status` and its two SELECTs |
| `AuditOk`, `AuditRevoke`, `SwitchShop`, `Abort`, `TimePasses` | the operator and the environment |

`Row.audit` joins `needs_audit` and `audited_at`. `seen` in a request is not program state: it
records how long the table was when the duplicate check ran, for `ResubmissionIsCaught`.
In `Booking`, `swept` is the clock reading of `expire_stale` (a local) kept until the answer
leaves, and `known` the reservations that were active when a view began, for the properties
about views. `verify_status` orders today's rows by `created_at` and id; as ids are random and rows
are stamped before they wait for the write lock, `ReadLatest` takes any of them.

| `Guestbook` action | code |
|---|---|
| `BeginPost`, `StampPost`, `InsertPost`, `NotePost` | `create_guestbook_entry`: validation and the limit; the flush, which stamps the entry; INSERTs and COMMIT; the refresh and `_last_post_at` |
| `PostAnswered`, `PostLost` | `handleSubmit` after its await; its `catch` and `finally`, which let the visitor post again while the handler, wherever it is, goes on |
| `SelectPage`, `PageArrives`, `LoadFails`, `RetryLoad`, `LoadMore` | `list_guestbook_entries`; `loadInitial` and `loadMore` around their awaits |
| `DeleteEntry`, `Restart`, `FailPost`, `TimePasses` | the operator and the environment |

An entry is stamped in Python before its INSERT has the write lock, so stamps and commits may
be in different orders. `post[h]` is a request with its handler, and `post[h].screen` the screen that
still waits for it, so requests of one screen overlap as soon as an answer is lost. `noted`, `since`,
`base` and `doubled` are history: the posts the limit knows of (of two that overlapped, the
one noted last, as the reading it leaves may be the older one), those it knew of when a request
asked it, what a first page was taken from, and the posts that a page had already brought when
their answer came.

| `Desk` action | code |
|---|---|
| `Login`, `Guard` (in every arrival) | `login`, `create_session`; `require_admin`, `_is_valid` |
| `BeginPatch`, `LoadRow`, `WriteRow` | `update_shop` and `toggle_seat`, which differ in their columns only: `db.get`, then the UPDATE of what differs |
| `BeginCreate`, `LookForShop`, `InsertShop` | `create_shop`: `db.get`, then the INSERT or the primary key's refusal |
| `Deliver`, `Fail`, `Restart`, `TimePasses` | the environment |

`log[k]` keeps every version of a row, the last being the row itself, so that a property can ask
what was in force while a request ran. `name` stands for every column but the flag.

| `Capacity` action | code |
|---|---|
| `Arrive`, `Start` | a request waits for a thread of the pool, first in, first out |
| `Connect`, `PoolTimeout`, `Commit`, `Close` | a handler's connection: taken by a statement, given back by `db.commit()` and taken again by the statement after it, given back by `get_db` at the end |
| `PostImage`, `Receive`, `CallTimeout` | `HttpReceiptEngine.recognize` |
| `Admit`, `ReadImage`, `Recognize` | `handleExtract`: key and semaphore, form and image, engine |
| `DropAnswer`, `CoreRestart` | the environment |

`code` is what a handler knows of its answer: a submission calls the engine before it has committed
anything, so no commit follows a failed call, and a pool timeout after a commit leaves what was committed.

| `Client` action | code |
|---|---|
| `Navigate`, `Scan`, `Confirm`, `Release`, `Retry`, `Verified` | the visitor: links and the guard of `/reserve`, a seat's code, `Reserve.confirm`, `Reservation.release` and `load`, the Verify screen |
| `FetchSeat`, `Sync`, `Online` | Reserve's poll of the seat and its retry; the interval and the check at expiry of `Reservation`, which wait for no earlier answer; Main's `online` listener |
| `Serve` | the backend, as far as one device sees it, `GET /api/seats` included |
| `Receive` with `Reconciled`, `Applied`, `SeatFetched`, `Confirmed`, `Released` | what runs after the await: `reconcileReservation` and its caller, `apply`, `fetchSeat`, `confirm`, `release` |
| `Lose` | the request or its answer does not arrive, and the await throws |

The button of `/reserve` is there while the seat is known to be available (`tab[t].seat`); the
device's own reservation makes its seat a taken one (`held`). `mounted` says whether the screen
that made a call is still there. A handler writes to the store
and pushes routes even if it is not; `Reserve`'s redirect and every change of the screen
ask first, or have no effect.

External code is modelled from its use: the clock, a restart, and the model provider behind
the engine (any reading of `Readings`, no receipt, or no usable answer). SequenceMatcher's
ratio is the parameter `Similarity`, a table in percent.

## Runs

| run | instance | shows |
|---|---|---|
| `booking_races` | 2 workers, 2 tokens, 2 seats, 2 ids, time 0..3 | exclusive seats, expiry only after the time, truthful `ALREADY_RESERVED` and cancel answers, `SeatLease` implemented, with revocations and releases |
| `booking_services` | 2 workers, 2 devices, 1 seat, 2 ids, time 0..2 | complete sweeps, consistent views, only owners cancel, over failures and crashes |
| `booking_serial` | 2 workers, 2 tokens, 2 seats, 3 ids, time 0..2, the requests of one token apart | what the documents promise of a token holds as long as nothing of the same token overlaps a reservation of it |
| `booking_live` | 2 workers, 1 seat, 2 ids, time 0..2 | a lapsed reservation is released |
| `verify_pipeline` | 2 workers, 2 devices, 3 photos (one of them invalid), 4 readings, 2 shops, 2 rows, one midnight | audit, lock-out and resubmission properties |
| `verify_ledger` | the same with 1 photo and fixed shops | one approval per device and day; `Verify` implements `Ledger` |
| `booking_d08` | 2 workers, 1 token, 2 seats | *violated:* one token, two seats |
| `guestbook` | 2 tabs of 1 device, 2 posts handled at a time, one list followed, 4 ids (2 of them there from the start), pages of 1, time 0..1 | pages neither skip nor repeat; the limit counts what was posted and nothing else |
| `desk` | 2 workers, 2 sessions, 2 ids (1 taken), 2 values, 3 versions of a row, time 0..1 | sessions decide alone; edits take effect and keep to their columns; an id is created once |
| `capacity` | 2 submissions, 2 other requests, 3 threads, 2 connections, 1 slot, 2 calls, 1 commit; one of each kind outwaits the pool's timeout | the engine is bounded, no slot is lost, others are served whatever the engine does |
| `client` | 1 tab, 2 reservations, 2 seats, 2 calls under way | the store is cleared only on the word that a reservation is over, the end of a reservation is noticed, a disabled button comes back |
| `client_late` | the same, without losses and revocations | *violated:* a late answer clears the id of the new reservation |

*Why the bounds are enough.* The hazards are between two requests and one or two rows: two
workers give every interleaving of two handlers, and an operator's step or the clock comes
between any two of their steps in addition. Two ids allow a reservation that ends and a second
one that takes its seat, which is what stale writes could hurt; the third of `booking_serial`
lets one token reserve again while the other holds a seat. A lease lasts one tick, and so long may
an INSERT wait for the lock, the most `BookingAssumption` allows: a row may be committed in the tick
in which it lapses. Two ticks let a lease lapse and three also let its successor lapse; a day is two
ticks with midnight at an odd one, so every instance passes midnight in the middle of a lease. In `Verify` two rows are what a
duplicate, a second approval of a day, or an approval after a revocation needs. In `Guestbook`
two new entries beside two old ones, with pages of one, let an entry be posted, stamped late or
deleted on either side of a cursor, and ids lie between, before and after the old ones so that
ties of the stamp go both ways; only one screen's list is followed because a list depends on
the other screens through the table alone. Two tabs of one device, and two handlers, let posts of
one device overlap both from two tabs and from one that lost an answer. In `Desk` the third version
of a row is what two overlapping edits make. In `Capacity` one slot, fewer slots than connections and fewer connections
than threads keep the order of the defaults (8, 15, 40), which is all `CapacityAssumption` asks
for; two submissions fill the core and exceed it, also with a call whose caller has gone; four
clients are more than the threads, so a request waits for one; a submission that holds its connection and
a request that commits between two statements contend for the two connections. In
`Client` two ids are an earlier and a later reservation of the device, two calls let one answer
overtake another; two seats let a reservation be on the scanned seat or on another.

Names of bounds: `MaxTime`, `ResIds`, `MaxRows`, `Readings`, `Ids`, `Readers`, `MaxWrites`,
`Bodies`, `Handlers`, `Calls`, `Commits`, `MaxCalls`, `InsertDelay`, and `Ops`, the kinds of requests
or failures an instance makes. Without `overlap` in `Ops` a token is neither sent again nor revoked
while a reservation of it is being made (`MayStart`); nothing in the code sees to that, and every other
run of `Booking` has it.
`IdsLeft`, `RowsLeft` and `Room` stop new requests when ids, rows, versions or calls are used up.
Symmetry is used only in safety runs.

*Fairness.* `booking_live` assumes `WF` of each worker's own steps: the operating system
schedules threads, statements end. `SF` of `PollSeats`: the main page polls every 30 s
(`poll.js`) and a request that waits for a thread gets one whenever one becomes idle often
enough, the pool's queue being first in, first out. No fairness is assumed for the clock, for
visitors or for the operator. The server itself has no background sweep, so without
`PollSeats` the property is false.

`Capacity` assumes that threads run and take up what waits for them (`WF` of `Start`, of a handler's own
steps and of receipt-core around the engine), first in, first out as the thread pool's limiter does, and
that a request that waits for a connection is not passed over for ever (`SF` of `Connect`). Of the engine
nothing is assumed, and of the caller's timeout only in `SubmissionsAreAnswered`, as its premise:
`OthersAreServed` holds even if no call ever ends, because the core turns away instead of waiting, and
slots are fewer than connections. With a core that waited it fails (the mutant). It is about the
requests in `Patient`, those whose wait for a connection stays below QueuePool's thirty seconds; the run
has others beside them, which are cut off. It counts only an answer the handler came to itself.

`Client` assumes that the server works and the browser runs its continuations (`WF` for each kind of
call), and that of the interval's lookups, which are repeated, not every one is lost (`SF` of
`Sync` and of serving and receiving it). A call may be lost at any time.

*Mutants.* Each property is broken by a plausible bug in one mapped definition (a dropped
index, a missing commit, a sweep left out, a missing owner check, an unconditional UPDATE): the
operators commented "Wrong:".

## What the runs found

Two runs are kept for what the code gets wrong against its own documents:

- D-08, one active reservation per token: the look-up and the INSERT are apart and no index
  backs them (`booking_d08`).
- The store clears whatever id it holds when an answer about an ended reservation arrives, also
  when that answer is about an earlier one (`client_late`), though never without such an answer
  (theorem `DropsFollowEnds`); `Reservation.load` compares on the
  403/404 path, `apply` and `reconcileReservation` do not.

Divergences seen while modelling that no run is kept for; those of the first group appear
as soon as two handlers overlap:

- VF-903 (`03-verify.md:472-476`), VF-504: a revocation between the token check (`reserve.py:65`) and the
  INSERT leaves the revoked token with a seat, though in either order no reservation should
  be left. `RevokedHoldsNothing` holds where the two do not overlap.
- RSV-504 (`04-reserve.md:211`): the losing half of a double tap on one seat is told `SEAT_TAKEN`
  (`reserve.py:123`), not `ALREADY_RESERVED`.
- RSV-606 (`04-reserve.md:271-275`), SYS-104 (`07-system.md:41-44`): `cancel_reservation` and `expire_stale`
  overwrite each other's ending (`reservations.py:88`, `reservations_core.py:30`), in spite of the
  comment at `reservations.py:80-81`; the seat is free either way, the history is wrong.
- SYS-402/VF-902: two overlapping submissions of one receipt are both approved
  (`verify.py:206,285`), as the docstring at `verify.py:114-116` concedes. A receipt approved
  before the check is refused (`ResubmissionIsCaught`).
- `verify_status` reports an approval that is committed between its two SELECTs as rejected
  (`verify.py:314,324-340`).
- GB-404/405 (`05-guestbook.md:173,178-179`): two tabs that post at the same time both get past
  the limit, which is read at `guestbook.py:140` and written at `guestbook.py:155`, and so do two posts
  of one tab whose first answer was lost while its handler was at work (`Guestbook.svelte:129-140`);
  the later write may even put the older reading back. `NotedPostsCount` says what remains.
- GB-401 (`05-guestbook.md:147-154`): a post answered while the first page is under way is
  replaced by that page, and shown twice if the page already had it (`Guestbook.svelte:88,123`).
  `NothingRepeated` excepts exactly that post.
- A post whose entry is deleted between COMMIT and refresh is answered with an error and not
  counted by the limit (`guestbook.py:152`).
- ADM-603: the loser of two overlapping creations of one shop id gets a 500, nobody catching the
  primary key's refusal (`admin.py:356`).
- `Reservation.svelte` is one component for all ids: an answer about the id shown before is applied
  to the one shown now (lines 59, 87, 98).

The others are in the code whatever overlaps:

- `is_open` is not looked at when reserving (`reserve.py:106`); `db-schema.md:50` says a closed
  seat cannot be reserved.
- ADM-103 describes a limit on login attempts, which `login` does not have; ADM-104 names the
  code `SESSION_EXPIRED`, `require_admin` answers `ADMIN_UNAUTHORIZED`.
- `http_engine.py:39-40` counts on receipt-core's deadline of 8 s being reached first, but
  `TimeoutSeconds` of `config.go:14` is not used by `handleExtract`: `Recognize` has no deadline
  in the model. `07-system.md` decides 5 concurrent calls, `config.go:25` has 8.
- RSV-505/506 (`04-reserve.md:213-222`): after a lost answer the visitor's own reservation makes the seat
  `taken`, so the next poll (`Reserve.svelte:81`) takes the button away (`Reserve.svelte:91,155`) and the
  retry that would find the reservation is not offered any more; the store does not know of it.
- A request that is between its token check and its INSERT at KST midnight reserves with
  yesterday's token (SYS-202, `07-system.md:75`).
- `expire_stale` is strict (`expires_at < now`, `reservations_core.py:27`) where
  `07-system.md:19,38` decides `<=`.
- `/api/status` computes `available_seats` and `is_full` from two reads
  (`status.py:22,39`), which may disagree in one answer.
- D-11 and SYS-102 describe a background sweep every minute; `main.py` starts none.

## Proofs

Every safety invariant, action property and refinement that a passing run checks is also a theorem,
proved by TLAPS for all values of the constants that satisfy the named assumptions: any number of
workers, devices, seats, tokens, photos, rows, screens, tabs, slots and calls, any lease, window,
page size and day length. The theorems are about `Spec`; no fairness is used.

All proofs have the same layout: an inductive invariant, which TLC checked on the small instance
before it was proved; one lemma for each action (or for a group of actions that do the same to the
state); initial states and `Next` put together; and the property from the invariant or, for
action properties, from the invariant and one step. What a step may change at all is put in
a lemma of its own (`TableEvolution`, `Grows`, `BookGrows`, `LogGrows`), so that what other workers
do need not be looked at action by action.

| theorem (`Spec =>` ...) | why it is inductive, and what had to be added |
|---|---|
| `BookingProofs!TypeCorrect`: `TypeOK` | `Insert` writes the seat the request carries; `SeatsKnown` says that it is a known one |
| `OneHolderPerSeat`: `SeatHeldOnce` | active rows only appear by `Insert`, which the index guards (`TableEvolution`) |
| `NothingExpiresEarly`: `ExpiredHasLapsed`; `SweepLeavesNothingLapsed`: `SweepComplete` | `SweepInv`: the ids about to be marked had lapsed by the sweep's clock reading, and until its COMMIT every active row that had lapsed is among them, since a new row lapses only after the reading |
| `BookingRequestProofs!NamedReservationIsOwn`: `AlreadyReservedIsMine`; `CancelledStaysOver`: `CancelledIsOver`; `TakenSeatsHadHolders`: `TakenIsNotLapsed`; `AvailableSeatsWereFree`: `AvailableWasFree` | `RequestInv`: what a request has read remains true of the table in the form in which it matters later (a row once loaded stays its token's, an ended row stays ended, a row that the view knew of and that is active is in what it read) |
| `OwnerGivesUp`: `GivenUpByOwner` | the row a request cancels is one of its device; the operator's steps are excluded by the hypothesis on `Ops`, since they do cancel |
| `TableIsSeatLease`: `ImplementsSeatLease` | step by step; a row that is being cancelled was inserted |
| `ApartTokenHoldsOne`: `TokenHoldsOne`; `ApartRevokedHoldsNothing`: `RevokedHoldsNothing` | without `overlap`, for any number of workers; `TokenInv`: the token a reservation has checked is still approved and, from the look-up on, still without one, and no other reservation under way is with it |
| `VerifyProofs!TypeCorrect`: `TypeOK` | `RoomOK`: requests under way and rows together fit `MaxRows` |
| `OnlyCleanIsUnaudited`: `UnauditedIsClean` | `PreparedOK`: the row about to be inserted is clean as of the day it carries, whatever shops are switched meanwhile. The judgement itself is a lemma about `Evaluate` |
| `OnlyApprovalsLockOut`: `LockedOutByApproval` | a token is never taken out of a row |
| `ResubmissionsAreCaught`: `ResubmissionIsCaught` | `PreparedOK`: no row that there was at the check and that still is approved is the same receipt; approval is not given back to a row |
| `OneApprovalADay`: `OneApproval` | inductive with `VerifyInv`: only the INSERT makes an approved row, and the index guards it (`ApprovalsBySteps`) |
| `TableIsLedger`: `ImplementsLedger` | no token is in two rows (`TableOK`), so the row that carries it is the one `Verification` picks |
| `GuestbookProofs!TypeCorrect`: `TypeOK`; `PagesLeaveNoGap`: `NothingSkipped`; `PagesRepeatNothing`: `NothingRepeated` | `FeedOK`, `PageOK`: a page under way closes the gap between the list and its cursor. The keyset order is total, a page is its top part (`FiniteOrders`) |
| `RateLimitsAreEarned`: `RateLimitIsEarned` | `LimitOK`: what the limit knows is the stamp of a post that was made |
| `NotedPostsKeepDistance`: `NotedPostsCount` | `SpacedInv`: the reading the limit has is not before that of any post in `noted`, and a post past the limit is a window after those in its `since` |
| `DeskProofs!TypeCorrect`: `TypeOK`; `ShopsAreCreatedOnce`: `CreatedOnce`; `ChangesTakeEffect`: `PatchTakesEffect` | `RequestOK`: what a request will leave out of its UPDATE was in force when it loaded the row; versions are only added |
| `SessionsDecide`: `SessionDecides`; `EditsKeepTheRest`: `PatchKeepsTheRest` | `SessionsKept`: lazily pruned sessions and the history of logins agree |
| `CapacityProofs!TypeCorrect`: `TypeOK`; `EngineStaysBounded`: `EngineIsBounded`; `SaturationStaysReal`: `SaturationIsReal` | `ConnsCounted`, `SlotsCounted`: the counters are the numbers of requests and calls that hold a connection or a slot |
| `ClientProofs!TypeCorrect`: `TypeOK`; `DropsFollowEnds`: `DropFollowsAnEnd` | `ClientInv`: every id on a screen, in the store or in a call is of a reservation that was made (so an answer to a question is never "none"), an answer that one is over stays right, and of the calls that show something the screen they belong to is still there |

*Hypotheses.* Two groups of theorems have one beyond the assumptions, because without it the
property is false of the code:

- `Ops` without `overlap` for `TokenHoldsOne` and `RevokedHoldsNothing`: run `booking_d08` refutes the
  first with it, and "What the runs found" names the overlap that breaks the second. Requests of different
  tokens, and everything else of the same token, still overlap.
- `Ops` without the operator's revocation and release for `GivenUpByOwner`, as in its run.

*Assumptions.* `KstAssumption` (a clock and a lease, `Kst`), `BookingAssumption` (an INSERT waits for the lock
no longer than a lease lasts: seconds against two hours), `CapacityAssumption` (fewer slots than connections and
threads, as the defaults are; clients and calls are finite sets, since the proofs count them),
`GuestbookAssumption` (ids are numbers and finitely many, as there are only finitely many rows to order),
`VerifyAssumption` (the form of a reading; finitely many workers, which `RoomOK` counts), `JudgeAssumption`
(`ShopOrder` is a sequence without repetition, ratios are percentages), `DeskAssumption`, `BodiesAssumption`
(the bodies sent are patches), `ClientAssumption` (there is a seat). The clauses on `Null` say that "no value"
is not a value. TLC evaluates each on the runs.

`Judge`'s `FirstCode` (the first failure of a severity) and `Guestbook`'s `AppendPage` are
written with a minimum and with a test on positions, not with a filter of sequences, which
is recursive and could not be reasoned about.

*Only model-checked.* Liveness: `LapsedIsReleased`, `OthersAreServed`, `SubmissionsAreAnswered`,
`EndIsNoticed` and `ButtonComesBack`, as the prover's backends reach neither fairness nor `ENABLED`. The properties of
the violation runs are false. That the abstract modules themselves promise what they are
meant to (`SeatLease`, `Ledger`) is read off their few actions.

## Not modelled, and why

- Statistics, public lists, the visitor count: one SELECT each, which changes nothing and is
  compared with nothing.
- The seed and `create_all`: they run alone, before the first request.
- FakeEngine, the choice of the engine, the image guard of receipt-core: configuration or a pure
  function with a choice of outcomes in the model.
- In the client: a device without a scanned seat or with an unknown one, the reconciliation of the
  verification, the 403/404 of somebody else's reservation, the polling of figures, Menu and Admin. Two tabs are
  possible in `Client` (`Tabs`), but only one is checked: the fairness of two is beyond five minutes.
- A second device in `Guestbook`'s run: it shares only the table with the first, and its posts would be
  more of the same; the theorems are for any number of devices, tabs and handlers.
- Markup, styling, message texts, image contents, nginx and compose files: no state the
  properties are about.

## Plan

In the order of importance; items 1 to 8 are done.

1. `Kst`, `Ledger`, `SeatLease`, `Booking` and their runs.
2. `BookingProofs`: types, exclusiveness, sweeps.
3. `Judge`, `Verify`: pipeline, audit, refinement of `Ledger`.
4. `Guestbook` and `Desk`: the remaining operations of the backend that change state.
5. `Capacity`: backend and receipt-core under a slow engine, with connections as a bounded resource.
6. `Client`: store, guard and asynchronous handlers; lost and late answers.
7. `BookingRequestProofs`: what answers say, `SeatLease`, the promises about tokens.
8. Proofs about the other modules: every safety property of their runs.
9. Invariants of the abstract modules `SeatLease` and `Ledger`, proved from their own actions, and
   the safety half of the liveness properties: an engine that never answers leaves a connection free.
