# A TLA+ verification of go-homestay

go-homestay is a homestay booking back end in Go: an HTTP api (`cmd/api`) and a
background worker (`cmd/worker`) over four MySQL databases, Redis (keys, a
stream, asynq queues), Kafka and Elasticsearch. This directory models the parts
whose correctness depends on the order of steps of several processes and on what
happens when one of those steps fails, checks the models with TLC on small
instances, and proves theorems about them with TLAPS for every instance.

Paths below are relative to `src/`.

## 1. Inventory

| component | state | operations | interacts with | hard behaviour |
|---|---|---|---|---|
| Flash sale (`internal/seckill`, `order/repository.go`, `worker.go`) | Redis: activity, stock, users and result keys, a sequence, a stream with one consumer group; MySQL: `seckill_activity`, `seckill_order`, `homestay_order` | Warmup, Reserve (a Lua script), deliver, claim, Process (a MySQL transaction), complete, count attempts, compensate, acknowledge | orders, asynq, bootstrap | at-least-once messages, a message claimed while it is being handled, unknown commits, failing compensation, Redis losing its data |
| Orders (`internal/order`) | `homestay_order` (trade state, version) | Create, UpdateState (read, check, conditional UPDATE), cancel, close task, notification task | payments, asynq, Kafka consumer | lost updates, a cancellation racing a payment |
| Payments (`internal/payment`) | `third_payment`, `event_outbox` | Prepay, HandleNotify, publish, mark, retry | WeChat, Kafka, orders | duplicated and late notifications, duplicated events, an event skipped |
| Search synchronisation (`internal/search`) | `homestay.version`, `search_event_outbox`, the Elasticsearch document | update, publish, mark, retry with back-off, rebuild | admin, travel | several publishers, a stale document written last |
| Caches (`user/repository.go`, `travel/repository.go`) | Redis keys with ten minutes to live, singleflight groups | cache-aside reads, profile and homestay updates | orders (price), admin | stale values stored after an update, an object shared between callers |
| Admin authorization (`internal/admin`) | administrators, roles, permissions, scopes, a five minute cache | Bootstrap, Login, authorize in three queries, create, assign, configure, invalidate | middleware | invalidation racing a read, edits that miss an administrator, a bootstrap stopped half way or run twice |
| Middleware (`internal/httpserver`) | two maps of rate limiters | look at the clock, clean up, allow | every handler | clocks used out of order, a limiter forgotten too early, limits at their boundary |
| User accounts (`internal/user`) | `user`, `user_auth`, a Redis entry for each user, the calls in flight | Register, Login with replacement of old hashes, WeChat login, UserByID, UpdateProfile | caches, middleware | check then create, an old object written back whole, entries no update deletes |
| Assistant (`internal/assistant`) | one request | a loop of model calls and read-only tools | external model | none that outlives the request |
| Bootstrap, shared, migrations, scripts | configuration | start and stop | everything | programs stopping between steps |

What makes each part correct:

* **Flash sale**: never more orders than stock, one order for each user, no unit
  or place returned twice, a result that is told stays and is backed by an order,
  every accepted reservation is settled, every order gets its close task.
* **Orders and payments**: a state moves only along the state machine; a paid
  order is not closed; a payment and its event are stored together; no event is
  lost between outbox, Kafka and order; the user is notified once.
* **Search**: the index ends with the newest version of every homestay, and every
  event is published.
* **Authorization**: an entry that MySQL contradicts is about to be deleted or has one
  of the causes the code accepts, and none lasts; a fresh system has its first
  administrator, with its role (which, as the code is written, it has not: section 6).
* **Accounts**: a mobile or an open id belongs to one user, who can sign in with it; no
  update of a profile touches a password; no old profile is shown for ever.
* **Rate limiters**: no window of time lets through more than its tokens, the map of
  visitors does not grow for ever, and forgetting a visitor gives it nothing.

`PROJECT.json` lists the hazards at their lines; the properties are chosen
against that list.

## 2. Modules

| module | what it is |
|---|---|
| `SeckillSale` | the promise of a flash sale: accept, sell, confirm, reject, forget |
| `Seckill` | the flash sale of one activity as the code does it |
| `SeckillMC` | the small sets of TLC's instances |
| `SeckillProof` | its theorems |
| `OrderLifecycle` | orders, their close tasks, and every caller of UpdateState |
| `OrderProof` | its theorems |
| `PaymentOutbox` | Prepay, WeChat's notifications, the outbox and its publishers |
| `PaymentProof` | its theorems |
| `Trade` | composes the two with the payment topic's consumer group |
| `TradeProof` | its theorems, which use those of the two components |
| `Booking` | the promise of `Trade`: placed, paid, confirmed or closed, told once at most |
| `SearchOutbox` | homestays, their events, the publishers and the documents |
| `SearchProof` | its theorems |
| `AdminAuth` | administrators, roles, their authorizations and the cache, the first start |
| `AdminProof` | its theorems |
| `Account` | registration, login, the profile behind its cache and its singleflight |
| `AccountProof` | its theorems |
| `RateLimit` | the two rate limiters of the middleware |
| `TokenBucket` | the promise of a rate limiter: a bucket for each key that is never forgotten |
| `LimitProof` | the theorems about `RateLimit` |
| `OrderLifecycleMC`, `PaymentOutboxMC`, `TradeMC`, `SearchOutboxMC`, `AdminAuthMC`, `AccountMC`, `RateLimitMC` | the small sets of TLC's instances |

`Trade` composes `OrderLifecycle` and `PaymentOutbox`. The others share no state that
changes: the flash sale makes order rows that their users pay for like any other, a
request passes the limiters before anything else, and what an administrator edits is
in `AdminAuth` (who may) or `SearchOutbox` (the homestay).

### Seckill

State. Redis keys are `warmed` (the activity hash exists), `stockSet` and `stock`,
`users`, and the result hashes `status`, `attempts`, `restored`, `orderSn`; the
stream is `stream` (not delivered), `pel` (delivered and pending) and `group`;
`closeTasks` is asynq's queue of close tasks. MySQL is `enabled`, `sold` and
`orders`. A process is `pc` and its locals: `remaining` of Warmup, a worker's
`batch` and, for the message in hand, the transaction's `snapshot`, `order`,
`restore` and `soldOut`. `base` is a history variable: what SETNX stored.

A reservation, its stream message and its order are one number: the order number
is derived from the reservation number (`seckillOrderSN`), and that from one
counter. INCR and the script that follows are one step: another reservation
between the two only changes which of two users has the smaller number.

Actions. Each Lua script is one action (Redis runs it alone). A MySQL transaction
is two: its first SELECT takes the snapshot (`Begin`), and its INSERT, UPDATEs
and commit take effect together (`CommitOrder`, `BarrierRefuses`, `DuplicateKey`,
`InsertFails`), because the INSERT waits for any other transaction that holds the
same unique key. Every call that can fail has its failing action, and a call whose
answer is lost has both outcomes (`CommitUnknown`, `CompleteFails`). `Claim` may
take any pending message, its handler alive or not: nothing ties the 30 seconds of
idle time to the handler's end. `Crash` stops a process between any two steps,
`LoseRedis` empties Redis between any two steps.

`TranslateError` is gorm's switch that `OpenDB` leaves off: with it off the
duplicate branch of `CreateSeckillOrder` and the restore branch of
`completeScript` are never reached. All runs have the code as it is configured, FALSE;
the theorems hold for both, and so say of those branches, too, what they say.

### OrderLifecycle

State. `tradeState` and `version` are the columns of `homestay_order`, `closeTask` is
the order's task in asynq, `notices` counts its notification tasks. A caller of
UpdateState is `step` (where it is) with its arguments `subject` and `target` and the
version it has read, `seen`.

Actions. UpdateState is a read that decides (`Read`, verifyState) and a conditional
UPDATE (`Write`, or `Conflict` when another caller was faster), then the notification
task (`Notify`). Between any two of them other callers run, statements fail
(`CallFails`), an applied UPDATE reports an error (`WriteUnknown`), and goroutines stop
(`Crash`). Requests, asynq handlers and payment consumers begin calls with `Cancel`,
`CloseOrder` and `Consume`; a close task whose handler returned an error stays queued
for asynq's retry. Alone, the module lets a consumer ask for waitUse or refund at any
time; `Trade` restricts it to the events there are.

### PaymentOutbox

State. `flow` and `flowVersion` are the status and the version of the order's row in
`third_payment` (uk_order_service allows one), `outbox` lists the orders of the rows of
`event_outbox` by id, `published` and `late` are their status and next_retry_at,
`topic` is the partition. `offered`, `charged` and `answered` are WeChat's. Each
goroutine's locals: `paying` and `prepay`; `settling` and `flowSeen`; `batch` and
`marking`.

Actions. Prepay stores the payment (`EnsureFlow`), then calls WeChat (`Offer`).
HandleNotify reads (`ReadFlow`) and settles in one transaction that stores the event
(`Settle`), or loses the race (`SettleConflict`). publishOutbox reads rows (`Poll`),
writes to Kafka (`Write`, `WriteFails`) and marks (`Mark`, `MarkFails`); two publishers
may hold the same row. `PayTimeNullable` says whether `third_payment.pay_time` takes
NULL: with the schema of the migrations (FALSE) no payment can be stored (see
section 6), so the runs use TRUE, and the proofs hold for both.

WeChat is external: it takes money for what it was offered, and repeats a notification
until it is answered without an error. Amounts and owners are compared for equality in
the code and not told apart here; a notification that does not report success changes
nothing and is left out. PendingOutbox's limit of 100 rows is above any instance.

### Trade

`Trade` instantiates both modules over shared variables and adds the consumer group:
`owner` of the partition, its `position`, the `committed` offset, and the event each
consumer is `handling`. `Fetch` takes the next event and calls UpdateState; `Commit`
follows a success; `Skip` is the loop's `continue` after a failure, without a commit.
`Rebalance` and `ConsumerCrash` give the partition away while a consumer may still have
an event in hand. The writer hashes by order number, so an order's events are in one
partition; the model has one partition for all. An event here always means success:
HandleNotify stores no other.

`Booking` is what it implements. Its `phase` is `tradeState`, its `paid` is `charged`, and
its `told` is `notices`: the number of notification tasks of each order, so that a second
task of one order, or one of an order that is not confirmed, is a step `Booking` does not
have.

### SearchOutbox

State. `version` stands for the contents of a homestay, `present` for `del_state`.
`outbox` is the set of rows of `search_event_outbox`, a row named by what its
`event_key` is made of; `published` and `late` are their status and next_retry_at.
`index` has the version in each document, `delayed` the requests that Elasticsearch will
still execute although their client gave up. A publisher is its `batch`, the `item` in
hand, its `step`, and the version it has `got`. `before` is a history variable: the rows
there were when the index was last changed by something that is not a publisher.

Actions. An update and its event are one transaction (`UpdateAdminHomestay`); bootstrap
and rebuild add a row for each homestay. publishSearchOutbox selects rows (`Poll`),
reads the homestay (`HomestayForIndex`), writes or deletes the document
(`IndexHomestay`, `IndexFails`) and marks the row (`MarkSearchOutboxPublished`,
`MarkFails`) or puts it off (`RetrySearchOutbox`), each step its own action with its own
failure. A request that fails was executed, was not, or will be (`Arrive`).

### AdminAuth

State. `admins`, `rolesOf` and `roles` are the tables of administrators (enabled, their
business), of their roles, and of roles with permissions and scopes; `cached` is the
Redis entry of each administrator, `tokens` who has logged in. `stage` is where each
starting process is. A request is `at` a place with its locals: `who` asks, the `home`
and the part of the authorization it has `got`, the `target` of its edit, the entries
`todo` it will delete. `outdated` and `excused` are history: a request whose reading an
edit overlapped, and entries that no edit will delete any more.

Actions. bootstrap counts, inserts and assigns in three (`CountAdmins`, `CreateFirst`,
`AssignFirst`), and any process may stop between two (`Stop`). An authorization is a GET
(`Hit`, `Miss`), three queries (`ReadAdmin`, `ReadPermissions`, `ReadScopes`) and a SET
(`StoreAuth`). An edit is its transaction and, one step later, the DEL
(`InvalidateAuthorization`); CreateUser is two transactions and no DEL; ConfigureRole
reads whom to invalidate before it begins (`AdminIDsByRole`). `DeleteWorks` is whether
gorm can delete the rows of a structure without a name (see section 6). As the code is
written it is FALSE and nobody gets past RequirePermission (theorem `LockedOut`), so the
run has TRUE: it is about the cache and its invalidations as they are, with the three
deletes repaired. The other proofs hold for both. Names, codes, passwords and versions are not told apart:
what is refused for one of them is `Refuse`.

### Account

State. `users` and `auths` are the tables, `cached` the entries without their hash,
`tokens` is history: who was given a token. A request is `at` a place with the `form` of
its registration or login, or its `user`, its `wish`, and the object it has in hand:
`mates` are the requests that have the same one, `held` is what it says, the same for
all of them.

Actions. Register is a read (`Register`) and one transaction of two INSERTs
(`CreateUser`), which the two unique keys may refuse and whose answer may be lost;
WXMiniAuth goes there when it does not know the open id. Login gives a token or replaces
an MD5 hash first (`UpdatePasswordHash`). UserByID is `Hit`, or a flight: the first
`Miss`es, others `Join`, `SelectUser` and `StoreUser` give all of them the same object,
and `UpdateProfile` and `UpdateUser` change and write it back, each for its own caller.
Requests that do not join are in different processes. `Written` is gorm's Updates of a
structure, which skips zero fields, and skips the password too, whose tag lets it be
created only.

### RateLimit

State. `visitors` is the map with lastSeen, `full` says when a limiter will have all its
tokens again, `lastCleanup` is the variable of that name. A request has its `key` and
its `clock`. `log` is history.

Actions. `Arrive` is the call of time.Now, `Admit` everything under the mutex: the
cleanup, the visitor found or made, Limiter.Allow. Between the two time passes (`Tick`)
and other requests come first, so clocks are used in any order. LoginRateLimit and
AgentRateLimit are the same code with other numbers.

## 3. Runs

| run | instance | shows |
|---|---|---|
| `seckill_safety` | 2 users, 2 workers, 1 api, stock 1, 2 reservations, 2 attempts, 2 faults of any kind, loss of Redis included | `TypeOK`, `NoOversell`, `StockAccounting`, `PendingHoldsPlace`, `SuccessHasOrder`, and `ImplementsSale`: the flash sale implements `SeckillSale` |
| `seckill_loss` | 1 user, 2 workers, stock 2, 2 reservations, 5 attempts, 1 loss of Redis and no other fault | violates `NoBuyerFails` (finding) |
| `seckill_delivery` | 2 users, 2 workers, 1 api, stock 1, 2 reservations, 3 attempts, 1 fault of MySQL or crash, fair | `PendingIsDelivered`, `Settles`; `NoBuyerFails`: no user who has an order is told of a failure; `StockAgrees`: the Redis stock, the orders and the reservations in flight make up the stock; `ClosesScheduled`: an order without a close task has cost a fault of its own |
| `order` | 1 order, 1 request, 2 close handlers, 2 consumers, 2 faults, fair | `TypeOK`, `NotifiedOnce`, `UnpaidIsWatched`, `FollowsStateMachine`, `UnpaidIsClosed` |
| `payment` | 2 orders, 1 payer, 2 notifiers, 2 publishers, 1 fault, fair | `TypeOK`, `EventWithPayment`, `ChargedHasFlow`, `PublishedIsInTopic`, `ChargedIsPublished` |
| `trade_safety` | 1 order, a cancelling request, a close handler, 2 consumers, 1 payer, notifier and publisher, 2 faults | `ImplementsBooking`: `Trade` implements `Booking`, where an order is usable only when it was paid and its user is told at most once |
| `trade_delivery` | 2 orders, 2 consumers, 1 fault of the group (rebalance, Kafka, crash), nobody cancels, fair | `EventsApplied`, `PaidIsUsable` |
| `trade_closed` | 1 order, the close task, no fault, `PayTimeNullable` | violates `PaidNotClosed` (finding) |
| `search` | 1 homestay, 2 updates, 1 rebuild, 1 publisher, 1 fault of any kind, fair | `TypeOK`, `IndexIsCurrent`, `EventIsPublished` |
| `admin` | 2 administrators, 2 roles, 1 permission, 1 business, 2 requests, 2 processes that start, 2 edits, 1 fault of any kind, `DeleteWorks`, fair | `TypeOK`, `StaleExplained`, `AuthorizationSettles` |
| `account` | 2 user ids (1 in use), 2 mobiles, 1 open id, 2 passwords, 1 field of 2 values, 2 requests, 2 changes, 2 faults of any kind, fair | `TypeOK`, `OneAccount`, `PasswordKept`, `CacheSettles` |
| `rate_limit` | 2 keys, 2 requests, a token in 2 units of time, burst 2, 8 units, clocks up to 1 late | `TypeOK`, `MapIsSwept`, `AtMost`, and `NeverForgets`: `RateLimit` implements `TokenBucket` |

Bounds. `MaxSN` bounds the requests, `MaxFaults` the faults. Two users with stock 1
are enough for the last unit to be contended, two workers for a message to be
claimed while it is handled, two numbers for a user to reserve again after a
compensation or a loss, and two attempts for the limit to be reached by faults.
`seckill_delivery` has three attempts, as many as its workers and faults together: with two,
where a reservation may be given up at the limit, `PendingIsDelivered` and `Settles` hold
as well, but TLC finds `StockAgrees` violated by two workers with one message and a commit
whose answer is lost, so the bound of its theorem is the least one.
Requests are symmetric in `rate_limit`, users and workers in `seckill_safety`,
consumers in `trade_safety`; runs with liveness have no symmetry. Of orders one is enough where
callers contend for the row, two where an event may be passed over by the next one or a
publisher holds several. Two faults let a failure meet the failure of its retry; the
liveness runs count the faults so that they end. Some instances are smaller than the
hazards they are near: one payer in `payment` (two prepays of one order insert at once
only in theorem `ChargesRecorded`), two edits in `admin` (an administrator assigned between
the read and the write of ConfigureRole, and read again before, needs three:
theorem `StaleIsExplained`), one field in `account`. And the liveness runs leave out the
kinds of fault the code does not survive; section 6 says which. Deadlock is checked: a worker
always has its loop (`Poll`).

Fairness. A goroutine that can take its next step takes it (weak fairness of
`Handle`, `Join`, `Deliver` and of a process's start, which the deployment's
restart policy gives). XAUTOCLAIM starts at the oldest pending entry every 15
seconds, so a message that can be claimed again and again is claimed (strong
fairness for each message). Faults, requests, the clock and the operator are not
fair.

For orders and payments: every goroutine goes on; asynq gives a queued close task to a
handler again until it succeeds (strong fairness of `CloseOrder`; its 25 retries are
more than the faults of an instance); WeChat repeats an unanswered notification (strong
fairness of `ReadFlow`); the publisher's ticker ticks and a row put off becomes due. No
fairness makes anybody create, cancel, prepay or pay.

For the search index: the publisher goes on, its ticker ticks, a delay passes. Nobody has
to update or rebuild, so `EventIsPublished` is about the time when they stop. One homestay
is enough, since rows and documents of different homestays do not meet; two updates let
one arrive between the read and the mark of the other.

For authorizations and accounts: Redis lets entries expire (weak fairness of `Expire`,
which is SET with a time to live), and a request that has begun a read, a store, a
deletion or an update takes its next step. No fairness makes anybody log in, ask or
edit. Edits and changes are bounded, so `AuthorizationSettles` and `CacheSettles` are
about the time when they stop. Two requests are one that reads and one that edits
between its queries, or two that share one flight; two administrators and roles let one
be given a role while it is configured; two processes start at once, and each may make
the first administrator. With two user ids a second INSERT that is refused is that of
two registrations of one mobile or of one open id; two faults are a lost answer and the
failure of what follows it. The user of before has an MD5 hash, so that a login replaces
it while profiles are read and written back.

For the limiters: `Skew` is how far a request's clock lags behind the lock. The login
reads its clock, then a body for at most the 15 seconds of ReadTimeout
(`cmd/api/main.go:60`), then waits for the lock, and the wait is taken to be within that
time; AgentRateLimit reads no body and has `Skew` 0. The code's values are a token
in 12 seconds with burst 5 and in 20 seconds with burst 3, ten minutes until a visitor
is forgotten, a minute between cleanups: `Burst * Interval + Skew <= Idle` holds with
room to spare (75 of 600 seconds, 60 of 600), and the instance has it with equality, so
that a visitor is forgotten at the very moment its limiter is full. Eight units are
enough for a limiter to be emptied, forgotten, and asked again. Times are whole units
and tokens exact: `rate.Limiter` computes them in floating point.

## 4. Proofs

`SeckillProof` proves for every value of the constants: `TypeCorrect` (TypeOK),
`NeverOversold`, `OneEach`, `StockAccounted`, `PlacesHeld` and `SuccessBacked`, by
one inductive invariant `IInv` (theorem `Invariance`), and the refinement `KeepsPromise`:
`Seckill` implements `SeckillSale`.

The safety properties are not inductive alone. `IInv` adds: `Origins`, messages,
batches, results and orders are of admitted numbers, which have an owner and lie
below `sequence` (so that a new number is new everywhere); `InHand`, what a worker
carries between its MySQL answer and its Redis write still names a committed order
of the same user, although the message may be handled elsewhere meanwhile; and
`NoStockNoUnits`, a stock key that does not exist holds nothing, which the first
SETNX needs. Each action is one step of the proofs; orders and owners are never
withdrawn (`OrdersStay`), which carries facts about an order past every other step.
With `IInv` each step that `SeckillSale` sees is one of its own (`SaleStep`): an
admission is `Accept` because whoever has no place has nothing pending, a commit is
`Sell`, a completion `Confirm` because `InHand` backs it, a compensation `Reject`, and a
loss of Redis `Forget`.

Four properties hold only as long as some faults do not happen, and their theorems say
which, as hypotheses:

* `PendingDelivered` (`PendingIsDelivered`), when no Redis call of a worker fails. A
  message leaves the stream by XACK or a loss only; `Answered` says that the result is
  written before a worker comes to its XACK.
* `OrderIsReturned` (`NoBuyerFails`), under `EnoughAttempts`, the workers and the
  faults are together no more than `MaxAttempts` (crashes and losses fail no call and do
  not count), and `OrderIsFound`, gorm translates duplicate keys or Redis loses nothing. The second is the code as it is
  configured; without either the property is false, which `seckill_loss` shows.
  An attempt is wasted by a fault, or by losing a race for the user's order, and each
  worker loses that race once. `Careful` counts: `attempts[r]` and the workers that have
  failed and not counted it yet, or will fail (`Spoilt`), are no more than the faults
  there were, and once the user has an order the other workers (`Allowance`). So a
  reservation is given up only when nobody can get an order any more (`NeverSold`),
  which stays true (`FailedIsUnsold`). `PlacesKept` is why a retry finds the order by its
  own number when duplicate keys are not translated.
* `StockAgreed` (`StockAgrees`), under `EnoughAttempts` and without a loss. `Intact` adds
  that Redis knows an order by its own reservation, that places and reservations match,
  that no duplicate is found, and that the stock key was created with the whole stock.
  Then the places of Redis and the orders and pending reservations are in bijection
  (`PlacesAreUnits`), and `StockAccounting` gives the sum.
* `ClosesAccounted` (`ClosesScheduled`), without a loss, which takes asynq's queues with
  it. `SchedulingStep`: a step leaves one more order without a close task only if it is a
  fault.

`OrderProof` proves `TypeCorrect`, `VersionsCount`, `NotifiedAtMostOnce`,
`StateMachineFollowed` and `UnpaidWatched`. Its `IInv` adds what a caller knows: `Decided`, as long as the
version it read is the current one, its decision is allowed from the current state; and
`Telling`, a caller about to notify made the only move to waitUse and is the only one
that notifies for its order. `VersionCountsMoves` is what makes the lock sound: the
version never comes back to a value it had. `MoveStep` shows that one caller's move
outdates every other decision on that order. `UnpaidWatched` needs `Closes` besides:
the handler of a close task asks for `cancel` only, and when its call has returned
without an error the order does not wait for its payment any more, which no other
caller undoes, `waitPay` being a state that no move leads to.

`PaymentProof` proves `TypeCorrect`, `EventsMatchPayments`, `ChargesRecorded` and
`PublishedEventsAreSent`. Its `IInv` adds `InHand`, which ties what each goroutine
carries between two steps to the database, WeChat or Kafka, and `OfferedHasFlow`.
Statuses only go up and nothing leaves the outbox or the topic, so these facts survive
the steps of all others.

`TradeProof` proves `TypeCorrect`, `CommittedApplied` and the refinement `KeepsPromise`,
in which the notifications of an order are counted. It instantiates the
two proofs before: a step of one component keeps its invariant by `Invariance_Step` of
that component, and the other one waits (`OrdersWait`, `PaymentsWait`). What the
components say of each other is `Links`: who asks for a confirmation has an order that
was paid for (`Asks`), since Kafka has events of settled payments only, and WeChat is
asked for money for orders that exist (`PayableExist`). With them the write of a caller,
decided on the current version, is Booking's `Close` or `Confirm`; a notification is
`Tell` because `Telling` makes it the only one.

`CommittedApplied` (`EventsApplied`) has one hypothesis, that no MySQL call of UpdateState
fails ("db"); the run has nobody cancel and fewer faults, the theorem has both. An event
is applied when its order does not wait for its payment any more. `Consumed` says that
the events below the committed offset are; those below the position too, or the position
is at the event its owner has in hand; and whoever has an event in hand has all before it
applied, and this one as well when its call is over. An optimistic lock that fails
is no harm, since it fails because somebody has moved the order, and nothing moves an
order back to `waitPay`.

`SearchProof` proves `TypeCorrect` for any number of workers and
`IndexCurrentWithOneWorker`. Its `IInv` adds `Keys`, the event keys count up, so an
update always has a new row; `InHand`, what the worker has in hand is not done; and
`Reading` and `Marking`, what it has read, and then the document, is current or another
row of the homestay is still to be done. `OneWorker` is an assumption of the theorem and
not of the module: two workers break it (section 6). It is used where a
write or a mark must not disturb another worker's row.

`AdminProof` proves `TypeCorrect`, `StaleIsExplained` and `LockedOut`. The invariant
of the cache adds `Accurate`: what a request has read so far is what MySQL says of its
administrator, query by query, unless an edit has overlapped its reading. So what it
stores is right or excused. `LockedOut` is about the code as it is written and has
`DeleteWorks` FALSE as its hypothesis: nobody ever has a role, so (`Powerless`) no query,
no entry of the cache and no request in progress ever has the permission to edit, and no
edit begins that could give one.

`AccountProof` proves `TypeCorrect`, `OneAccountEach` and `PasswordsKept`. Its `IInv`
adds `Sharing`, having one object is an equivalence between requests about one user, and
`Places`, what a request has at each place: who shares the object of a flight waits for
it, so a flight that ends, fails or crashes leaves nobody waiting for it. `WithMobile`,
whoever has a password signs in with the mobile, makes the token of a login one for an
existing key; `Known` ties a login that replaces a hash to the password it was given,
which no other step takes away.

`LimitProof` proves `TypeCorrect`, `Swept`, `FewAreLetThrough` and the refinement
`Implements`. `SeenLate` says that a limiter is full no later than `Skew + Room` after
its visitor was seen, so with `IdleAssumption` whoever is forgotten lacks nothing;
`Counted` says that the requests let through since any of them are what the limiter lacks
now and what time has given back, of which `AtMost` is the consequence.

The proofs assume only the ASSUMEs of the modules they are about: that bounds are
numbers, that "nothing" is no row, that ids are those there are (`IdsAssumption`,
`ValuesAssumption`), that the three kinds of caller are apart (`CallersAssumption`,
`NamesAssumption`), that users of before have mobiles of their own (`OldAssumption`),
and the times of the limiters (`IdleAssumption`). What a theorem needs beyond them is a
hypothesis of its own: which faults do not happen, `EnoughAttempts`, `OrderIsFound`,
`OneWorker`, no `DeleteWorks`. Each run that passes meets the hypotheses of the theorems
of its properties.

Proved and in no run: the types of `Trade` together, `VersionCountsMoves`,
`OneOrderPerUser` (theorem `OneEach`; the refinement implies it for the instances of
`seckill_safety`), and `NobodyEdits`.

Model-checked only: liveness (`Settles`, `UnpaidIsClosed`, `ChargedIsPublished`,
`PaidIsUsable`, `EventIsPublished`, `AuthorizationSettles`, `CacheSettles`), which the
prover cannot do. Every invariant and every action property of the runs is a theorem.

## 5. Not modelled

* Expiry of keys seven days after the activity, trimming of the stream at about 100000
  messages, malformed messages, several activities (they share the stream and the
  counter only).
* CreatePermission (a new code is in no role before one is configured), the audit log
  (written after the answer, read by nobody), the lists of administration and the SQL of
  the data scope.
* The assistant: a loop of model calls and read-only tools with a bound of rounds, whose
  state is one request's; nothing of it is shared or survives.
* The query side of search, the lists and details of travel, orders and activities:
  they read. HomestayByID is the code of UserByID without a writer that goes through it.
* Configuration, telemetry, wiring, deployment, benchmark scripts.

The components marked `partly` or `not_modelled` in `PROJECT.json` say which.

## 6. Divergences

What the documents, comments or tests say and the code does not. `trade_closed` and
`seckill_loss` are the runs of two of them, quoted in `PROJECT.json`. `trade_closed` needs
`PayTimeNullable`: with the migrations as they are no payment gets that far (below). Three
more are instances of modules here that TLC finds violated when their configuration is
changed as it says:

* `Settles` of `Seckill`, with one user, one api process, one worker, one fault of kind
  "redis", `MaxAttempts` 5 and `MaxSN` 1 (`RedisFaults`, `OneWorker`): the worker
  drops the error of a compensation and acknowledges (`worker/worker.go:161`), and the
  reservation stays pending for ever, while `docs/秒杀压测报告.md:13` has every
  reservation settled.
* `EventsApplied` of `Trade`, with two orders, no caller, one consumer and one fault of
  kind "db" (`DatabaseFailure`): the loop goes on after a failed update
  (`worker/worker.go:265`) and the next commit passes the event, while
  `docs/技术亮点与面试讲解.md:31` allows duplicates and no loss.
* `IndexIsCurrent` of `SearchOutbox`, with two publishers and no fault (`TwoPublishers`,
  `NoFault`): the slower one writes the older document last (`worker/worker.go:101`),
  while the RBAC document, line 180, calls duplicated claims safe because the write is
  idempotent.

Reading the code for the models showed more, which the models contain where they can:

* `CreateSeckillOrder` looks for `gorm.ErrDuplicatedKey` (`order/repository.go:108`),
  which gorm returns only under `TranslateError`; `OpenDB` (`shared/db.go:14`) does not
  set it, so lines 111-124 are never reached. A duplicate key therefore fails the attempt,
  and a user whose place Redis forgot is told `failed` although MySQL has their order
  (`seckill_loss`), while `docs/秒杀机制设计与实现.md:86` has the unique index return the
  order. With `TranslateError`, or a Redis that keeps its data, it does not happen
  (theorem `OrderIsReturned`).
* The worker makes its consumer group when it starts (`worker.go:62`). After Redis has
  lost its data every read fails with NOGROUP and is only logged, while an api process
  that restarts warms the activity up and admits again: those reservations stay pending
  until a worker restarts.
* A worker that stops between the commit and `scheduleClose` leaves an order without a
  close task, since the next attempt finds the order existing and does not schedule
  (`order/service.go:80`). `Create` has the same gap. `ClosesScheduled` and
  `UnpaidIsWatched` say how far it goes: each such order costs a fault.
* `Prepay` inserts a payment whose `PayTime` is nil, which gorm writes as NULL, and
  `third_payment.pay_time` is NOT NULL (`migrations/looklook_payment.sql:44`): with the
  migrations as they are the INSERT is refused and no prepay succeeds, although the
  documents describe the local payment as the first step
  (`docs/架构与业务实现.md:36`). `PayTimeNullable = FALSE` is this behaviour.
* A commit whose answer is lost, followed by failed attempts up to the limit, ends in a
  compensation although the order exists (`worker.go:160`): the Redis stock is then one
  above what MySQL has left, while `docs/秒杀压测报告.md:11` wants them equal in the end.
  `NoOversell` holds all the same, MySQL being the last barrier, and `StockAgreed` says
  when the two are equal: with five attempts, as long as the workers and the faults of the
  whole sale are together no more than five. (Only the faults that hit one reservation
  count against it; the model counts them all.)
* `UpdateAdminHomestay` does not ask for `del_state`: a removed homestay can be updated,
  and its event then removes the document, as the model has it.
* AssignAdminRoles and ConfigureRole delete with a structure that has no name
  (`admin/repository.go:77`, `:173`, `:184`), for which gorm, as we read it, has no
  table: they always fail. The first start then ends with an error after it has
  inserted the first administrator, the next one finds that row and goes on, and the
  administrator has no role, while the RBAC document, line 38, has it bound to
  super_admin. `DeleteWorks = FALSE` is this behaviour, and theorem `LockedOut` its
  consequence: no request to edit anything in the administration is ever permitted.
  Independently of that, a start that stops between the INSERT and the role is never
  repaired, since the next one finds an administrator.
* The RBAC document, line 48, says that a revocation need not wait for the time to live.
  A reader that an edit overlaps stores the old authorization after the DEL, and
  ConfigureRole misses who is given the role after it has looked: `StaleExplained` lists
  these causes, `AuthorizationSettles` says that the five minutes end them.
* Line 68 of the same document has a FOR UPDATE that the code does not have, and line 133
  a deletion of the homestay's cache entry: UpdateAdminHomestay deletes none, so orders
  copy a price that is up to ten minutes old. Prices are in no model.
* The data scope's condition starts with AND and is passed to gorm's Where, which makes
  an SQL error of it for whoever has no scope "all". Not modelled.
* AdminUser's password may be written by INSERT only (its tag), and UpdateAdmin passes a
  new one to Updates, which skips it, as `user/repository.go:95` says of users.
* An UpdateProfile writes back every field of an object that was read before, from a
  cache that no update deletes: the update of another field in between is undone, while
  `user/service_test.go:140` expects other fields unchanged; an empty value is not
  written at all (`:254`). `PasswordKept` is what remains true of it.
* WXMiniAuth is behind JWT and refuses a mobile that is registered, so a user with a
  password never gets the open id that Prepay asks for (`payment/service.go:74`).

## 7. What could follow

Abstract specifications, with refinements, of the authorization cache and of the profile
cache, whose properties are invariants so far; prices in orders and their copies through
the homestay cache; the assistant's budget of rounds and tools.
