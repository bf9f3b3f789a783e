# hotelmind-backend in TLA+

Specifications of the HotelMind backend (`src/`: a FastAPI process, a fleet of
Kafka consumers in a worker process, a replay script, PostgreSQL, Redis), the
TLC configurations that check them on small instances, and theorems checked by
TLAPS. Paths below are relative to `src/app/` unless they say `docs/`.

Every specification takes one `await` (a database statement with its commit, a
Redis call, a publish, a socket send) as the unit of atomicity: each process
runs one asyncio event loop, and everything between two awaits happens at once.

Contents: [inventory](#inventory) - [modules](#modules-and-how-they-correspond-to-the-code) -
[runs](#runs) - [fairness](#fairness) - [proofs](#proofs) -
[findings](#where-code-and-documentation-disagree) - [not modelled](#what-is-not-modelled) - [plan](#plan)

## Inventory

### Parts, their state, their operations

| part | state | operations | status |
|---|---|---|---|
| Reservations (`services/booking.py`) | tables `reservations`, `rooms.status` | create, update, confirm, check_in, check_out, cancel | `Bookings` |
| Repositories, sessions (`repositories/base.py`, `db/session.py`) | a session's snapshot of a row | create, update, delete: one commit each | `Records`, and inside the components that use them |
| Event publisher (`producers/`) | the producer, or none | start (one attempt), publish | `Bookings`, `Orders`, `Payments`, `Reviews` |
| Consumer base (`consumers/base.py`, `consumer_worker.py`) | offsets, the record in process, retry count, `event:seen:*` keys, dead letters | start, run, dedup, retry, dead-letter, stop | `EventConsumer`, implementing `Delivery` |
| Restaurant orders (`services/restaurant.py`) | tables `restaurant_orders`, `order_items` | open, add, remove, close, cancel | `Orders` |
| Dashboard read model (`handlers/`, `redis_cache/`) | running totals in Redis, with a TTL | GET, compute, SET, publish | `ReadModel` (booking count, revenue, restaurant sales) |
| Replay (`stream_processing/replay.py`) | its own group, `event:seen:replay.*` | re-run a topic through the handlers | `ReadModel` |
| WebSocket bridge (`websocket/`, `main.py`) | the connection set, the listener task | connect, disconnect, broadcast, subscribe, cancel | `WebSocketBridge` |
| Payments (`services/payment.py`) | table `payments` | create, refund | `Payments`, implementing `Ledger` |
| Guardrails (`routers/recommendations.py`, `routers/ml.py`) | tables `pricing_guardrails`, `staffing_guardrails`, `ml_room_type_mappings` | upsert, delete, look up with a fall-back, clamp a price | `Guardrails` |
| Recommendations (`services/recommendation.py`) | table `recommendations`, `room_types.base_price` | show, accept, modify, dismiss, measure | `Recommendations` |
| Dashboard summary (`services/dashboard.py`) | a cached summary with a TTL | read-through | `Summary` |
| Reviews (`services/review.py`, `services/sentiment.py`) | table `reviews` | create, score, two events | `Reviews` |
| Hotel catalogue, staff, menu, guests (`services/hotel.py`, `services/staff.py` and parts of two others) | single rows | create, update, set a status, clock in and out | `Records` |
| Authentication, other handlers, trends, metrics, configuration | none, or one key each | | not modelled |

### How they interact

Services commit to PostgreSQL and then publish to Kafka, in two steps that
nothing ties together. The worker's consumers take the events, mark them seen in
Redis, and run handlers that change keys in Redis and publish to
`dashboard:updates`; the bridge in the API process takes those messages and sends
them to the sockets. Replay runs the same handlers from a process of its own,
beside the consumers. The summary is read from the tables and cached beside the
totals, by no event. An accepted recommendation writes the catalogue's price; a
check-in writes the catalogue's room status. Nothing is locked: neither rows nor
Redis keys nor the set of sockets.

### What is hard, and what makes each part correct

* **Check, then act.** `has_conflict` and the insert, a status check and the
  update, the total read and the total written, the look-up of a guardrail and
  its insert are separated by awaits. Correctness: `NoDoubleBooking`,
  `StatusFollowsTable`, `TotalMatchesItems`, `BilledOnce`, `RefundedOnce`,
  `OneRowPerKey`, `ClockedOutOnce`. Some of it holds only of rows on which
  requests do not overlap; what holds always is stated apart
  (`StatusHasCause`, `NeverOvercharged`, `Ledger`).
* **Stale snapshots.** A session writes back the columns it changed of a row it
  read earlier. `FieldsKept`, `PriceFollowsDecision`, `EndedStaysAsItIs`.
* **Two commits, or a commit and an event.** A failure between them.
  `EventsMatchCommits`, `AnnouncedAsCommitted`, `ToldAsStored`, `RoomFollowsStay`.
* **A send nobody answered.** The producer is not idempotent: it sends again what
  the broker may already hold. `EventsMatchCommits`, `BilledOnce`, `RefundedOnce`, `Ledger`.
* **Delivery.** Auto-committed offsets, the seen key set before the handler,
  retries after a lost answer, expiry of keys, dead letters that cannot be sent,
  a shutdown in the middle, which discards the record handed over last.
  `AccountedFor`, `AppliedOnce`, `LagDrains`, `Delivery`.
* **Totals in two calls.** Writers in two processes, a floor at zero that some
  totals have and others have not, expiry, a flush, replays. `NeverOverstated`,
  `Exact`, `RebuildsUnseen`.
* **Amounts of any sign.** A negative quantity makes a negative subtotal, total
  and sale. `NeverOvercharged`, `TotalMatchesItems`, `NeverOverstated`.
* **A look-up in two queries, limits nobody orders.** `ClampedToGuard`.
* **A cache nothing invalidates.** `Converges`.
* **A set that changes while it is iterated over.** `BroadcastReachesAll`,
  `LiveIsRegistered`, `MessagesDrain`.

`PROJECT.json` lists the hazards one by one, each at its line, with the
properties that would catch it going wrong. Some have none, and say why: where two
requests overlap on one row (two closes of an order, two refunds, two clock-outs, two
first upserts of a guardrail) the code does go wrong, nothing in the repository
claims otherwise, and the properties except the row and state what is left.

## Modules, and how they correspond to the code

Each module's header says what its actions are; `PROJECT.json` maps every
definition to the lines it models. Variables called *history* in their
comments do not exist in the code: properties need them to refer to the past.
Operators with a comment that begins with "Mutation:" are not part of the
specification: each is a plausible bug that replaces one definition, to show
that a property would notice.

**`Bookings`.** `rows` and `roomStatus` are the tables; `req[c]` is the local state
of one request: which await it is at, the row it has read (`seen`), the commit it
has yet to announce. `CheckNewStay`/`Insert` are `create_reservation`;
`ReadForUpdate`/`RecheckDates`/`Write` are `update_reservation`;
`ReadForTransition`/`Write`/`ReadRoom`/`SetRoom` are `_transition` with the room's side
of check_in and check_out; `Publish` is the publisher's send once it is answered,
`PublishUnanswered` one the broker appended and did not answer, which the client
sends again with the same `event_id`. `Fail` is any await that
raises, `Restart` the process. `unsettled` names the stays whose last check-in or
check-out broke off between the reservation's commit and the room's. An update writes the columns that differ from its
snapshot, as SQLAlchemy does (`WithColumns`). Guests, prices and notes are left out.

**`EventConsumer`.** One consumer of the fleet with its topics. `log`, `committed` and
`position` are Kafka's; `pc`, `cur` and `attempt` are where `_process_record` stands;
`seen`, `applied` and `dlq` are the effects. Redis calls and handlers may raise before
or after their effect (`MarkFails`, `HandleFails`). A record the iterator hands over
after the stop event is let go unseen, its position with it (`Discard`). aiokafka commits the position on its own
(`AutoCommit`), the record in process included. What a record decodes to is a
constant (`Shape`).

**`Delivery`** is what all of that promises of an event, without keys, retries or
offsets: taken in the order of its topic, one at a time, and let go after its effect,
into a dead-letter topic, as a duplicate of an event that has had an end, or lost,
in hand or as it is taken.
A second effect takes an event that is `exposed`. `EventConsumer!Contract` maps the one to
the other: the event in hand is the record in process, the lost events are
`brokenOff`, the exposed ones `uncovered`.

**`Orders`.** The same style as `Bookings` for the restaurant: items and total are
committed apart, the total from the row the request read at its start. Subtotals are
integers of any sign, as quantities are; `remove_item` alone floors the total at zero.
`chargeable` is what was put on an order, and what was taken off it of items that had
lowered it; `lowered` marks the orders such an item was put on.
`raced` and `broken` mark the orders on which requests overlapped or failed half way.

**`ReadModel`.** The handlers as GET and SET steps, for the booking, revenue and
restaurant consumers and the replay process at once. It takes over from
`Delivery` what a consumer does to an event - handle it, skip it, handle it
again in a retry - and from `Ledger` what a topic may tell, instead of repeating how.
A second effect after a redelivery is left out: like one after a retry it would mark
the total as `repeated`, of which nothing is claimed. So are the copies of a send, whose
`event_id` a consumer has marked. Events
have their aggregate's id as Kafka key, so a log per aggregate is all the order
there is. `CompleteOrder` may happen twice: `Orders` shows how. Amounts have any
sign, and each key its own floor (`Floored`): the revenue always, the booking count
where it is taken from, the restaurant's sales never. `ignored` keeps the removals a
consumer skipped, `passed` the records the running replay skipped as seen by an
earlier run: its marks live a day and the totals five minutes, so `Expire` takes the totals
alone and only `Flush` takes the marks.

**`WebSocketBridge`.** The listener, the broadcast under way (`sending`, `todo`, `size`:
the state of Python's set iterator), the routes that change the set meanwhile,
the loss of Redis, and `lifespan`'s shutdown.

**`Ledger`.** The abstract log of an aggregate: added by one event at most, removed by
any number, in any order, and any entry repeated with the id it had. **`Payments`**
is `services/payment.py` - insert, read for a refund, commit, publish, with the
sends `Bookings` has - and implements `Ledger` through `Entries`, which maps a payment's
events to entries.

**`Guardrails`.** The two PUTs (`Upsert`), the two SELECTs of `get_active_for`
(`FindSpecific`, `FindWide`) and the insert or update that follows; the delete;
and `recommend_pricing` (`Ask`, `Predict`, the same look-up, `Show`), from the mapping
over the answer of the ML service (any of `Prices`) to the clamped price. Rows are an arbitrary set, as nothing
in the tables keeps two for one key apart: a look-up that meets two raises.

**`Recommendations`.** A decision is committed (`WriteDecision`), the row read
back as it is by then (`Refresh`) and the price written (`ReadRoomType`, `WritePrice`),
which the catalogue's own update writes too (`UpdateRoomType`).

**`Records`.** Every table that is created once and updated in place, with the
columns each PUT may set (`Changeable`), and `BaseRepository.update` as a read and a write
of the columns that differ; `ClockOut` alone checks what it read.

**`Reviews`.** The two commits and two events of one request, each event perhaps sent
twice, and the label as
a function of the numbers of positive and negative words.

**`Summary`.** Tables as the number of changes they have seen, a summary as what
its first and its last SELECT saw; the key is set, expires, and is otherwise
served as it is.

**`Services`** puts payments, guardrails, recommendations, records and reviews side
by side, **`Dashboard`** updates and summary: components that share no state the
modules model. The variable `focus` names, from the initial state on, the component
that moves, so that each component's behaviours are explored in full and the state
graphs add up instead of multiplying. That nothing is lost by it is a theorem
(`ServicesCompose`): a behaviour of the composition is one of every component.

The `MC*` modules hold the constants' values and symmetry sets; `MCServices` and
`MCDashboard` also fix what a component that is not in focus starts with (`MCInit`).

The proof modules: `Sums` has the lemmas about sums over finite sets,
`BookingsProofs`, `EventConsumerProofs`, `OrdersProofs`, `ReadModelProofs` and
`DashboardProofs` each the theorems of one specification, `PricingProofs` those of
guardrails and recommendations, `ServicesProofs` those of the other services and of
their composition.

Where components do share something, one module has both
sides: the room's status with check-in and housekeeping in `Bookings`, the price with
decision and catalogue in `Recommendations`, the revenue key with two consumers and
replay in `ReadModel`.

## Runs

| run | checks | instance, and why it is enough |
|---|---|---|
| `bookings_overlap` | `TypeOK`, `EventsMatchCommits`, `StatusHasCause` | two requests at a time, two reservations, one room, two days, three commits, one send repeated, no staff: any two operations overlap on one row, fail, restart |
| `bookings_serial` | `NoDoubleBooking`, `RoomFollowsStay`, `StatusFollowsTable` | one client, two reservations, three days, four commits: two stays that touch, contain or overlap each other, one to its check-out |
| `bookings_double_booking` | `NoDoubleBooking`, violated | two overlapping requests |
| `event_consumer` | `TypeOK`, `AccountedFor`, `AppliedOnce`, `LagDrains`, `Delivery` | two topics of two records, an event, undecodable bytes and JSON that is no object; one retry, one end of the process: a redelivery, a duplicate, a record discarded by a shutdown and every error path |
| `consumer_at_least_once` | `AtLeastOnce`, violated | the same; the shortest way is a shutdown |
| `orders` | `TypeOK`, `NeverOvercharged`, `TotalMatchesItems`, `BilledOnce`, `EndedStaysAsItIs` | two requests on one order, two items, one that raises the bill and one that lowers it (subtotals 2 and -1), one repeated send of an ending |
| `read_model` | `TypeOK`, `NeverOverstated`, `Exact`, `RebuildsUnseen` | one stay, two payments and two orders, a payment and an order below zero, two events each, two replays: both writers of the revenue, all keys, amounts the floor bites on; `Cut` says which combinations are looked at |
| `read_model_rebuild` | `ReplayRebuilds`, violated | one stay, one replay |
| `dashboard` | `DashboardTypeOK`, `LiveIsRegistered`, `BroadcastReachesAll`, `MessagesDrain`, `Converges` | three sockets, two messages: one leaves and one joins within a broadcast, so that the size of the set hides the change; two requests for a summary and three changes, before, between and after its SELECTs |
| `websocket_bridge_survives` | `BridgeSurvives`, violated | the same sockets and messages |
| `services` | `ServicesTypeOK`, `AnnouncedAsCommitted`, `RefundedOnce`, `Ledger`, `OneRowPerKey`, `ClampedToGuard`, `PriceFollowsDecision`, `FieldsKept`, `ClockedOutOnce`, `ToldAsStored`, `LabelFollowsWords` | two requests; two rows where rows are compared (payments, reviews, guardrails), one where a row is compared with its past (recommendations, records); prices within and above the limits, and limits that cross; comments on both sides of a label's threshold |
| `guardrails_branch_wide` | `BranchWideStays`, violated | one client, one room type |

What the passing runs show, in words:

* However requests overlap, an event of a reservation tells of exactly one commit;
  a commit is told of by one event, which may stand in the topic twice under one
  `event_id`; and a commit without an event belongs to a request
  that is at work, failed, or had no producer. A stale request can bring a status
  back; it can never commit one that no earlier status led to.
* One request after the other, even broken off anywhere: no night is sold twice,
  statuses follow `_TRANSITIONS`, and a room agrees with the stay that last settled
  it unless that stay's last check-in or check-out broke off between its two commits: a
  failed or missing publish is no excuse.
* A consumer loses an event only to an end of its process or task, to a
  `SET NX` that took effect and did not answer, or to a stop event set before it was
  handed over; an event whose key stands is
  applied once; an event leaves the consumer's hands only in the ways `Delivery` lists;
  and the loop gets through its topics even if every call fails.
* An order's total never exceeds what was put on it and what was taken off it of
  items that had lowered it. It equals its items - or is no less, once an item has
  lowered it and the floor of `remove_item` may have bitten -, is billed by one event
  and stays as it was billed when no two requests worked on the order at once
  (and, for the sum, none failed half way).
* A total in Redis no event was handled twice for is at most what still stands: the
  additions no removal handled after them has taken back. So what can make it too
  high is an event handled twice, a removal skipped, or one that came before its
  addition, and nothing else. Where nothing expired or was skipped it is exact, but
  for a revenue that amounts below zero have met the floor with, which is too high.
* An undisturbed replay into absent keys makes them what the records add up to that no
  earlier run has marked: everything at first, after a flush too, and nothing
  of it in a second replay within a day.
* A payment is announced by one event at most whatever overlaps, and refunded by one
  unless two requests worked on it; a repeated send repeats the event with its id.
* A look-up of a guardrail never meets two rows unless two upserts of the key
  overlapped, and a price shown keeps to the guardrail found; a room type costs
  what was last decided for it; updates of different columns of a row never undo
  each other; a clock-out stays; review events tell what the table holds, in order.
* A broadcast that ends normally has reached, or dropped, every socket that was
  there all along and did not share the broadcast with a newcomer. A summary says
  what the tables hold some time after they stop changing: only the key's expiry
  sees to that.

**Bounds.** `MaxCommits`, `MaxRecords`, `MaxExits`, `MaxEvents`, `MaxReplays`,
`MaxMessages` and `MaxChanges` cap what is otherwise unbounded and appear in guards
(those of `Summary` and `ReadModel` also in types). A producer repeats a send once per
event; `OneCopy`, a constraint, keeps one copy in the topic of `Bookings` and, of the
endings only, of `Orders`, and `NoCopy` none in the two runs that look at the tables
alone, which no event changes. In `Bookings` staff write one status
(`StaffChoices`), because only its difference from the stay's matters, and none in
`bookings_overlap`, whose properties say nothing of rooms. `ReadModel`
retries a finished SET once per total. `MCReadModel`'s `Cut`, an action constraint, takes
four parts of its state graph: the stay with both its consumers; the stay with
replays and one of the two; one of the payments with replays, or with the stay and the
revenue consumer; the orders, two events in all, with one replay. Beside a replay only
events of its topic are looked at. What `Cut` leaves out is proved all the same. Where a run says
`CHECK_DEADLOCK FALSE` the system may stop: a process is down for good, or every id
the bound allows has been handed out. The bookings runs use the permutations of
clients and reservations, `orders` also those of items, `services` those of clients and
guardrails; runs with a liveness property use no symmetry.

## Fairness

`EventConsumer!FairSpec` and the bridge in `Dashboard` assume weak fairness of the
task's own steps, nothing more: the event loop runs a task that can take a step, and
each awaited call ends, with an answer or an exception. Calls may fail forever;
nobody need produce, restart or recover anything. That a send to a vanished
client ends is uvicorn's doing: it closes a socket that answers no ping.

`Summary!Fairness` (in `Dashboard`, `Cached!Fairness`) is weak fairness of each
request's steps, for the same reason, and of the key's expiry: every SET of it carries a TTL, and Redis keeps time. Nobody
need ask for a summary. Liveness is claimed of nothing else.

## Proofs

All for arbitrary values of the constants, under each module's `ASSUME` and the
hypotheses below. `Step` lemmas take one step per action, and under it one per
conjunct the action can disturb.

Every safety invariant and every action property of the passing runs is a theorem
below; what stays with the model checker is named at the end.

**Reservations** (`BookingsProofs`)

| theorem | property | argument |
|---|---|---|
| `BookingsType` | `TypeOK` | one step per action |
| `BookingsEventsMatchCommits` | `EventsMatchCommits` | `Ledger` (of `BookingsProofs`) adds: a commit in a request's hands is in no other's, was not given up, and is the one that request will announce, and what a request will send again is an event of the topic. Without it nothing says that `Publish` sends the right event. |
| `BookingsStatusHasCause` | `StatusHasCause` | `Causes` adds: the status of every row has been committed, and a pending transition has its cause among the commits. The request's snapshot may be stale, but it was once true. |
| `SerialNoDoubleBooking`, `SerialStatusFollowsTable` | `NoDoubleBooking`, `StatusFollowsTable` | under `OneClient`; `Fresh` says that what a request has read still holds when it writes - which is just what overlapping requests destroy. |
| `SerialRoomFollowsStay` | `RoomFollowsStay` | under `OneClient`; `Stays`: a stay that settled a room agrees with it, or a request of it is `HalfWay` between its two commits, or its last one broke off there (`unsettled`); a request half way has its own kind as the stay's status, which is why settling the room makes the two agree |

**Consumers** (`EventConsumerProofs`)

| theorem | property | argument |
|---|---|---|
| `ConsumerType` | `TypeOK` | types, and committed <= position <= produced |
| `ConsumerAccountedFor` | `AccountedFor` | `Accounts` adds `SeenAccounted`: a seen key speaks of an event that has its outcome, is in its handler, or was broken off; otherwise a duplicate could be skipped for an event nobody handled. A discarded record is written down as broken off. |
| `ConsumerAppliedOnce` | `AppliedOnce` | `OnceByKey`: a handler runs on a key set for it, and before it has applied anything |
| `ConsumerDelivery` | `Delivery` | the refinement: every step is one of `Delivery`'s or a stutter. That a dropped duplicate has had an end is what `Accounts` says of its key; that an unexposed event's effect is its first is `OnceByKey`. |

**Restaurant orders** (`OrdersProofs`, with `Sums`)

| theorem | property | argument |
|---|---|---|
| `OrdersType` | `TypeOK` | one step per action; totals are integers, for subtotals of any sign |
| `OrdersNeverOvercharged` | `NeverOvercharged` | `Charges` adds that what requests have read, and what they are about to write, is covered (`Covered`) too, also by a removal whose item another request has deleted meanwhile |
| `OrdersEndedStaysAsItIs` | `EndedStaysAsItIs` | `OpenOnly`: a request that will still change an order nobody raced on is the only one on it, and the order is open |
| `OrdersTotalMatchesItems` | `TotalMatchesItems` | `MatchesAll`: what the one request on the order has read still is the row's total, and the row's total, or after its item the total it is about to write, bills the items (`Bills`: is their sum, or no less once an item has lowered it); `Sums` says what one item more or less does to the sum |
| `OrdersBilledOnce` | `BilledOnce` | `Told`: an order has an end told of only if its status has ended, by one event; the request about to tell it is the first, or has told it without an answer and will send that event again; and what it tells is `Truthful` |

**Dashboard read model and replay** (`ReadModelProofs`, with `Sums`)

| theorem | property | argument |
|---|---|---|
| `ReadModelInv` | | the inductive invariant `Inv`, of the parts named below; `WorkersInv` says where each consumer and replay is: within its log, at a record of its own topics, at a key of its own |
| `ReadModelType` | `TypeOK` | revenue and booking count are natural numbers by their floors, for amounts of any sign; the restaurant's sales are an integer |
| `ReadModelNeverOverstated` | `NeverOverstated` | `BoundedAll`: for a key no event was handled twice for, the total, what it will be with the event in hand (`InHand`), and what a handler between GET and SET is about to make of what it got, are at most `Bound`, the sum of what still stands of every aggregate. An event taken moves `Bound` by at least what it will move the total by (`TakenAtMost`), a skipped one never lowers it (`SkippedAtMost`), and zero is at most `Bound`, so that floors and expiry keep it |
| `ReadModelExact` | `Exact` | `ExactInv`: where all stories are whole, a key's total plus what is still due of the record in process is what its consumer has handled (`Balanced`), or more where the floor may have bitten (`Reaches`). With no amount below zero it never bites, as a removal's addition is among what was handled before it (`NoneNegative`, `NetFloor`) |
| `ReadModelRebuildsUnseen` | `RebuildsUnseen` | `RebuildInv`: the same balance for the keys only replay has written, over the records it has not passed by; they are keys of its topic, and a topic whose removal was handled without its marked addition (`Headless`) stays one of which nothing is claimed (`HeadlessStays`) |

**Payments, catalogue, reviews, and the services together** (`ServicesProofs`)

| theorem | property | argument |
|---|---|---|
| `PaymentsType` | `Payments!TypeOK` | one step per action |
| `PaymentsAnnouncedAsCommitted` | `AnnouncedAsCommitted` | `AllOnTopic` adds: an event a request will send again is on the topic, so a failure then gives up nothing |
| `PaymentsRefundedOnce` | `RefundedOnce` | `UnracedInOrder`: on such a payment one request works, the topic holds a prefix of the story (or the refund alone, when the announcement was broken off), and a refund about to commit still reads COMPLETED |
| `PaymentsLedger` | `Ledger` | the refinement: initial states map to the empty logs, every step to an addition, a removal, a repetition or a stutter. `AllFresh`: whoever is about to announce a payment is alone in that, and nobody has but itself, without an answer; `AllOnTopic`: then the send is a repetition |
| `RecordsType` | `Records!TypeOK` | one step per action |
| `RecordsFieldsKept`, `RecordsClockedOutOnce` | `Records!FieldsKept`, `Records!ClockedOutOnce` | `AllKept`: the one request setting a column read the value it still has, and a clock-out under way read a null |
| `ReviewsType` | `Reviews!TypeOK` | one step per action |
| `ReviewsToldAsStored`, `ReviewsLabelFollowsWords` | `Reviews!ToldAsStored`, `Reviews!LabelFollowsWords` | `AllProgress`: a review has one request at most, and row and topic are at the place its next await says, or were left at one by a request that broke off. The label is then that of the words, and `LabelMonotone` says the label of more positive and no more negative words is no worse, and that swapping the words swaps the labels |
| `ServicesCompose` | | `ServicesSpec` implies the specification of each of the five components: a step of one is a stutter of the others |
| `ServicesType`, `ServicesOneRowPerKey`, `ServicesClampedToGuard`, `ServicesPriceFollowsDecision`, `ServicesFieldsKept`, `ServicesClockedOutOnce`, `ServicesToldAsStored`, `ServicesLabelFollowsWords` | the properties of the run `services` | `ServicesCompose` with the component's theorem |

**Guardrails and recommendations** (`PricingProofs`)

| theorem | property | argument |
|---|---|---|
| `GuardrailsType` | `Guardrails!TypeOK` | one step per action |
| `GuardrailsOneRowPerKey` | `Guardrails!OneRowPerKey` | `UnracedSingle`: besides the one row, one upsert at most, which inserts only if there is no row, and whose snapshot has the key it will write |
| `GuardrailsClamped` | `Guardrails!ClampedToGuard` | `ClampKeepsTo` is what max(min, min(max, price)) keeps to when the limits cross |
| `RecommendationsType` | `Recommendations!TypeOK` | `RefsKept` adds that a request knows what its recommendation is about, so that what it applies is a price |
| `RecommendationsPriceFollowsDecision` | `Recommendations!PriceFollowsDecision` | `AllFollow`: one request at most on the room type, at each of its steps `OnItsWay` to the decided price, and the price the decided one when there is none |

**Updates and summary** (`DashboardProofs`)

| theorem | property | argument |
|---|---|---|
| `BridgeType` | `TypeOK` | one step per action, with the cardinality facts of finite sets |
| `BridgeLiveIsRegistered` | `LiveIsRegistered` | `Registered` adds: a socket on broadcast's list of dead ones has closed, and a closed socket never opens again |
| `BridgeBroadcastReachesAll` | `BroadcastReachesAll` | `Covered`: while a broadcast is under way, a socket that was in the set when it began and has stayed has the message, or its send raised or is awaited, or the iterator has yet to visit it |
| `SummaryType` | `Summary!TypeOK` | inductive: what was seen first is no newer than what was seen last, and neither newer than the tables, in a request as in the cache |
| `DashboardType` | `DashboardTypeOK` | the two together |

**Assumptions.** One hypothesis: `OneClient` (one request at a time), in the three
`Serial` theorems, whose run has one client. The constants' assumptions:

* `OrdersAssumption`: subtotals are integers, of any sign, as `quantity` accepts any
  integer.
* `ReadModelAssumption`: amounts are integers, of any sign; stays, payments and orders
  have different ids, and there are finitely many, which a sum over them needs; an
  absent key is told from a number.
* `ServicesAssumption`: prices and limits are integers (in any unit); room types,
  departments and the branch-wide key differ, being ids of different tables or
  none; a decision has one of the three statuses, as the endpoint answers any other
  with 400; a comment has no negative number of words; the default status of a room is
  one; attendance has a clock-out.
* `DashboardAssumption` and those of the other modules: the bounds are natural numbers,
  the sets of sockets, days or topics finite where they are counted or compared.

**Sums.** The sums of `Orders` and `ReadModel` are the community modules'
`SumFunctionOnSet`, defined by a recursive function over the subsets of a set that takes
the elements in the order `CHOOSE` picks them. `Sums` proves, by a smallest
counterexample over the well-founded order of finite subsets, that there is one such
function and that the order does not matter; hence what one more, one fewer or one
greater summand does, and that a sum of fewer is no more.

**Only model-checked.** The liveness properties `LagDrains`, `MessagesDrain` and
`Converges`: liveness under fairness, and `ENABLED`, are beyond the prover.

## Where code and documentation disagree

Five runs end in a counterexample; `PROJECT.json` quotes the lines.

* **Double booking.** "Room is already booked" is a check in one await and an
  insert in another; two requests pass it together.
* **At-least-once.** An event behind the committed offset can end without any
  outcome: offsets are committed before processing and the key is set before
  the handler. No crash is needed: a shutdown discards the record handed over
  after its stop event, and `stop()` commits past it.
* **Deterministic rebuild.** A replay beside keys that are alive counts their
  events a second time.
* **Every message is broadcast.** A client that comes or goes while a send is
  awaited ends the listener, for everybody and until the next restart.
* **The branch-wide guardrail.** The PUT of a room type's first guardrail looks
  for the row to update with the fall-back of the read path, finds the
  branch-wide one and turns it into the room type's: the other room types are
  left without. No overlap is needed.

Noticed, and without a run of their own:

* a transition checked against a row another request has changed since writes a
  status `_TRANSITIONS` does not allow (`StatusFollowsTable` holds of the serial
  instance only);
* a failed event of any topic goes to the dead-letter topic of the consumer's
  first topic, where `docs/Kafka.md` says `{topic}{KAFKA_DLQ_SUFFIX}` (modelled by
  `Filed`);
* after the bridge has died, `lifespan` leaves by its exception and never stops the
  publisher (modelled by `Shutdown`);
* an order item of negative quantity lowers the bill, even below zero; a removal the
  floor of `remove_item` cuts short leaves the bill too high once that item goes as well;
  and the restaurant's sales follow it below zero, where the revenue is floored;
* a second replay within a day rebuilds nothing of what the first has marked, though its keys may have
  expired since (`RebuildsUnseen`);
* two closes of an order, two refunds of a payment, two clock-outs or two first upserts
  of a guardrail that overlap all succeed (the properties except such rows);
* a cancellation whose event overtakes its creation's leaves the totals too high where
  the floor forgets what was below zero (`Standing` counts the stay);
* the occupancy trend of `services/dashboard.py` counts the check-ins of a day where
  its docstring promises the day's occupancy;
* the churn endpoint files its recommendation under a random branch when the
  user has none.

## What is not modelled

* Names, notes, notification texts, pagination and filters: no property tells
  them apart.
* Authentication and scoping: stateless checks of a request, over library calls
  (password hashing, token decoding).
* The trends of the dashboard: single SELECTs that keep nothing.
* The handlers of occupancy, forecasts, insights, reviews, notifications and the
  audit list: each overwrites one key, appends to a list or only publishes. What
  happens to their events before is `EventConsumer`.
* The ML service, which is not in the repository: its answers are a choice. Of
  the endpoints that call it only `recommend_pricing` reads anything the application
  keeps.
* Metrics, logging, configuration, schemas, migrations and scripts.

Kafka, Redis and PostgreSQL appear as the guarantees the code relies on: an
ordered log per key, in which a retried send may repeat an event, atomic single
commands, atomic commits.

## Plan

Done, in order: `Bookings`, `EventConsumer`, `Orders`, `ReadModel`, `WebSocketBridge`;
`Payments` with `Ledger` and the refinement; `Guardrails` and `Recommendations`; `Records`;
`Reviews` and `Summary`; the restaurant's sales in `ReadModel`; the proofs of the
components, then of `ReadModel`, of the sums in `Orders`, of the room's status in
`Bookings`, of the broadcasts, the reviews and the compositions; `Delivery` with its
refinement.

What is left, by importance:

1. **The fleet**: nine consumers over their groups with the broker's
   rebalancing, and a `main` that waits for a signal only.
2. **Delivery in `ReadModel`**: redelivered events handled a second time after others,
   so that its consumers can be shown to do all that `Delivery` allows, and the steps that
   carry what a topic holds (`PaymentsLedger`) over to what a total is made of
   (`ReadModelExact`).
3. **Proofs** about the fleet, and of what two overlapping requests leave true of an
   order's total beyond `NeverOvercharged`.
