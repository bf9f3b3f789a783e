----------------------------- MODULE ReadModel -----------------------------
(***************************************************************************)
(* The running totals of the dashboard in Redis: the booking count, the    *)
(* revenue and the restaurant's sales, kept by the handlers of             *)
(* app/handlers/ for the booking, revenue and restaurant consumers, and    *)
(* rebuilt by app/stream_processing/replay.py in a process of its own.     *)
(*                                                                         *)
(* A handler GETs the key and SETs it in two awaited calls.  Events carry  *)
(* their aggregate's id as Kafka key, so only the events of one aggregate  *)
(* are ordered; every aggregate has a log of its own, without the copies   *)
(* of a send that its event_id gives away.  What Delivery promises of a    *)
(* consumer is taken over: an event is handled once, or skipped (let go,   *)
(* broken off, dead-lettered), or handled again by a retry after its       *)
(* effect.  Events that move no total are left out.                        *)
(***************************************************************************)
EXTENDS Integers, Sequences, FiniteSets, Functions

CONSTANTS
  Stays,        \* reservations of one branch
  Payments,     \* payments of the same branch
  Orders,       \* restaurant orders of the same branch
  Amount,       \* total_amount of a stay or an order, amount of a payment, of any sign
  NoKey,        \* GET of a key that is not there
  MaxEvents,    \* bound: events per aggregate
  MaxReplays    \* bound: runs of the replay process

Aggregates == Stays \cup Payments \cup Orders

ASSUME ReadModelAssumption ==
  /\ Stays \cap Payments = {} /\ Stays \cap Orders = {} /\ Payments \cap Orders = {}
  /\ IsFiniteSet(Aggregates)
  /\ Amount \in [Aggregates -> Int]
  /\ NoKey \notin Int
  /\ MaxEvents \in Nat /\ MaxReplays \in Nat

VARIABLES
  log,         \* the events of every aggregate on its topic
  next,        \* events each worker has taken, per aggregate
  task,        \* what each worker is doing
  value,       \* Redis: the totals
  replaying,   \* the topics the replay process reads (one, or none)
  replaySeen,  \* Redis keys event:seen:replay.{topic}:{id}
  replays,     \* runs of the replay process so far
  disturbed,   \* history: totals that expired or missed an event
  ignored,     \* history: the removals a consumer has skipped
  repeated,    \* history: totals an event may have been added to twice
  alone,       \* history: totals only the running replay has written
  passed       \* history: records the running replay has skipped as seen

replay == <<replaying, replaySeen, replays>>
history == <<disturbed, ignored, repeated>>
vars == <<log, next, task, value, replaying, replaySeen, replays,
          disturbed, ignored, repeated, alone, passed>>

Keys == {"booking_count", "revenue", "restaurant_sales"}

Topic == {"booking.events", "payment.events", "restaurant.events"}

Consumers == {"booking", "revenue", "restaurant"}

Workers == Consumers \cup {"replay"}

\* ReservationCreated, PaymentCompleted, OrderCompleted; ReservationCancelled,
\* RefundIssued.
Kinds == {"add", "remove"}

Of(topic) ==
  CASE topic = "booking.events" -> Stays
    [] topic = "payment.events" -> Payments
    [] topic = "restaurant.events" -> Orders

\* The keys of the handlers _TOPIC_HANDLERS lists for the topic, in its order.
_TOPIC_HANDLERS(topic) ==
  CASE topic = "booking.events" -> <<"booking_count", "revenue">>
    [] topic = "payment.events" -> <<"revenue">>
    [] topic = "restaurant.events" -> <<"restaurant_sales">>

\* What a worker subscribes to.
Subscribed(w) ==
  CASE w = "booking" -> Stays
    [] w = "revenue" -> Stays \cup Payments
    [] w = "restaurant" -> Orders
    [] w = "replay" -> UNION {Of(topic) : topic \in replaying}

\* The key of a consumer's one handler.
KeyOf(consumer) ==
  CASE consumer = "booking" -> "booking_count"
    [] consumer = "revenue" -> "revenue"
    [] consumer = "restaurant" -> "restaurant_sales"

\* The keys a worker handles an event with.
HandledBy(w, a) ==
  IF w = "replay" THEN _TOPIC_HANDLERS(CHOOSE topic \in Topic : a \in Of(topic))
  ELSE <<KeyOf(w)>>

Idle == [pc |-> "idle"]

\* A worker handles one event with the first of `keys`; `read` is what it got.
Task ==
  {Idle} \cup [pc : {"get", "set", "publish"}, agg : Aggregates, kind : Kinds,
               keys : {<<key>> : key \in Keys} \cup {<<"booking_count", "revenue">>},
               read : Int]

-----------------------------------------------------------------------------
(* The handlers' arithmetic *)

\* What one event of an aggregate adds to each total, or takes from it.
CountOf(a) == IF a \in Stays THEN 1 ELSE 0

RevenueOf(a) == IF a \in Stays \cup Payments THEN Amount[a] ELSE 0

SalesOf(a) == IF a \in Orders THEN Amount[a] ELSE 0

Weight(key, a) ==
  CASE key = "booking_count" -> CountOf(a)
    [] key = "revenue" -> RevenueOf(a)
    [] key = "restaurant_sales" -> SalesOf(a)

Changed(current, kind, weight) ==
  IF kind = "add" THEN current + weight ELSE current - weight

\* max(..., 0): the revenue always, the booking count where it is taken from.
Floored(key, kind) == key = "revenue" \/ (key = "booking_count" /\ kind = "remove")

\* Mutation: the total may fall below zero.
AppliedUnclamped(key, current, kind, weight) == Changed(current, kind, weight)

Applied(key, current, kind, weight) ==
  LET total == Changed(current, kind, weight) IN
  IF Floored(key, kind) /\ total < 0 THEN 0 ELSE total

\* `await get_...(redis, branch_id) or 0`
Current(key) == IF value[key] = NoKey THEN 0 ELSE value[key]

-----------------------------------------------------------------------------
(* The services *)

\* A stay is created and cancelled, a payment completed and refunded; the table
\* rows allow one addition, requests that overlap can remove it again, and a
\* removal's event can overtake the addition's.  An event that is dropped (no
\* producer) or lost leaves nothing.
Make(a, kind) ==
  /\ a \notin Orders
  /\ Len(log[a]) < MaxEvents
  /\ kind = "add" => "add" \notin Range(log[a])
  /\ log' = [log EXCEPT ![a] = Append(@, kind)]
  /\ UNCHANGED <<next, task, value, replay, history, alone, passed>>

\* An order is closed; two requests that overlap can complete it twice
\* (Orders!BilledOnce), and nothing takes a sale back.
CompleteOrder(o) ==
  /\ Len(log[o]) < MaxEvents
  /\ log' = [log EXCEPT ![o] = Append(@, "add")]
  /\ UNCHANGED <<next, task, value, replay, history, alone, passed>>

-----------------------------------------------------------------------------
(* A worker: a consumer or the replay process *)

Continue(w, t) == task' = [task EXCEPT ![w] = t]

Taken(w, a) == next' = [next EXCEPT ![w][a] = @ + 1]

Begin(w, a) ==
  Continue(w, [pc |-> "get", agg |-> a, kind |-> log[a][next[w][a] + 1],
               keys |-> HandledBy(w, a), read |-> 0])

\* A consumer takes an event that is not a duplicate.
Consume(w, a) ==
  /\ task[w] = Idle
  /\ a \in Subscribed(w)
  /\ next[w][a] < Len(log[a])
  /\ Taken(w, a)
  /\ Begin(w, a)
  /\ UNCHANGED <<log, value, replay, history, alone, passed>>

\* The event is let go, its processing broken off before its effect, or dead-lettered.
Skip(w, a) ==
  /\ task[w] = Idle
  /\ a \in Subscribed(w)
  /\ next[w][a] < Len(log[a])
  /\ Taken(w, a)
  /\ disturbed' = disturbed \cup {HandledBy(w, a)[1]}
  /\ LET n == next[w][a] + 1 IN
     ignored' = IF log[a][n] = "remove" THEN ignored \cup {<<w, a, n>>} ELSE ignored
  /\ UNCHANGED <<log, task, value, replay, repeated, alone, passed>>

Get(w) ==
  /\ task[w].pc = "get"
  /\ Continue(w, [task[w] EXCEPT !.pc = "set", !.read = Current(Head(task[w].keys))])
  /\ UNCHANGED <<log, next, value, replay, history, alone, passed>>

\* Mutation: the consumer's handler starts from zero instead of what it got.
SetAfresh(w) ==
  /\ task[w].pc = "set"
  /\ LET t == task[w]  key == Head(t.keys) IN
     /\ value' = [value EXCEPT ![key] = Applied(key, 0, t.kind, Weight(key, t.agg))]
     /\ Continue(w, [t EXCEPT !.pc = "publish"])
     /\ repeated' = IF w = "replay" THEN repeated \cup {key} ELSE repeated
     /\ alone' = IF w = "replay" THEN alone ELSE alone \ {key}
  /\ UNCHANGED <<log, next, replay, disturbed, ignored, passed>>

\* The key is set, for _CACHE_TTL_SECONDS.
Set(w) ==
  /\ task[w].pc = "set"
  /\ LET t == task[w]  key == Head(t.keys) IN
     /\ value' = [value EXCEPT ![key] = Applied(key, t.read, t.kind, Weight(key, t.agg))]
     /\ Continue(w, [t EXCEPT !.pc = "publish"])
     /\ repeated' = IF w = "replay" THEN repeated \cup {key} ELSE repeated
     /\ alone' = IF w = "replay" THEN alone ELSE alone \ {key}
  /\ UNCHANGED <<log, next, replay, disturbed, ignored, passed>>

\* publish_dashboard_update returns, or the event is dead-lettered after its
\* effect; the next handler of the event follows.
PublishUpdate(w) ==
  /\ task[w].pc = "publish"
  /\ LET t == task[w] IN
     Continue(w, IF Len(t.keys) = 1 THEN Idle
                 ELSE [t EXCEPT !.pc = "get", !.keys = Tail(@), !.read = 0])
  /\ UNCHANGED <<log, next, value, replay, history, alone, passed>>

\* Mutation: a retry takes the event for handled when its key was read.
RetryGivesUp(w) ==
  /\ w \in Consumers
  /\ task[w].pc = "set"
  /\ Continue(w, [task[w] EXCEPT !.pc = "publish"])
  /\ UNCHANGED <<log, next, value, replay, history, alone, passed>>

\* A call of a consumer's handler raises and the handler runs again from its
\* start, its effect done or not (bound: not again for a total already marked).
Retry(w) ==
  /\ w \in Consumers
  /\ \/ task[w].pc = "set" /\ UNCHANGED repeated
     \/ /\ task[w].pc = "publish" /\ Head(task[w].keys) \notin repeated
        /\ repeated' = repeated \cup {Head(task[w].keys)}
  /\ Continue(w, [task[w] EXCEPT !.pc = "get", !.read = 0])
  /\ UNCHANGED <<log, next, value, replay, disturbed, ignored, alone, passed>>

-----------------------------------------------------------------------------
(* replay.py *)

\* The keys a replay of the topic makes anew.
Absent(topic) == {key \in Range(_TOPIC_HANDLERS(topic)) : value[key] = NoKey}

\* replay(topic, None): from the earliest record.
StartReplay(topic) ==
  /\ replaying = {} /\ replays < MaxReplays
  /\ replaying' = {topic}
  /\ replays' = replays + 1
  /\ alone' = Absent(topic)
  /\ UNCHANGED <<log, next, task, value, replaySeen, history, passed>>

\* Mutation: replay does not check event:seen:replay.* (PHASE7_COMPLETION.md, bug 8).
ReplayUnchecked(a) ==
  /\ task["replay"] = Idle
  /\ a \in Subscribed("replay")
  /\ next["replay"][a] < Len(log[a])
  /\ \/ Taken("replay", a)
     \/ UNCHANGED next
  /\ Begin("replay", a)
  /\ replaySeen' = replaySeen \cup {<<a, next["replay"][a] + 1>>}
  /\ UNCHANGED <<log, value, replaying, replays, history, alone, passed>>

\* A record of the topic: marked seen and handled, or skipped as a duplicate.
Replay(a) ==
  /\ task["replay"] = Idle
  /\ a \in Subscribed("replay")
  /\ next["replay"][a] < Len(log[a])
  /\ Taken("replay", a)
  /\ LET id == <<a, next["replay"][a] + 1>> IN
     \/ /\ id \in replaySeen
        /\ passed' = passed \cup {id}
        /\ UNCHANGED <<task, replaySeen>>
     \/ /\ id \notin replaySeen
        /\ replaySeen' = replaySeen \cup {id}
        /\ Begin("replay", a)
        /\ UNCHANGED passed
  /\ UNCHANGED <<log, value, replaying, replays, history, alone>>

\* A call raises, or the operator stops the process: nothing else ends the loop
\* over the topic.  The next run has a consumer group of its own.
EndReplay ==
  /\ replaying # {}
  /\ replaying' = {}
  /\ Continue("replay", Idle)
  /\ next' = [next EXCEPT !["replay"] = [a \in Aggregates |-> 0]]
  /\ alone' = {} /\ passed' = {}
  /\ UNCHANGED <<log, value, replaySeen, replays, history>>

-----------------------------------------------------------------------------
(* Redis *)

\* _CACHE_TTL_SECONDS pass without a SET of the key.
Expire(key) ==
  /\ value[key] # NoKey
  /\ value' = [value EXCEPT ![key] = NoKey]
  /\ disturbed' = disturbed \cup {key}
  /\ alone' = alone \ {key}
  /\ UNCHANGED <<log, next, task, replay, ignored, repeated, passed>>

\* "If Redis is flushed" (docs/Redis.md).
Flush ==
  /\ value' = [key \in Keys |-> NoKey]
  /\ replaySeen' = {}
  /\ disturbed' = disturbed \cup {key \in Keys : value[key] # NoKey}
  /\ alone' = {}
  /\ UNCHANGED <<log, next, task, replaying, replays, ignored, repeated, passed>>

-----------------------------------------------------------------------------

Init ==
  /\ log = [a \in Aggregates |-> <<>>]
  /\ next = [w \in Workers |-> [a \in Aggregates |-> 0]]
  /\ task = [w \in Workers |-> Idle]
  /\ value = [key \in Keys |-> NoKey]
  /\ replaying = {}
  /\ replaySeen = {}
  /\ replays = 0
  /\ disturbed = {}
  /\ ignored = {}
  /\ repeated = {}
  /\ alone = {}
  /\ passed = {}

Next ==
  \/ \E a \in Aggregates :
       \/ \E kind \in Kinds : Make(a, kind)
       \/ \E w \in Consumers : Consume(w, a) \/ Skip(w, a)
       \/ Replay(a)
  \/ \E o \in Orders : CompleteOrder(o)
  \/ \E w \in Workers :
       \/ Get(w)
       \/ Set(w)
       \/ PublishUpdate(w)
       \/ Retry(w)
  \/ \E topic \in Topic : StartReplay(topic)
  \/ EndReplay
  \/ \E key \in Keys : Expire(key)
  \/ Flush

Spec == Init /\ [][Next]_vars

-----------------------------------------------------------------------------

\* Only the restaurant's sales can be below zero.
Totals(key) == IF key = "restaurant_sales" THEN Int ELSE Nat

\* Every total is absent or a number, of the revenue and the booking count one
\* from zero up, and the workers' tasks and positions are of their types.
TypeOK ==
  /\ log \in [Aggregates -> Seq(Kinds)]
  /\ next \in [Workers -> [Aggregates -> 0..MaxEvents]]
  /\ task \in [Workers -> Task]
  /\ value \in [Keys -> Int \cup {NoKey}]
  /\ \A key \in Keys : value[key] \in Totals(key) \cup {NoKey}
  /\ replaying \in {{}} \cup {{topic} : topic \in Topic}
  /\ replaySeen \subseteq Aggregates \X (1..MaxEvents)
  /\ replays \in 0..MaxReplays
  /\ ignored \subseteq Consumers \X Aggregates \X (1..MaxEvents)
  /\ disturbed \subseteq Keys /\ repeated \subseteq Keys /\ alone \subseteq Keys
  /\ passed \subseteq Aggregates \X (1..MaxEvents)

\* The removals of a that a consumer has handled.
Undone(w, a) == {n \in 1..next[w][a] : log[a][n] = "remove" /\ <<w, a, n>> \notin ignored}

\* The additions of a that it has taken and that no such removal has followed.
Standing(w, a) == {n \in 1..next[w][a] : log[a][n] = "add" /\ \A m \in Undone(w, a) : m < n}

\* The most the events of a have put on the consumer's total.  A removal of an
\* amount below zero adds.
AtMost(w, a) ==
  LET weight == Weight(KeyOf(w), a) IN
  IF weight >= 0 THEN weight * Cardinality(Standing(w, a))
  ELSE (-weight) * Cardinality(Undone(w, a))

\* Expiry, additions that were skipped or came after their removal, and totals
\* floored at zero leave no total higher than what still stands: all that was
\* added and no removal the consumer handled has taken back.  What is too high is
\* so by an event handled twice or by a removal that was skipped or came first.
NeverOverstated ==
  \A w \in Consumers : task[w] = Idle /\ KeyOf(w) \notin repeated =>
    Current(KeyOf(w)) <= SumFunctionOnSet([a \in Aggregates |-> AtMost(w, a)], Aggregates)

\* What the events a worker has read of every aggregate of `aggs` add up to, n of
\* each but for those of `skipped`: of a whole story, those told of once.
Net(key, aggs, n, skipped) ==
  SumFunctionOnSet([a \in aggs |-> IF {i \in 1..n[a] : <<a, i>> \notin skipped} = {1}
                                   THEN Weight(key, a) ELSE 0], aggs)

\* The log of an aggregate tells a whole story: it was made, then perhaps undone.
Whole(a) == log[a] \in {<<>>, <<"add">>, <<"add", "remove">>}

\* No amount below zero has reached the revenue, which is floored then.
NoneNegative(key) ==
  key = "revenue" => \A a \in Stays \cup Payments : log[a] # <<>> => Amount[a] >= 0

\* However the consumers interleave topics and partitions, a total no event is
\* missing from is exactly what they have handled: flooring at zero loses
\* nothing, because an aggregate's removal is never handled before its addition.
\* Only amounts below zero make the floor bite, and then the revenue is too high.
Exact ==
  \A w \in Consumers :
    LET key == KeyOf(w)
        net == Net(key, Subscribed(w), next[w], {}) IN
    task[w] = Idle /\ key \notin disturbed \cup repeated /\ (\A a \in Aggregates : Whole(a))
      => Current(key) >= net /\ (NoneNegative(key) => Current(key) = net)

CaughtUp(w) == task[w] = Idle /\ \A a \in Subscribed(w) : next[w][a] = Len(log[a])

\* A removal was handled whose addition an earlier run had marked.
Headless(a) == <<a, 1>> \in passed /\ next["replay"][a] >= 2 /\ <<a, 2>> \notin passed

\* A replay of a topic into absent keys, no consumer setting them meanwhile, makes
\* them what the records add up to that no earlier run has marked as seen.  So a
\* second replay within a day rebuilds nothing of what the first has read, though
\* the keys live 300 seconds; it needs the marks flushed as well.
RebuildsUnseen ==
  \A topic \in replaying :
    CaughtUp("replay") /\ (\A a \in Aggregates : Whole(a)) /\ (\A a \in Of(topic) : ~Headless(a))
      => \A key \in alone :
           LET net == Net(key, Of(topic), next["replay"], passed) IN
           Current(key) >= net /\ (NoneNegative(key) => Current(key) = net)

\* "deterministically rebuilding the affected keys" (docs/Redis.md): when replay
\* and consumers have all handled the topics, and nothing expired or was skipped
\* on the way, the booking count is what the topic's events add up to.
ReplayRebuilds ==
  "booking.events" \in replaying /\ "booking_count" \notin disturbed
    /\ (\A w \in Workers : CaughtUp(w)) /\ (\A a \in Aggregates : Whole(a))
    => Current("booking_count") = Net("booking_count", Stays, next["replay"], {})
=============================================================================
