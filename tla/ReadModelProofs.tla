-------------------------- MODULE ReadModelProofs --------------------------
(***************************************************************************)
(* What holds of the dashboard's running totals for any number of stays,   *)
(* payments, orders, events and replays, and amounts of any sign.          *)
(*                                                                         *)
(* NeverOverstated: a consumer's key, with what the event in hand is still *)
(* to change, is at most what still stands of the events the consumer has  *)
(* taken (Bounded).  Exact and RebuildsUnseen: while every log tells a     *)
(* whole story, a key is at least what the events its writer has taken add *)
(* up to, but for the event in hand, and so is the value got and not yet   *)
(* set (Balanced); it is no more unless the floor at zero has bitten, for  *)
(* which it takes an amount below zero.  The sums are those of Sums.       *)
(***************************************************************************)
EXTENDS ReadModel, Sums, TLAPS

-----------------------------------------------------------------------------
(* Types *)

KeyLists == {<<key>> : key \in Keys} \cup {<<"booking_count", "revenue">>}

LEMMA KeyList ==
  ASSUME NEW keys \in KeyLists
  PROVE  /\ Head(keys) = keys[1] /\ Head(keys) \in Keys
         /\ Len(keys) = 1 => keys = <<Head(keys)>>
         /\ Len(keys) # 1 => /\ keys = <<"booking_count", "revenue">>
                             /\ Tail(keys) = <<"revenue">> /\ Tail(keys) \in KeyLists
<1>1. CASE \E key \in Keys : keys = <<key>>
  BY <1>1
<1>2. CASE keys = <<"booking_count", "revenue">>
  BY <1>2 DEF Keys, KeyLists
<1> QED
  BY <1>1, <1>2 DEF KeyLists

\* An aggregate's events are all on one topic.
LEMMA TopicOf ==
  ASSUME NEW topic \in Topic, NEW a \in Of(topic)
  PROVE  a \in Aggregates /\ HandledBy("replay", a) = _TOPIC_HANDLERS(topic)
<1>1. a \in Aggregates /\ \A t \in Topic : a \in Of(t) => t = topic
  BY ReadModelAssumption DEF Topic, Of, Aggregates
<1>2. (CHOOSE t \in Topic : a \in Of(t)) = topic
  BY <1>1
<1> QED
  BY <1>1, <1>2 DEF HandledBy

LEMMA HandledByType ==
  ASSUME NEW a \in Aggregates
  PROVE  /\ HandledBy("replay", a) \in KeyLists
         /\ \A w \in Consumers : /\ HandledBy(w, a) = <<KeyOf(w)>> /\ HandledBy(w, a) \in KeyLists
                                 /\ KeyOf(w) \in Keys
<1>1. PICK topic \in Topic : a \in Of(topic)
  BY DEF Topic, Of, Aggregates
<1>2. HandledBy("replay", a) = _TOPIC_HANDLERS(topic)
  BY <1>1, TopicOf
<1>3. _TOPIC_HANDLERS(topic) \in KeyLists
  BY DEF Topic, _TOPIC_HANDLERS, KeyLists, Keys
<1>4. \A w \in Consumers : HandledBy(w, a) = <<KeyOf(w)>> /\ KeyOf(w) \in Keys
  BY DEF Consumers, HandledBy, KeyOf, Keys
<1> QED
  BY <1>2, <1>3, <1>4 DEF KeyLists

LEMMA WeightType ==
  ASSUME NEW key \in Keys, NEW a \in Aggregates
  PROVE  Weight(key, a) \in Int /\ (key = "booking_count" => Weight(key, a) \in Nat)
<1>1. Amount[a] \in Int
  BY ReadModelAssumption
<1>2. CountOf(a) \in Nat /\ RevenueOf(a) \in Int /\ SalesOf(a) \in Int
  BY <1>1 DEF CountOf, RevenueOf, SalesOf
<1> QED
  BY <1>2 DEF Weight, Keys

\* The floor at zero bites or it does not.
LEMMA AppliedType ==
  ASSUME NEW key \in Keys, NEW current \in Totals(key), NEW kind \in Kinds, NEW weight \in Int,
         key = "booking_count" => weight \in Nat
  PROVE  /\ Applied(key, current, kind, weight) \in Totals(key)
         /\ Applied(key, current, kind, weight) \in Int /\ Changed(current, kind, weight) \in Int
         /\ \/ Applied(key, current, kind, weight) = Changed(current, kind, weight)
            \/ /\ Floored(key, kind) /\ Changed(current, kind, weight) < 0
               /\ Applied(key, current, kind, weight) = 0
<1>1. current \in Int /\ (key # "restaurant_sales" => current \in Nat)
  BY DEF Totals
<1>2. PICK total \in Int : total = Changed(current, kind, weight)
  BY <1>1 DEF Changed
<1>3. Applied(key, current, kind, weight) = IF Floored(key, kind) /\ total < 0 THEN 0 ELSE total
  BY <1>2 DEF Applied
<1>4. key # "restaurant_sales" /\ ~Floored(key, kind) => total \in Nat
  BY <1>1, <1>2 DEF Floored, Changed, Kinds, Keys
<1> QED
  BY <1>2, <1>3, <1>4 DEF Totals

LEMMA CurrentType ==
  ASSUME TypeOK, NEW key \in Keys
  PROVE  Current(key) \in Totals(key) /\ Current(key) \in Int
BY ReadModelAssumption DEF TypeOK, Current, Totals

\* What the fields of a task hold.
LEMMA TaskFields ==
  ASSUME NEW t \in Task
  PROVE  /\ t.pc \in {"idle", "get", "set", "publish"} /\ t.pc = "idle" <=> t = Idle
         /\ t # Idle => /\ t.agg \in Aggregates /\ t.kind \in Kinds /\ t.keys \in KeyLists
                        /\ t.read \in Int
BY DEF Task, Idle, KeyLists

Busy == [pc : {"get", "set", "publish"}, agg : Aggregates, kind : Kinds, keys : KeyLists,
         read : Int]

LEMMA BusyTask ==
  /\ \A t \in Task : t # Idle => t \in Busy
  /\ \A u \in Busy : u \in Task /\ u # Idle
BY DEF Busy, Task, Idle, KeyLists

\* The tasks a step of a worker makes of its task t.
LEMMA TaskDone ==
  ASSUME NEW t \in Busy, NEW u, u = [t EXCEPT !.pc = "publish"]
  PROVE  /\ u \in Busy /\ u.pc = "publish"
         /\ u.agg = t.agg /\ u.kind = t.kind /\ u.keys = t.keys
BY DEF Busy

LEMMA TaskAgain ==
  ASSUME NEW t \in Busy, NEW u, u = [t EXCEPT !.pc = "get", !.read = 0]
  PROVE  /\ u \in Busy /\ u.pc = "get"
         /\ u.agg = t.agg /\ u.kind = t.kind /\ u.keys = t.keys
<1>0. 0 \in Int
  OBVIOUS
<1>1. u \in Busy
  BY <1>0, Zenon DEF Busy
<1> QED
  BY <1>1 DEF Busy

LEMMA TaskNextKey ==
  ASSUME NEW t \in Busy, Len(t.keys) # 1,
         NEW u, u = [t EXCEPT !.pc = "get", !.keys = Tail(@), !.read = 0]
  PROVE  /\ u \in Busy /\ u.pc = "get" /\ t.keys = <<"booking_count", "revenue">>
         /\ u.agg = t.agg /\ u.kind = t.kind /\ u.keys = <<"revenue">>
<1>1. /\ t.keys = <<"booking_count", "revenue">> /\ Tail(t.keys) = <<"revenue">>
      /\ Tail(t.keys) \in KeyLists /\ 0 \in Int
  BY KeyList DEF Busy
<1>2. u \in Busy
  BY <1>1, Zenon DEF Busy
<1> QED
  BY <1>1, <1>2 DEF Busy

-----------------------------------------------------------------------------
(* What a worker is at *)

\* No worker is past the end of a log; a consumer's task has the consumer's key,
\* the replay's has keys of the topic it reads.
OwnKey(w) == task[w] # Idle => task[w].keys = <<KeyOf(w)>>

ReplayTask ==
  /\ replaying = {} => /\ task["replay"] = Idle /\ next["replay"] = [a \in Aggregates |-> 0]
                       /\ passed = {}
  /\ \A topic \in replaying : task["replay"] # Idle =>
       /\ task["replay"].agg \in Of(topic)
       /\ \/ task["replay"].keys = _TOPIC_HANDLERS(topic)
          \/ topic = "booking.events" /\ task["replay"].keys = <<"revenue">>

\* What a worker got is a total of its key.
OwnRead(w) == task[w].pc = "set" => task[w].read \in Totals(Head(task[w].keys))

\* Only events that were taken were skipped.
Skipped ==
  /\ \A s \in ignored : s[3] <= next[s[1]][s[2]]
  /\ \A s \in passed : s[2] <= next["replay"][s[1]]

\* Nothing takes a sale back, and nothing else is added twice.
LogsTell(a) ==
  /\ a \in Orders => \A n \in 1..Len(log[a]) : log[a][n] = "add"
  /\ a \notin Orders => \A m, n \in 1..Len(log[a]) : log[a][m] = "add" /\ log[a][n] = "add" => m = n

WorkersInv ==
  /\ \A a \in Aggregates : Len(log[a]) <= MaxEvents /\ LogsTell(a)
  /\ \A w \in Workers, a \in Aggregates : next[w][a] <= Len(log[a])
  /\ \A w \in Consumers : OwnKey(w)
  /\ \A w \in Workers : OwnRead(w)
  /\ ReplayTask
  /\ Skipped

LEMMA LogAppend ==
  ASSUME TypeOK, WorkersInv, NEW a \in Aggregates, NEW kind \in Kinds, Len(log[a]) < MaxEvents,
         log' = [log EXCEPT ![a] = Append(@, kind)],
         a \in Orders => kind = "add",
         a \notin Orders /\ kind = "add" => "add" \notin Range(log[a]),
         UNCHANGED <<next, task, value, replay, history, alone, passed>>
  PROVE  TypeOK' /\ WorkersInv'
<1>1. /\ log' \in [Aggregates -> Seq(Kinds)]
      /\ \A b \in Aggregates : Len(log[b]) <= Len(log'[b]) /\ Len(log'[b]) <= MaxEvents
  BY ReadModelAssumption DEF TypeOK, WorkersInv
<1>2. \A w \in Workers, b \in Aggregates : next[w][b] \in Nat
  BY ReadModelAssumption DEF TypeOK
<1>3. TypeOK'
  BY <1>1 DEF TypeOK, Totals, replay, history
<1>4. \A w \in Workers, b \in Aggregates : next'[w][b] <= Len(log'[b])
  BY <1>1, <1>2 DEF WorkersInv, TypeOK
<1>5. ASSUME NEW b \in Aggregates PROVE LogsTell(b)'
  <2>1. LogsTell(b) /\ log[b] \in Seq(Kinds)
    BY DEF WorkersInv, TypeOK
  <2>2. CASE b # a
    <3>1. log'[b] = log[b]
      BY <2>2 DEF TypeOK
    <3> QED
      BY <2>1, <3>1 DEF LogsTell
  <2>3. CASE b = a
    <3>1. log'[a] = Append(log[a], kind)
      BY DEF TypeOK
    <3>2. /\ Len(log'[a]) = Len(log[a]) + 1 /\ Len(log[a]) \in Nat
          /\ log'[a][Len(log[a]) + 1] = kind
          /\ \A n \in 1..Len(log[a]) : log'[a][n] = log[a][n] /\ log[a][n] \in Range(log[a])
      BY <2>1, <2>3, <3>1 DEF Range
    <3>3. \A n \in 1..Len(log'[a]) : n \in 1..Len(log[a]) \/ n = Len(log[a]) + 1
      BY <3>2
    <3>4. a \in Orders => \A n \in 1..Len(log'[a]) : log'[a][n] = "add"
      BY <2>1, <2>3, <3>2, <3>3 DEF LogsTell
    <3>5. ASSUME a \notin Orders, NEW m \in 1..Len(log'[a]), NEW n \in 1..Len(log'[a]),
                 log'[a][m] = "add", log'[a][n] = "add"
          PROVE  m = n
      <4>1. CASE m \in 1..Len(log[a]) /\ n \in 1..Len(log[a])
        BY <2>1, <2>3, <3>2, <3>5, <4>1 DEF LogsTell
      <4>2. CASE m \in 1..Len(log[a]) /\ n = Len(log[a]) + 1
        BY <3>2, <3>5, <4>2
      <4>3. CASE n \in 1..Len(log[a]) /\ m = Len(log[a]) + 1
        BY <3>2, <3>5, <4>3
      <4> QED
        BY <3>3, <3>5, <4>1, <4>2, <4>3
    <3> QED
      BY <2>3, <3>4, <3>5 DEF LogsTell
  <2> QED
    BY <2>2, <2>3
<1> QED
  BY <1>1, <1>3, <1>4, <1>5
     DEF WorkersInv, OwnKey, OwnRead, Totals, Skipped, ReplayTask, replay, history

\* The event after those taken.
LEMMA TakenEvent ==
  ASSUME TypeOK, WorkersInv, NEW w \in Workers, NEW a \in Aggregates,
         next[w][a] < Len(log[a]), Taken(w, a)
  PROVE  /\ log[a][next[w][a] + 1] \in Kinds
         /\ next[w][a] + 1 \in 1..MaxEvents
         /\ next' \in [Workers -> [Aggregates -> 0..MaxEvents]]
         /\ next'[w] = [next[w] EXCEPT ![a] = @ + 1]
         /\ \A v \in Workers : v # w => next'[v] = next[v]
         /\ \A v \in Workers, b \in Aggregates : next'[v][b] <= Len(log[b])
<1>1. /\ next[w][a] \in Nat /\ log[a] \in Seq(Kinds) /\ Len(log[a]) <= MaxEvents
      /\ next[w] \in [Aggregates -> 0..MaxEvents] /\ next[w][a] < Len(log[a])
  BY ReadModelAssumption DEF TypeOK, WorkersInv
<1>2. next[w][a] + 1 \in 1..MaxEvents /\ log[a][next[w][a] + 1] \in Kinds
  BY <1>1, ReadModelAssumption
<1>3. /\ next'[w] = [next[w] EXCEPT ![a] = @ + 1]
      /\ \A v \in Workers : v # w => next'[v] = next[v]
  BY DEF Taken, TypeOK
<1>4. next' \in [Workers -> [Aggregates -> 0..MaxEvents]]
  BY <1>1, <1>2 DEF Taken, TypeOK
<1>5. ASSUME NEW v \in Workers, NEW b \in Aggregates PROVE next'[v][b] <= Len(log[b])
  BY <1>1, <1>3 DEF WorkersInv
<1> QED
  BY <1>2, <1>3, <1>4, <1>5

\* A worker goes on with its task.
LEMMA TaskChange ==
  ASSUME TypeOK, WorkersInv, NEW w \in Workers, NEW u \in Task, Continue(w, u),
         task[w] # Idle, UNCHANGED <<log, next, replaying, ignored, passed>>,
         u # Idle => /\ u.agg = task[w].agg
                     /\ \/ u.keys = task[w].keys
                        \/ Len(task[w].keys) # 1 /\ u.keys = <<"revenue">>,
         u.pc = "set" => u.read \in Totals(Head(u.keys))
  PROVE  /\ task' \in [Workers -> Task] /\ task'[w] = u
         /\ \A v \in Workers : v # w => task'[v] = task[v]
         /\ WorkersInv'
<1>1. /\ task' \in [Workers -> Task] /\ task'[w] = u
      /\ \A v \in Workers : v # w => task'[v] = task[v]
  BY DEF Continue, TypeOK
<1>2. ASSUME NEW v \in Consumers PROVE OwnKey(v)'
  <2>1. v \in Workers /\ v # "replay" /\ OwnKey(v)
    BY DEF Workers, Consumers, WorkersInv
  <2>2. Len(<<KeyOf(v)>>) = 1
    OBVIOUS
  <2>3. CASE v = w
    BY <1>1, <2>1, <2>2, <2>3 DEF OwnKey
  <2>4. CASE v # w
    BY <1>1, <2>1, <2>4 DEF OwnKey
  <2> QED
    BY <2>3, <2>4
<1>3. ReplayTask'
  <2>1. ReplayTask /\ "replay" \in Workers
    BY DEF WorkersInv, Workers
  <2>2. CASE w # "replay"
    BY <1>1, <2>1, <2>2 DEF ReplayTask
  <2>3. CASE w = "replay"
    <3>1. replaying' # {}
      BY <2>1, <2>3 DEF ReplayTask
    <3>2. ASSUME NEW topic \in replaying, u # Idle
          PROVE  /\ u.agg \in Of(topic)
                 /\ \/ u.keys = _TOPIC_HANDLERS(topic)
                    \/ topic = "booking.events" /\ u.keys = <<"revenue">>
      <4>1. /\ task[w].agg \in Of(topic)
            /\ \/ task[w].keys = _TOPIC_HANDLERS(topic)
               \/ topic = "booking.events" /\ task[w].keys = <<"revenue">>
        BY <2>1, <2>3, <3>2 DEF ReplayTask
      <4>2. topic \in Topic
        BY <3>2 DEF TypeOK
      <4>3. Len(_TOPIC_HANDLERS(topic)) # 1 => topic = "booking.events"
        BY <4>2 DEF Topic, _TOPIC_HANDLERS
      <4> QED
        BY <3>2, <4>1, <4>3
    <3> QED
      BY <1>1, <2>3, <3>1, <3>2 DEF ReplayTask
  <2> QED
    BY <2>2, <2>3
<1>4. ASSUME NEW v \in Workers PROVE OwnRead(v)'
  BY <1>1 DEF WorkersInv, OwnRead, Totals
<1>5. Skipped' /\ \A a \in Aggregates : LogsTell(a)'
  BY DEF WorkersInv, Skipped, LogsTell
<1> QED
  BY <1>1, <1>2, <1>3, <1>4, <1>5 DEF WorkersInv

\* Who takes an event, nobody is behind what it skipped.
LEMMA TakenSkipped ==
  ASSUME TypeOK, WorkersInv, NEW w \in Workers, NEW a \in Aggregates,
         next[w][a] < Len(log[a]), Taken(w, a),
         ignored' = ignored \/ ignored' = ignored \cup {<<w, a, next[w][a] + 1>>},
         passed' = passed \/ (w = "replay" /\ passed' = passed \cup {<<a, next[w][a] + 1>>})
  PROVE  Skipped'
<1>1. next'[w] = [next[w] EXCEPT ![a] = @ + 1] /\ next[w] \in [Aggregates -> 0..MaxEvents]
  BY TakenEvent DEF TypeOK
<1>2. \A v \in Workers : v # w => next'[v] = next[v]
  BY TakenEvent
<1>3. ASSUME NEW v \in Workers, NEW b \in Aggregates
      PROVE  next[v][b] \in Nat /\ next'[v][b] >= next[v][b]
  <2>1. next[v] \in [Aggregates -> 0..MaxEvents] /\ next[v][b] \in Nat
    BY ReadModelAssumption DEF TypeOK
  <2>2. CASE v # w
    BY <1>2, <2>1, <2>2
  <2>3. CASE v = w
    BY <1>1, <2>1, <2>3
  <2> QED
    BY <2>1, <2>2, <2>3
<1>4. next'[w][a] = next[w][a] + 1 /\ next[w][a] \in Nat
  BY <1>1, ReadModelAssumption
<1>5. \A v \in Workers, b \in Aggregates : next'[v][b] \in Nat
  BY <1>1, <1>2, <1>3
<1>6. ASSUME NEW s \in ignored' PROVE s[3] <= next'[s[1]][s[2]]
  <2>1. CASE s \in ignored
    <3>1. /\ s[3] <= next[s[1]][s[2]] /\ s[3] \in Nat /\ s[1] \in Workers /\ s[2] \in Aggregates
      BY <2>1, ReadModelAssumption DEF WorkersInv, Skipped, TypeOK, Workers
    <3> QED
      BY <1>3, <1>5, <3>1
  <2>2. CASE s = <<w, a, next[w][a] + 1>>
    BY <1>4, <2>2
  <2> QED
    BY <1>6, <2>1, <2>2
<1>7. ASSUME NEW s \in passed' PROVE s[2] <= next'["replay"][s[1]]
  <2>1. CASE s \in passed
    <3>1. /\ s[2] <= next["replay"][s[1]] /\ s[2] \in Nat /\ s[1] \in Aggregates
          /\ "replay" \in Workers
      BY <2>1, ReadModelAssumption DEF WorkersInv, Skipped, TypeOK, Workers
    <3> QED
      BY <1>3, <1>5, <3>1
  <2>2. CASE w = "replay" /\ s = <<a, next[w][a] + 1>>
    BY <1>4, <2>2
  <2> QED
    BY <1>7, <2>1, <2>2
<1> QED
  BY <1>6, <1>7 DEF Skipped

\* A consumer takes an event.
LEMMA ConsumeStep ==
  ASSUME TypeOK, WorkersInv, NEW w \in Consumers, NEW a \in Aggregates, Consume(w, a)
  PROVE  /\ TypeOK' /\ WorkersInv' /\ task[w] = Idle
         /\ LET t == task'[w] IN
            /\ t # Idle /\ t.pc = "get" /\ t.agg = a /\ t.kind = log[a][next[w][a] + 1]
            /\ t.keys = <<KeyOf(w)>>
         /\ \A v \in Workers : v # w => task'[v] = task[v]
<1> DEFINE t == [pc |-> "get", agg |-> a, kind |-> log[a][next[w][a] + 1],
                 keys |-> HandledBy(w, a), read |-> 0]
<1>0. w \in Workers /\ w # "replay"
  BY DEF Consumers, Workers
<1>1. /\ task[w] = Idle /\ next[w][a] < Len(log[a]) /\ Taken(w, a)
      /\ task' = [task EXCEPT ![w] = t]
      /\ UNCHANGED <<log, value, replay, history, alone, passed>>
  BY DEF Consume, Begin, Continue
<1>2. /\ log[a][next[w][a] + 1] \in Kinds
      /\ next' \in [Workers -> [Aggregates -> 0..MaxEvents]]
      /\ \A v \in Workers : v # w => next'[v] = next[v]
      /\ \A v \in Workers, b \in Aggregates : next'[v][b] <= Len(log[b])
  BY <1>0, <1>1, TakenEvent
<1>3. /\ t \in Task /\ t # Idle /\ t.pc = "get" /\ t.agg = a
      /\ t.kind = log[a][next[w][a] + 1] /\ t.keys = <<KeyOf(w)>>
  <2>1. HandledBy(w, a) = <<KeyOf(w)>> /\ KeyOf(w) \in Keys
    BY HandledByType
  <2> QED
    BY <1>2, <2>1 DEF Task, Idle
<1> HIDE DEF t
<1>4. /\ task' \in [Workers -> Task] /\ task'[w] = t
      /\ \A v \in Workers : v # w => task'[v] = task[v]
  BY <1>0, <1>1, <1>3 DEF TypeOK
<1>5. TypeOK'
  BY <1>1, <1>2, <1>4 DEF TypeOK, Totals, replay, history
<1>6. \A v \in Consumers : OwnKey(v)'
  BY <1>3, <1>4 DEF WorkersInv, OwnKey, Workers
<1>7. ReplayTask'
  BY <1>0, <1>1, <1>2, <1>4 DEF WorkersInv, ReplayTask, replay, Workers
<1>8. \A v \in Workers : OwnRead(v)'
  BY <1>3, <1>4 DEF WorkersInv, OwnRead, Totals
<1>9. Skipped'
  BY <1>0, <1>1, TakenSkipped DEF history
<1>10. \A b \in Aggregates : LogsTell(b)'
  BY <1>1 DEF WorkersInv, LogsTell
<1> QED
  BY <1>1, <1>2, <1>3, <1>4, <1>5, <1>6, <1>7, <1>8, <1>9, <1>10 DEF WorkersInv

\* The replay process takes a record.
LEMMA ReplayStep ==
  ASSUME TypeOK, WorkersInv, NEW a \in Aggregates, Replay(a)
  PROVE  /\ TypeOK' /\ WorkersInv' /\ task["replay"] = Idle
         /\ \A v \in Consumers : task'[v] = task[v]
         /\ LET t == task'["replay"]
                id == <<a, next["replay"][a] + 1>> IN
            \/ /\ id \in replaySeen /\ UNCHANGED <<task, replaySeen>>
               /\ passed' = passed \cup {id}
            \/ /\ id \notin replaySeen /\ replaySeen' = replaySeen \cup {id} /\ UNCHANGED passed
               /\ t # Idle /\ t.pc = "get" /\ t.agg = a /\ t.kind = log[a][next["replay"][a] + 1]
               /\ t.keys = HandledBy("replay", a)
<1> DEFINE t == [pc |-> "get", agg |-> a, kind |-> log[a][next["replay"][a] + 1],
                 keys |-> HandledBy("replay", a), read |-> 0]
           id == <<a, next["replay"][a] + 1>>
<1>0. "replay" \in Workers /\ "replay" \notin Consumers /\ Consumers \subseteq Workers
  BY DEF Consumers, Workers
<1>1. /\ task["replay"] = Idle /\ next["replay"][a] < Len(log[a]) /\ Taken("replay", a)
      /\ a \in Subscribed("replay")
      /\ UNCHANGED <<log, value, replaying, replays, history, alone>>
      /\ \/ /\ id \in replaySeen /\ UNCHANGED <<task, replaySeen>>
            /\ passed' = passed \cup {id}
         \/ /\ id \notin replaySeen /\ replaySeen' = replaySeen \cup {id} /\ UNCHANGED passed
            /\ task' = [task EXCEPT !["replay"] = t]
  BY DEF Replay, Begin, Continue
<1>2. /\ log[a][next["replay"][a] + 1] \in Kinds /\ id \in Aggregates \X (1..MaxEvents)
      /\ next' \in [Workers -> [Aggregates -> 0..MaxEvents]]
      /\ \A v \in Workers : v # "replay" => next'[v] = next[v]
      /\ \A v \in Workers, b \in Aggregates : next'[v][b] <= Len(log[b])
  BY <1>0, <1>1, TakenEvent
<1>3. PICK topic \in replaying : a \in Of(topic)
  BY <1>1 DEF Subscribed
<1>4. topic \in Topic /\ replaying = {topic}
  BY <1>3 DEF TypeOK
<1>5. HandledBy("replay", a) = _TOPIC_HANDLERS(topic)
  BY <1>3, <1>4, TopicOf
<1>6. /\ t \in Task /\ t # Idle /\ t.pc = "get" /\ t.agg = a
      /\ t.kind = log[a][next["replay"][a] + 1] /\ t.keys = HandledBy("replay", a)
  <2>1. HandledBy("replay", a) \in KeyLists
    BY HandledByType
  <2> QED
    BY <1>2, <2>1 DEF Task, Idle, KeyLists
<1> HIDE DEF t, id
<1>7. /\ task' \in [Workers -> Task]
      /\ task'["replay"] = t \/ UNCHANGED task
      /\ \A v \in Consumers : task'[v] = task[v]
      /\ ~UNCHANGED task => task' = [task EXCEPT !["replay"] = t]
  BY <1>0, <1>1, <1>6 DEF TypeOK
<1>8. /\ replaySeen' \subseteq Aggregates \X (1..MaxEvents)
      /\ passed' \subseteq Aggregates \X (1..MaxEvents)
  BY <1>1, <1>2 DEF TypeOK
<1>9. TypeOK'
  BY <1>1, <1>2, <1>7, <1>8 DEF TypeOK, Totals, history
<1>10. \A v \in Consumers : OwnKey(v)'
  BY <1>7 DEF WorkersInv, OwnKey
<1>11. ReplayTask'
  BY <1>1, <1>3, <1>4, <1>5, <1>6, <1>7 DEF WorkersInv, ReplayTask
<1>12. task' = [task EXCEPT !["replay"] = t] => task'["replay"] = t
  BY <1>0 DEF TypeOK
<1>13. \A v \in Workers : OwnRead(v)'
  <2>1. \A v \in Workers : v = "replay" \/ v \in Consumers
    BY DEF Workers
  <2>2. OwnRead("replay")'
    BY <1>0, <1>6, <1>7 DEF WorkersInv, OwnRead, Totals
  <2>3. \A v \in Consumers : OwnRead(v)'
    BY <1>0, <1>7 DEF WorkersInv, OwnRead, Totals
  <2> QED
    BY <2>1, <2>2, <2>3
<1>14. Skipped'
  BY <1>0, <1>1, TakenSkipped DEF id, history
<1>15. \A b \in Aggregates : LogsTell(b)'
  BY <1>1 DEF WorkersInv, LogsTell
<1> QED
  BY <1>1, <1>2, <1>6, <1>7, <1>9, <1>10, <1>11, <1>12, <1>13, <1>14, <1>15 DEF WorkersInv, id

\* A worker goes on with its task: what the steps below have in common.
LEMMA GoesOn ==
  ASSUME TypeOK, WorkersInv, NEW w \in Workers, NEW u \in Task, Continue(w, u), task[w] # Idle,
         UNCHANGED <<log, next, replay, ignored, passed>>,
         u # Idle => /\ u.agg = task[w].agg
                     /\ \/ u.keys = task[w].keys
                        \/ Len(task[w].keys) # 1 /\ u.keys = <<"revenue">>,
         u.pc = "set" => u.read \in Totals(Head(u.keys)),
         value' \in [Keys -> Int \cup {NoKey}],
         \A key \in Keys : value'[key] \in Totals(key) \cup {NoKey},
         disturbed' \subseteq Keys, repeated' \subseteq Keys, alone' \subseteq Keys
  PROVE  /\ TypeOK' /\ WorkersInv' /\ task'[w] = u
         /\ \A v \in Workers : v # w => task'[v] = task[v]
<1>1. /\ task' \in [Workers -> Task] /\ WorkersInv' /\ task'[w] = u
      /\ \A v \in Workers : v # w => task'[v] = task[v]
  BY TaskChange DEF replay
<1> QED
  BY <1>1 DEF TypeOK, Totals, replay

LEMMA BusyWorker ==
  ASSUME TypeOK, NEW w \in Workers, task[w].pc # "idle"
  PROVE  /\ task[w] \in Busy /\ task[w] # Idle /\ task[w] \in Task
         /\ Head(task[w].keys) \in Keys
         /\ Current(Head(task[w].keys)) \in Totals(Head(task[w].keys))
         /\ Current(Head(task[w].keys)) \in Int
         /\ task[w].agg \in Aggregates /\ task[w].kind \in Kinds /\ task[w].read \in Int
         /\ Weight(Head(task[w].keys), task[w].agg) \in Int
         /\ Head(task[w].keys) = "booking_count"
              => Weight(Head(task[w].keys), task[w].agg) \in Nat
<1>1. task[w] \in Busy /\ task[w] # Idle /\ task[w] \in Task
  BY BusyTask DEF TypeOK, Idle
<1>2. /\ task[w].keys \in KeyLists /\ task[w].agg \in Aggregates /\ task[w].kind \in Kinds
      /\ task[w].read \in Int
  BY <1>1 DEF Busy
<1>3. Head(task[w].keys) \in Keys
  BY <1>2, KeyList
<1> QED
  BY <1>1, <1>2, <1>3, CurrentType, WeightType

LEMMA GetStep ==
  ASSUME TypeOK, WorkersInv, NEW w \in Workers, Get(w)
  PROVE  /\ TypeOK' /\ WorkersInv' /\ task[w].pc = "get"
         /\ UNCHANGED <<log, next, value, replay, history, alone, passed>>
         /\ task'[w] \in Busy /\ task'[w].pc = "set"
         /\ task'[w].read = Current(Head(task[w].keys))
         /\ task'[w].agg = task[w].agg /\ task'[w].kind = task[w].kind
         /\ task'[w].keys = task[w].keys
         /\ \A v \in Workers : v # w => task'[v] = task[v]
<1>1. /\ task[w] \in Busy /\ task[w] # Idle /\ task[w].pc = "get"
      /\ Current(Head(task[w].keys)) \in Totals(Head(task[w].keys))
      /\ Current(Head(task[w].keys)) \in Int
  BY BusyWorker DEF Get
<1>2. PICK n \in Int : n = Current(Head(task[w].keys))
  BY <1>1
<1>3. PICK u : u = [task[w] EXCEPT !.pc = "set", !.read = n] /\ Continue(w, u)
  BY <1>2 DEF Get
<1>4. /\ u \in Busy /\ u.pc = "set" /\ u.read = n
      /\ u.agg = task[w].agg /\ u.kind = task[w].kind /\ u.keys = task[w].keys
  <2>1. task[w] \in Busy /\ n \in Int /\ u = [task[w] EXCEPT !.pc = "set", !.read = n]
    BY <1>1, <1>3
  <2>2. u \in Busy
    BY <2>1, Zenon DEF Busy
  <2> QED
    BY <2>1, <2>2 DEF Busy
<1>5. UNCHANGED <<log, next, value, replay, history, alone, passed>> /\ u \in Task
  BY <1>4, BusyTask DEF Get
<1>6. /\ value' \in [Keys -> Int \cup {NoKey}]
      /\ \A key \in Keys : value'[key] \in Totals(key) \cup {NoKey}
      /\ disturbed' \subseteq Keys /\ repeated' \subseteq Keys /\ alone' \subseteq Keys
      /\ UNCHANGED ignored
  BY <1>5 DEF TypeOK, history
<1> QED
  BY <1>1, <1>2, <1>3, <1>4, <1>5, <1>6, GoesOn

LEMMA SetStep ==
  ASSUME TypeOK, WorkersInv, NEW w \in Workers, Set(w)
  PROVE  LET key == Head(task[w].keys) IN
         /\ TypeOK' /\ WorkersInv' /\ task[w].pc = "set"
         /\ UNCHANGED <<log, next, replay, disturbed, ignored, passed>>
         /\ value' = [value EXCEPT ![key] =
                        Applied(key, task[w].read, task[w].kind, Weight(key, task[w].agg))]
         /\ repeated' = IF w = "replay" THEN repeated \cup {key} ELSE repeated
         /\ alone' = IF w = "replay" THEN alone ELSE alone \ {key}
         /\ task'[w] \in Busy /\ task'[w].pc = "publish"
         /\ task'[w].agg = task[w].agg /\ task'[w].kind = task[w].kind
         /\ task'[w].keys = task[w].keys
         /\ \A v \in Workers : v # w => task'[v] = task[v]
<1> DEFINE key == Head(task[w].keys)
           n == Applied(key, task[w].read, task[w].kind, Weight(key, task[w].agg))
<1>1. task[w] \in Busy /\ task[w] # Idle /\ task[w].pc = "set" /\ key \in Keys
  BY BusyWorker DEF Set
<1>7. n \in Totals(key) /\ n \in Int
  <2>1. task[w].read \in Totals(key)
    BY <1>1 DEF WorkersInv, OwnRead
  <2> QED
    BY <1>1, <2>1, BusyWorker, AppliedType
<1>2. PICK u : u = [task[w] EXCEPT !.pc = "publish"] /\ Continue(w, u)
  BY DEF Set
<1>3. /\ u \in Busy /\ u.pc = "publish"
      /\ u.agg = task[w].agg /\ u.kind = task[w].kind /\ u.keys = task[w].keys
  BY <1>1, <1>2, TaskDone
<1>4. /\ UNCHANGED <<log, next, replay, disturbed, ignored, passed>> /\ u \in Task
      /\ value' = [value EXCEPT ![key] = n]
      /\ repeated' = IF w = "replay" THEN repeated \cup {key} ELSE repeated
      /\ alone' = IF w = "replay" THEN alone ELSE alone \ {key}
  BY <1>3, BusyTask DEF Set
<1> HIDE DEF key, n
<1>5. /\ value' \in [Keys -> Int \cup {NoKey}]
      /\ \A k \in Keys : value'[k] \in Totals(k) \cup {NoKey}
      /\ disturbed' \subseteq Keys /\ repeated' \subseteq Keys /\ alone' \subseteq Keys
  BY <1>1, <1>4, <1>7 DEF TypeOK
<1>6. /\ TypeOK' /\ WorkersInv' /\ task'[w] = u
      /\ \A v \in Workers : v # w => task'[v] = task[v]
  BY <1>1, <1>2, <1>3, <1>4, <1>5, GoesOn
<1> QED
  BY <1>1, <1>3, <1>4, <1>6 DEF key, n

LEMMA PublishStep ==
  ASSUME TypeOK, WorkersInv, NEW w \in Workers, PublishUpdate(w)
  PROVE  /\ TypeOK' /\ WorkersInv' /\ task[w].pc = "publish"
         /\ UNCHANGED <<log, next, value, replay, history, alone, passed>>
         /\ \/ Len(task[w].keys) = 1 /\ task'[w] = Idle
            \/ /\ task[w].keys = <<"booking_count", "revenue">>
               /\ task'[w] \in Busy /\ task'[w].pc = "get"
               /\ task'[w].agg = task[w].agg /\ task'[w].kind = task[w].kind
               /\ task'[w].keys = <<"revenue">>
         /\ \A v \in Workers : v # w => task'[v] = task[v]
<1>1. task[w] \in Busy /\ task[w] # Idle /\ task[w].pc = "publish"
  BY BusyWorker DEF PublishUpdate
<1>2. PICK u : /\ Continue(w, IF Len(task[w].keys) = 1 THEN Idle ELSE u)
               /\ u = [task[w] EXCEPT !.pc = "get", !.keys = Tail(@), !.read = 0]
  BY DEF PublishUpdate
<1>3. Len(task[w].keys) # 1 =>
        /\ u \in Busy /\ u.pc = "get" /\ task[w].keys = <<"booking_count", "revenue">>
        /\ u.agg = task[w].agg /\ u.kind = task[w].kind /\ u.keys = <<"revenue">>
  BY <1>1, <1>2, TaskNextKey
<1>4. PICK x \in Task : /\ Continue(w, x) /\ x = IF Len(task[w].keys) = 1 THEN Idle ELSE u
  BY <1>2, <1>3, BusyTask DEF Task
<1>5. UNCHANGED <<log, next, value, replay, history, alone, passed>>
  BY DEF PublishUpdate
<1>6. /\ value' \in [Keys -> Int \cup {NoKey}]
      /\ \A key \in Keys : value'[key] \in Totals(key) \cup {NoKey}
      /\ disturbed' \subseteq Keys /\ repeated' \subseteq Keys /\ alone' \subseteq Keys
      /\ UNCHANGED ignored
  BY <1>5 DEF TypeOK, history
<1>7. /\ TypeOK' /\ WorkersInv' /\ task'[w] = x
      /\ \A v \in Workers : v # w => task'[v] = task[v]
  BY <1>1, <1>3, <1>4, <1>5, <1>6, GoesOn DEF Idle
<1> QED
  BY <1>1, <1>3, <1>4, <1>5, <1>7

LEMMA RetryStep ==
  ASSUME TypeOK, WorkersInv, NEW w \in Workers, Retry(w)
  PROVE  /\ TypeOK' /\ WorkersInv' /\ w \in Consumers
         /\ UNCHANGED <<log, next, value, replay, disturbed, ignored, alone, passed>>
         /\ \/ task[w].pc = "set" /\ UNCHANGED repeated
            \/ task[w].pc = "publish" /\ repeated' = repeated \cup {Head(task[w].keys)}
         /\ task'[w] \in Busy /\ task'[w].pc = "get"
         /\ task'[w].agg = task[w].agg /\ task'[w].kind = task[w].kind
         /\ task'[w].keys = task[w].keys
         /\ \A v \in Workers : v # w => task'[v] = task[v]
<1>1. task[w] \in Busy /\ task[w] # Idle /\ Head(task[w].keys) \in Keys
  BY BusyWorker DEF Retry
<1>2. PICK u : u = [task[w] EXCEPT !.pc = "get", !.read = 0] /\ Continue(w, u)
  BY DEF Retry
<1>3. /\ u \in Busy /\ u.pc = "get"
      /\ u.agg = task[w].agg /\ u.kind = task[w].kind /\ u.keys = task[w].keys
  BY <1>1, <1>2, TaskAgain
<1>4. /\ UNCHANGED <<log, next, value, replay, disturbed, ignored, alone, passed>> /\ u \in Task
      /\ \/ task[w].pc = "set" /\ UNCHANGED repeated
         \/ task[w].pc = "publish" /\ repeated' = repeated \cup {Head(task[w].keys)}
  BY <1>3, BusyTask DEF Retry
<1>5. /\ value' \in [Keys -> Int \cup {NoKey}]
      /\ \A k \in Keys : value'[k] \in Totals(k) \cup {NoKey}
      /\ disturbed' \subseteq Keys /\ repeated' \subseteq Keys /\ alone' \subseteq Keys
  BY <1>1, <1>4 DEF TypeOK
<1>6. /\ TypeOK' /\ WorkersInv' /\ task'[w] = u
      /\ \A v \in Workers : v # w => task'[v] = task[v]
  BY <1>1, <1>2, <1>3, <1>4, <1>5, GoesOn
<1> QED
  BY <1>3, <1>4, <1>6 DEF Retry

LEMMA TypeStep == TypeOK /\ WorkersInv /\ [Next]_vars => TypeOK' /\ WorkersInv'
<1> SUFFICES ASSUME TypeOK, WorkersInv, [Next]_vars PROVE TypeOK' /\ WorkersInv'
  OBVIOUS
<1>0. /\ \A w \in Workers : task[w] \in Task
      /\ Consumers \subseteq Workers /\ "replay" \in Workers \ Consumers
      /\ Idle \in Task /\ Idle.pc = "idle"
      /\ \A w \in Workers : \A u : Continue(w, u) => task'[w] = u
  BY DEF TypeOK, Consumers, Workers, Task, Idle, Continue
<1>1. ASSUME NEW a \in Aggregates, NEW kind \in Kinds, Make(a, kind)
      PROVE  TypeOK' /\ WorkersInv'
  BY <1>1, LogAppend DEF Make
<1>2. ASSUME NEW o \in Orders, CompleteOrder(o) PROVE TypeOK' /\ WorkersInv'
  <2>1. o \in Aggregates /\ "add" \in Kinds
    BY DEF Aggregates, Kinds
  <2> QED
    BY <1>2, <2>1, LogAppend DEF CompleteOrder
<1>3. ASSUME NEW w \in Consumers, NEW a \in Aggregates, Skip(w, a)
      PROVE  TypeOK' /\ WorkersInv'
  <2>1. /\ next[w][a] < Len(log[a]) /\ Taken(w, a)
        /\ disturbed' = disturbed \cup {HandledBy(w, a)[1]}
        /\ ignored' = ignored \/ ignored' = ignored \cup {<<w, a, next[w][a] + 1>>}
        /\ UNCHANGED <<log, task, value, replay, repeated, alone, passed>>
    BY <1>3 DEF Skip
  <2>2. /\ next' \in [Workers -> [Aggregates -> 0..MaxEvents]]
        /\ next[w][a] + 1 \in 1..MaxEvents
        /\ \A v \in Workers : v # w => next'[v] = next[v]
        /\ \A v \in Workers, b \in Aggregates : next'[v][b] <= Len(log[b])
    BY <1>0, <2>1, TakenEvent
  <2>3. disturbed' \subseteq Keys /\ ignored' \subseteq Consumers \X Aggregates \X (1..MaxEvents)
    BY <2>1, <2>2, HandledByType DEF TypeOK
  <2>4. TypeOK'
    BY <2>1, <2>2, <2>3 DEF TypeOK, Totals, replay
  <2>5. Skipped'
    BY <1>0, <2>1, TakenSkipped
  <2>6. (\A v \in Workers : OwnRead(v)') /\ \A b \in Aggregates : LogsTell(b)'
    BY <2>1 DEF WorkersInv, OwnRead, LogsTell, Totals
  <2> QED
    BY <1>0, <2>1, <2>2, <2>4, <2>5, <2>6 DEF WorkersInv, OwnKey, ReplayTask, replay
<1>4. ASSUME NEW topic \in Topic, StartReplay(topic) PROVE TypeOK' /\ WorkersInv'
  <2>1. /\ replaying = {} /\ replaying' = {topic} /\ replays' \in 0..MaxReplays
        /\ alone' \subseteq Keys
        /\ UNCHANGED <<log, next, task, value, replaySeen, history, passed>>
    BY <1>4, ReadModelAssumption
       DEF StartReplay, TypeOK, Absent, _TOPIC_HANDLERS, Topic, Keys, Range
  <2>2. TypeOK'
    BY <2>1 DEF TypeOK, Totals, history
  <2> QED
    BY <1>0, <2>1, <2>2
       DEF WorkersInv, OwnKey, OwnRead, LogsTell, Skipped, ReplayTask, Totals, history
<1>5. ASSUME EndReplay PROVE TypeOK' /\ WorkersInv'
  <2>1. /\ replaying' = {} /\ task' = [task EXCEPT !["replay"] = Idle]
        /\ next' = [next EXCEPT !["replay"] = [a \in Aggregates |-> 0]]
        /\ alone' = {} /\ passed' = {}
        /\ UNCHANGED <<log, value, replaySeen, replays, history>>
    BY <1>5 DEF EndReplay, Continue
  <2>2. /\ task' \in [Workers -> Task] /\ task'["replay"] = Idle
        /\ \A v \in Consumers : task'[v] = task[v]
    BY <1>0, <2>1 DEF TypeOK
  <2>3. /\ next' \in [Workers -> [Aggregates -> 0..MaxEvents]]
        /\ next'["replay"] = [a \in Aggregates |-> 0]
        /\ \A v \in Consumers : next'[v] = next[v]
        /\ \A v \in Workers, a \in Aggregates : next'[v][a] = next[v][a] \/ next'[v][a] = 0
    BY <1>0, <2>1, ReadModelAssumption DEF TypeOK
  <2>4. \A v \in Workers, a \in Aggregates : next'[v][a] <= Len(log'[a])
    BY <2>1, <2>3 DEF WorkersInv, TypeOK
  <2>5. TypeOK'
    BY <2>1, <2>2, <2>3 DEF TypeOK, Totals, history
  <2>6. Skipped'
    <3>1. ignored' = ignored /\ passed' = {}
      BY <2>1 DEF history
    <3>2. \A s \in ignored : s[1] \in Consumers
      BY DEF TypeOK
    <3> QED
      BY <2>3, <3>1, <3>2 DEF WorkersInv, Skipped
  <2>7. \A v \in Workers : OwnRead(v)'
    <3>1. \A v \in Workers : v = "replay" \/ v \in Consumers
      BY DEF Workers
    <3> QED
      BY <1>0, <2>2, <3>1 DEF WorkersInv, OwnRead, Totals
  <2>8. \A a \in Aggregates : LogsTell(a)'
    BY <2>1 DEF WorkersInv, LogsTell
  <2> QED
    BY <2>1, <2>2, <2>3, <2>4, <2>5, <2>6, <2>7, <2>8 DEF WorkersInv, OwnKey, ReplayTask
<1>6. ASSUME \/ \E key \in Keys : Expire(key)
             \/ Flush
             \/ UNCHANGED vars
      PROVE  TypeOK' /\ WorkersInv'
  <2>1. /\ UNCHANGED <<log, next, task, replaying, replays, ignored, repeated, passed>>
        /\ replaySeen' \subseteq replaySeen
        /\ disturbed' \subseteq Keys /\ alone' \subseteq Keys
    BY <1>6 DEF Expire, Flush, vars, replay, TypeOK
  <2>2. /\ value' \in [Keys -> Int \cup {NoKey}]
        /\ \A k \in Keys : value'[k] \in Totals(k) \cup {NoKey}
    BY <1>6 DEF Expire, Flush, vars, TypeOK
  <2>3. TypeOK'
    BY <2>1, <2>2 DEF TypeOK, Totals
  <2> QED
    BY <2>1, <2>3 DEF WorkersInv, OwnKey, OwnRead, LogsTell, Skipped, ReplayTask, Totals
<1> QED
  BY <1>1, <1>2, <1>3, <1>4, <1>5, <1>6, ConsumeStep, ReplayStep,
     GetStep, SetStep, PublishStep, RetryStep DEF Next

-----------------------------------------------------------------------------
(* No total is more than what still stands *)

LEMMA ConsumerFacts ==
  ASSUME NEW w \in Consumers
  PROVE  /\ w \in Workers /\ w # "replay" /\ KeyOf(w) \in Keys
         /\ \A v \in Consumers : KeyOf(v) = KeyOf(w) => v = w
BY DEF Consumers, Workers, KeyOf, Keys

LEMMA UndoneFinite ==
  ASSUME TypeOK, NEW w \in Consumers, NEW a \in Aggregates
  PROVE  /\ next[w][a] \in Nat
         /\ IsFiniteSet(Undone(w, a)) /\ Cardinality(Undone(w, a)) \in Nat
         /\ IsFiniteSet(Standing(w, a)) /\ Cardinality(Standing(w, a)) \in Nat
<1>1. next[w][a] \in Nat
  BY ConsumerFacts, ReadModelAssumption DEF TypeOK
<1>2. IsFiniteSet(1..next[w][a])
  BY <1>1, FS_Interval
<1>3. Undone(w, a) \subseteq 1..next[w][a] /\ Standing(w, a) \subseteq 1..next[w][a]
  BY DEF Undone, Standing
<1> QED
  BY <1>1, <1>2, <1>3, FS_Subset, FS_CardinalityType

LEMMA Times ==
  ASSUME NEW k \in Int, NEW m \in Nat
  PROVE  /\ k * m \in Int /\ (k >= 0 => k * m \in Nat)
         /\ k * (m + 1) = k * m + k /\ k * 0 = 0 /\ k * 1 = k
         /\ \A n \in Nat : k >= 0 /\ m <= n => k * m <= k * n
<1>1. /\ k * m \in Int /\ k * (m + 1) = k * m + k /\ k * 0 = 0 /\ k * 1 = k
  OBVIOUS
<1>2. \A d \in Nat : k >= 0 => k * d \in Nat
  OBVIOUS
<1>3. ASSUME NEW n \in Nat, k >= 0, m <= n PROVE k * m <= k * n
  <2>1. n - m \in Nat
    BY <1>3
  <2>2. k * n = k * m + k * (n - m) /\ k * (n - m) \in Nat
    BY <1>2, <1>3, <2>1
  <2> QED
    BY <1>1, <2>2
<1> QED
  BY <1>1, <1>2, <1>3

LEMMA UndoneFiniteNext ==
  ASSUME TypeOK', NEW w \in Consumers, NEW a \in Aggregates
  PROVE  /\ IsFiniteSet(Undone(w, a)') /\ Cardinality(Undone(w, a)') \in Nat
         /\ IsFiniteSet(Standing(w, a)') /\ Cardinality(Standing(w, a)') \in Nat
<1>1. next'[w][a] \in Nat
  BY ConsumerFacts, ReadModelAssumption DEF TypeOK
<1>2. IsFiniteSet(1..next'[w][a])
  BY <1>1, FS_Interval
<1>3. Undone(w, a)' \subseteq 1..next'[w][a] /\ Standing(w, a)' \subseteq 1..next'[w][a]
  BY DEF Undone, Standing
<1> QED
  BY <1>2, <1>3, FS_Subset, FS_CardinalityType

\* The most that can stand of what the consumer has taken.
Bound(w) == SumFunctionOnSet([a \in Aggregates |-> AtMost(w, a)], Aggregates)

LEMMA Weighed ==
  ASSUME NEW k \in Int, NEW m \in Nat, NEW n \in Nat
  PROVE  (IF k >= 0 THEN k * m ELSE (-k) * n) \in Nat
<1>1. -k \in Int /\ (~(k >= 0) => -k >= 0)
  OBVIOUS
<1> QED
  BY <1>1, Times

LEMMA AtMostType ==
  ASSUME TypeOK, NEW w \in Consumers, NEW a \in Aggregates
  PROVE  AtMost(w, a) \in Nat
<1>1. PICK k \in Int : k = Weight(KeyOf(w), a)
  BY ConsumerFacts, WeightType
<1>2. AtMost(w, a) = IF k >= 0 THEN k * Cardinality(Standing(w, a))
                     ELSE (-k) * Cardinality(Undone(w, a))
  BY <1>1 DEF AtMost
<1> QED
  BY <1>2, UndoneFinite, Weighed

LEMMA AtMostTypeNext ==
  ASSUME TypeOK', NEW w \in Consumers, NEW a \in Aggregates
  PROVE  AtMost(w, a)' \in Nat
<1>1. PICK k \in Int : k = Weight(KeyOf(w), a)
  BY ConsumerFacts, WeightType
<1>2. AtMost(w, a)' = IF k >= 0 THEN k * Cardinality(Standing(w, a)')
                      ELSE (-k) * Cardinality(Undone(w, a)')
  BY <1>1 DEF AtMost
<1> QED
  BY <1>2, UndoneFiniteNext, Weighed

LEMMA BoundType ==
  ASSUME TypeOK, NEW w \in Consumers
  PROVE  Bound(w) \in Nat
<1> DEFINE f == [a \in Aggregates |-> AtMost(w, a)]
<1>1. \A a \in Aggregates : f[a] \in Nat
  BY AtMostType
<1>2. Bound(w) = SumFunctionOnSet(f, Aggregates)
  BY DEF Bound
<1> HIDE DEF f
<1> QED
  BY <1>1, <1>2, SumNat, ReadModelAssumption

LEMMA BoundTypeNext ==
  ASSUME TypeOK', NEW w \in Consumers
  PROVE  Bound(w)' \in Nat
<1> DEFINE f == [a \in Aggregates |-> AtMost(w, a)']
<1>1. \A a \in Aggregates : f[a] \in Nat
  BY AtMostTypeNext
<1>2. Bound(w)' = SumFunctionOnSet(f, Aggregates)
  BY DEF Bound
<1> HIDE DEF f
<1> QED
  BY <1>1, <1>2, SumNat, ReadModelAssumption

LEMMA BoundMonotonic ==
  ASSUME TypeOK, TypeOK', NEW w \in Consumers,
         \A a \in Aggregates : AtMost(w, a) <= AtMost(w, a)'
  PROVE  Bound(w) <= Bound(w)'
<1> DEFINE f == [a \in Aggregates |-> AtMost(w, a)]
           g == [a \in Aggregates |-> AtMost(w, a)']
<1>1. ASSUME NEW a \in Aggregates PROVE f[a] \in Int /\ g[a] \in Int /\ f[a] <= g[a]
  <2>1. AtMost(w, a) \in Nat /\ AtMost(w, a)' \in Nat
    BY AtMostType, AtMostTypeNext
  <2> QED
    BY <2>1
<1>2. Bound(w) = SumFunctionOnSet(f, Aggregates)
  BY DEF Bound
<1>3. Bound(w)' = SumFunctionOnSet(g, Aggregates)
  BY DEF Bound
<1> HIDE DEF f, g
<1> QED
  BY <1>1, <1>2, <1>3, SumMonotonic, ReadModelAssumption

\* An event of a is taken; what it changes is in the bound.
LEMMA BoundChange ==
  ASSUME TypeOK, TypeOK', NEW w \in Consumers, NEW a \in Aggregates, NEW change \in Int,
         \A b \in Aggregates : b # a => AtMost(w, b)' = AtMost(w, b),
         AtMost(w, a) + change <= AtMost(w, a)'
  PROVE  Bound(w) + change <= Bound(w)'
<1> DEFINE f == [b \in Aggregates |-> AtMost(w, b)]
           g == [b \in Aggregates |-> AtMost(w, b)']
<1>1. \A b \in Aggregates : f[b] \in Int /\ g[b] \in Int
  <2>1. \A b \in Aggregates : AtMost(w, b) \in Nat /\ AtMost(w, b)' \in Nat
    <3> TAKE b \in Aggregates
    <3> QED
      BY AtMostType, AtMostTypeNext
  <2> QED
    BY <2>1
<1>2. /\ \A b \in Aggregates : b # a => g[b] = f[b]
      /\ f[a] + change <= g[a]
  OBVIOUS
<1>3. Bound(w) = SumFunctionOnSet(f, Aggregates)
  BY DEF Bound
<1>4. Bound(w)' = SumFunctionOnSet(g, Aggregates)
  BY DEF Bound
<1>5. Bound(w) \in Nat
  BY BoundType
<1> HIDE DEF f, g
<1>6. SumFunctionOnSet(g, Aggregates) = SumFunctionOnSet(f, Aggregates) + (g[a] - f[a])
  BY <1>1, <1>2, SumChange, ReadModelAssumption
<1> QED
  BY <1>1, <1>2, <1>3, <1>4, <1>5, <1>6

\* What was taken of a, and of it skipped, is as before.
LEMMA SameAtMost ==
  ASSUME NEW w \in Consumers, NEW a \in Aggregates, next'[w][a] = next[w][a],
         \A n \in 1..next[w][a] : log'[a][n] = log[a][n],
         \A n \in 1..next[w][a] : <<w, a, n>> \in ignored' <=> <<w, a, n>> \in ignored
  PROVE  AtMost(w, a)' = AtMost(w, a)
<1>1. Undone(w, a)' = Undone(w, a)
  BY DEF Undone
<1>2. Standing(w, a)' = Standing(w, a)
  BY <1>1 DEF Standing
<1> QED
  BY <1>1, <1>2 DEF AtMost

\* Of a taken addition one more stands; after a removal that is handled none does.
LEMMA TakenAtMost ==
  ASSUME TypeOK, TypeOK', WorkersInv, NEW w \in Consumers, NEW a \in Aggregates, Taken(w, a),
         next[w][a] < Len(log[a]), UNCHANGED <<log, ignored>>
  PROVE  /\ \A b \in Aggregates : b # a => AtMost(w, b)' = AtMost(w, b)
         /\ AtMost(w, a) + Changed(0, log[a][next[w][a] + 1], Weight(KeyOf(w), a))
              <= AtMost(w, a)'
<1>1. PICK n \in Nat : n = next[w][a]
  BY UndoneFinite
<1>2. /\ next'[w][a] = n + 1 /\ \A b \in Aggregates : b # a => next'[w][b] = next[w][b]
      /\ log[a][n + 1] \in Kinds /\ w \in Workers
  <2>1. next[w] \in [Aggregates -> 0..MaxEvents] /\ w \in Workers
    BY ConsumerFacts DEF TypeOK
  <2>2. next'[w] = [next[w] EXCEPT ![a] = @ + 1] /\ log[a][next[w][a] + 1] \in Kinds
    BY <2>1, TakenEvent
  <2> QED
    BY <1>1, <2>1, <2>2
<1>3. \A b \in Aggregates : b # a => AtMost(w, b)' = AtMost(w, b)
  BY <1>2, SameAtMost
<1> DEFINE U == Undone(w, a)
           S == Standing(w, a)
<1>4. <<w, a, n + 1>> \notin ignored
  <2>1. \A s \in ignored : s[3] <= next[s[1]][s[2]]
    BY DEF WorkersInv, Skipped
  <2>2. <<w, a, n + 1>>[1] = w /\ <<w, a, n + 1>>[2] = a /\ <<w, a, n + 1>>[3] = n + 1
    OBVIOUS
  <2> QED
    BY <1>1, <2>1, <2>2
<1>5. U = {i \in 1..n : log[a][i] = "remove" /\ <<w, a, i>> \notin ignored}
  BY <1>1 DEF Undone
<1>6. S = {i \in 1..n : log[a][i] = "add" /\ \A m \in U : m < i}
  BY <1>1 DEF Standing
<1>7. Undone(w, a)' = {i \in 1..(n + 1) : log[a][i] = "remove" /\ <<w, a, i>> \notin ignored}
  BY <1>2 DEF Undone
<1>8. Standing(w, a)' = {i \in 1..(n + 1) : log[a][i] = "add" /\ \A m \in Undone(w, a)' : m < i}
  BY <1>2 DEF Standing
<1>9. /\ IsFiniteSet(U) /\ Cardinality(U) \in Nat /\ IsFiniteSet(S) /\ Cardinality(S) \in Nat
  BY UndoneFinite
<1>10. PICK k \in Int : k = Weight(KeyOf(w), a)
  BY ConsumerFacts, WeightType
<1>11. AtMost(w, a) = IF k >= 0 THEN k * Cardinality(S) ELSE (-k) * Cardinality(U)
  BY <1>10 DEF AtMost
<1>12. AtMost(w, a)' = IF k >= 0 THEN k * Cardinality(Standing(w, a)')
                       ELSE (-k) * Cardinality(Undone(w, a)')
  BY <1>10 DEF AtMost
<1>13. \A i \in U \cup S : i <= n /\ i \in Nat
  BY <1>5, <1>6
<1> HIDE DEF U, S
<1>14. /\ -k \in Int /\ k * Cardinality(S) \in Int /\ (-k) * Cardinality(U) \in Int
       /\ k * (Cardinality(S) + 1) = k * Cardinality(S) + k
       /\ (-k) * (Cardinality(U) + 1) = (-k) * Cardinality(U) + (-k)
       /\ k * 0 = 0
  BY <1>9, Times
<1>15. CASE log[a][n + 1] = "add"
  <2>1. Undone(w, a)' = U
    BY <1>5, <1>7, <1>15
  <2>2. Standing(w, a)' = S \cup {n + 1} /\ n + 1 \notin S
    BY <1>6, <1>8, <1>13, <1>15, <2>1
  <2>3. Cardinality(Standing(w, a)') = Cardinality(S) + 1
    BY <1>9, <2>2, FS_AddElement
  <2>4. Changed(0, log[a][n + 1], k) = k
    BY <1>15 DEF Changed
  <2> QED
    BY <1>1, <1>3, <1>10, <1>11, <1>12, <1>14, <2>1, <2>3, <2>4
<1>16. CASE log[a][n + 1] = "remove"
  <2>1. Undone(w, a)' = U \cup {n + 1} /\ n + 1 \notin U
    BY <1>4, <1>5, <1>7, <1>13, <1>16
  <2>2. Cardinality(Undone(w, a)') = Cardinality(U) + 1
    BY <1>9, <2>1, FS_AddElement
  <2>3. Standing(w, a)' = {}
    BY <1>8, <1>16, <2>1
  <2>4. Cardinality(Standing(w, a)') = 0
    BY <2>3, FS_EmptySet
  <2>5. Cardinality(S) <= 1
    <3>1. \A i, j \in S : i = j
      <4>1. LogsTell(a) /\ n + 1 \in 1..Len(log[a]) /\ 1..n \subseteq 1..Len(log[a])
        <5>1. Len(log[a]) \in Nat
          BY DEF TypeOK
        <5> QED
          BY <1>1, <5>1 DEF WorkersInv
      <4> QED
        BY <1>6, <1>16, <4>1 DEF LogsTell
    <3>2. CASE S = {}
      BY <3>2, FS_EmptySet
    <3>3. CASE S # {}
      <4>1. PICK i : S = {i}
        BY <3>1, <3>3
      <4>2. Cardinality({i}) = 1
        BY FS_Singleton
      <4> QED
        BY <4>1, <4>2
    <3> QED
      BY <3>2, <3>3
  <2>6. k >= 0 => k * Cardinality(S) <= k
    BY <1>9, <2>5, Times
  <2>7. Changed(0, log[a][n + 1], k) = 0 - k
    BY <1>16 DEF Changed
  <2> QED
    BY <1>1, <1>3, <1>10, <1>11, <1>12, <1>14, <2>2, <2>4, <2>6, <2>7
<1> QED
  BY <1>2, <1>15, <1>16 DEF Kinds

\* A skipped addition may stand; a skipped removal changes nothing.
LEMMA SkippedAtMost ==
  ASSUME TypeOK, TypeOK', WorkersInv, NEW w \in Consumers, NEW a \in Aggregates, Skip(w, a),
         NEW v \in Consumers, NEW b \in Aggregates
  PROVE  AtMost(v, b) <= AtMost(v, b)'
<1>1. PICK n \in Nat : n = next[w][a]
  BY UndoneFinite
<1>2. /\ next[w][a] < Len(log[a]) /\ Taken(w, a) /\ UNCHANGED log
      /\ ignored' = IF log[a][n + 1] = "remove" THEN ignored \cup {<<w, a, n + 1>>} ELSE ignored
  BY <1>1 DEF Skip
<1>3. /\ next'[w] = [next[w] EXCEPT ![a] = @ + 1] /\ log[a][n + 1] \in Kinds
      /\ \A x \in Workers : x # w => next'[x] = next[x]
      /\ next[w] \in [Aggregates -> 0..MaxEvents] /\ w \in Workers /\ v \in Workers
  BY <1>1, <1>2, ConsumerFacts, TakenEvent DEF TypeOK
<1>4. AtMost(v, b) \in Nat /\ AtMost(v, b)' \in Nat
  BY AtMostType, AtMostTypeNext
<1>5. CASE v # w \/ b # a
  <2>1. next'[v][b] = next[v][b]
    BY <1>3, <1>5
  <2>2. \A i : <<v, b, i>> \in ignored' <=> <<v, b, i>> \in ignored
    <3>1. \A i : <<v, b, i>> # <<w, a, n + 1>>
      BY <1>5
    <3> QED
      BY <1>2, <3>1
  <2>3. AtMost(v, b)' = AtMost(v, b)
    BY <1>2, <2>1, <2>2, SameAtMost
  <2> QED
    BY <1>4, <2>3
<1>6. CASE v = w /\ b = a
  <2>1. next'[w][a] = n + 1
    BY <1>1, <1>3
  <2>2. \A i \in 1..n : <<w, a, i>> # <<w, a, n + 1>>
    OBVIOUS
  <2>3. Undone(w, a)' = Undone(w, a)
    <3>1. Undone(w, a) = {i \in 1..n : log[a][i] = "remove" /\ <<w, a, i>> \notin ignored}
      BY <1>1 DEF Undone
    <3>2. Undone(w, a)' = {i \in 1..(n + 1) : log[a][i] = "remove" /\ <<w, a, i>> \notin ignored'}
      BY <1>2, <2>1 DEF Undone
    <3>3. \A i \in 1..n : <<w, a, i>> \in ignored' <=> <<w, a, i>> \in ignored
      BY <1>2, <2>2
    <3>4. log[a][n + 1] # "remove" \/ <<w, a, n + 1>> \in ignored'
      BY <1>2
    <3>5. 1..(n + 1) = 1..n \cup {n + 1}
      OBVIOUS
    <3> QED
      BY <3>1, <3>2, <3>3, <3>4, <3>5
  <2>4. Standing(w, a) \subseteq Standing(w, a)'
    <3>1. Standing(w, a) = {i \in 1..n : log[a][i] = "add" /\ \A m \in Undone(w, a) : m < i}
      BY <1>1 DEF Standing
    <3>2. Standing(w, a)' = {i \in 1..(n + 1) : log[a][i] = "add"
                                                /\ \A m \in Undone(w, a) : m < i}
      BY <1>2, <2>1, <2>3 DEF Standing
    <3> QED
      BY <3>1, <3>2
  <2>5. /\ Cardinality(Standing(w, a)) \in Nat /\ Cardinality(Standing(w, a)') \in Nat
        /\ Cardinality(Standing(w, a)) <= Cardinality(Standing(w, a)')
    <3>1. IsFiniteSet(Standing(w, a)') /\ Cardinality(Standing(w, a)') \in Nat
      BY UndoneFiniteNext
    <3> QED
      BY <2>4, <3>1, UndoneFinite, FS_Subset
  <2>6. PICK k \in Int : k = Weight(KeyOf(w), a)
    BY ConsumerFacts, WeightType
  <2>7. k >= 0 => k * Cardinality(Standing(w, a)) <= k * Cardinality(Standing(w, a)')
    BY <2>5, Times
  <2>8. /\ k >= 0 => AtMost(w, a) = k * Cardinality(Standing(w, a))
        /\ k >= 0 => AtMost(w, a)' = k * Cardinality(Standing(w, a)')
        /\ ~(k >= 0) => AtMost(w, a)' = AtMost(w, a)
    BY <2>3, <2>6 DEF AtMost
  <2> QED
    BY <1>4, <1>6, <2>7, <2>8
<1> QED
  BY <1>5, <1>6

\* What the event in hand is still to change.
InHand(w) ==
  IF task[w].pc \in {"get", "set"}
  THEN Changed(0, task[w].kind, Weight(KeyOf(w), task[w].agg)) ELSE 0

Bounded(w) ==
  /\ InHand(w) <= Bound(w)
  /\ Current(KeyOf(w)) + InHand(w) <= Bound(w)
  /\ task[w].pc = "set" => task[w].read + InHand(w) <= Bound(w)

BoundedAll == \A w \in Consumers : KeyOf(w) \notin repeated => Bounded(w)

LEMMA InHandType ==
  ASSUME TypeOK, NEW w \in Consumers
  PROVE  InHand(w) \in Int /\ (task[w].pc = "set" => task[w].read \in Int)
<1>1. task[w].pc \in {"get", "set"} => Weight(KeyOf(w), task[w].agg) \in Int
  BY ConsumerFacts, BusyWorker, WeightType
<1>2. task[w].pc = "set" => task[w].read \in Int
  BY ConsumerFacts, BusyWorker
<1> QED
  BY <1>1, <1>2 DEF InHand, Changed

\* A step that leaves the consumer where it is and its total no higher, or gone.
LEMMA BoundedKept ==
  ASSUME TypeOK, TypeOK', NEW w \in Consumers, Bounded(w), task'[w] = task[w],
         \A a \in Aggregates : AtMost(w, a) <= AtMost(w, a)',
         Current(KeyOf(w))' = Current(KeyOf(w)) \/ Current(KeyOf(w))' = 0
  PROVE  Bounded(w)'
<1>1. Bound(w) <= Bound(w)' /\ Bound(w) \in Nat /\ Bound(w)' \in Nat
  BY BoundMonotonic, BoundType, BoundTypeNext
<1>2. Current(KeyOf(w)) \in Int
  BY ConsumerFacts, CurrentType
<1>3. InHand(w)' = InHand(w) /\ InHand(w) \in Int
  BY InHandType DEF InHand
<1>4. task[w].pc = "set" => task[w].read \in Int
  BY InHandType
<1> QED
  BY <1>1, <1>2, <1>3, <1>4 DEF Bounded

LEMMA BoundedStep == TypeOK /\ WorkersInv /\ BoundedAll /\ [Next]_vars => BoundedAll'
<1> SUFFICES ASSUME TypeOK, WorkersInv, BoundedAll, [Next]_vars,
                    NEW w \in Consumers, KeyOf(w) \notin repeated'
             PROVE  Bounded(w)'
  BY DEF BoundedAll
<1>0. TypeOK' /\ w \in Workers /\ w # "replay" /\ KeyOf(w) \in Keys
      /\ \A v \in Consumers : KeyOf(v) = KeyOf(w) => v = w
  BY TypeStep, ConsumerFacts
<1>1. repeated \subseteq repeated' /\ Bounded(w)
  <2>1. repeated \subseteq repeated'
    BY DEF Next, Make, CompleteOrder, Consume, Skip, Replay, Get, Set, PublishUpdate, Retry,
           StartReplay, EndReplay, Expire, Flush, history, vars
  <2> QED
    BY <2>1 DEF BoundedAll
<1>2. /\ Bound(w) \in Nat /\ Current(KeyOf(w)) \in Int /\ InHand(w) \in Int
      /\ \A a \in Aggregates : AtMost(w, a) \in Nat
      /\ task[w].pc = "set" => task[w].read \in Int
  BY <1>0, BoundType, AtMostType, CurrentType, InHandType
<1>3. ASSUME next'[w] = next[w], UNCHANGED <<log, ignored>>, task'[w] = task[w],
             Current(KeyOf(w))' = Current(KeyOf(w)) \/ Current(KeyOf(w))' = 0
      PROVE  Bounded(w)'
  <2>1. \A a \in Aggregates : AtMost(w, a)' = AtMost(w, a)
    BY <1>3, SameAtMost
  <2> QED
    BY <1>0, <1>1, <1>2, <1>3, <2>1, BoundedKept
<1>4. UNCHANGED value => Current(KeyOf(w))' = Current(KeyOf(w))
  BY DEF Current
\* The consumer's own task; its keys are its key.
<1>5. task[w].pc # "idle" =>
        /\ task[w].keys = <<KeyOf(w)>> /\ Head(task[w].keys) = KeyOf(w)
        /\ Len(task[w].keys) = 1 /\ task[w].kind \in Kinds /\ task[w].agg \in Aggregates
  <2>1. task[w].pc # "idle" => task[w].keys = <<KeyOf(w)>>
    BY <1>0, BusyWorker DEF WorkersInv, OwnKey
  <2>2. Head(<<KeyOf(w)>>) = KeyOf(w) /\ Len(<<KeyOf(w)>>) = 1
    OBVIOUS
  <2> QED
    BY <1>0, <2>1, <2>2, BusyWorker
<1>6. ASSUME UNCHANGED <<log, next, ignored>> PROVE Bound(w)' = Bound(w)
  BY <1>6 DEF Bound, AtMost, Undone, Standing
<1>7. ASSUME NEW a \in Aggregates, NEW kind \in Kinds,
             log' = [log EXCEPT ![a] = Append(@, kind)],
             UNCHANGED <<next, task, value, replay, history, alone, passed>>
      PROVE  Bounded(w)'
  <2>1. ASSUME NEW b \in Aggregates PROVE AtMost(w, b)' = AtMost(w, b)
    <3>1. /\ next[w][b] \in Nat /\ next[w][b] <= Len(log[b]) /\ log[b] \in Seq(Kinds)
          /\ next'[w][b] = next[w][b] /\ UNCHANGED ignored
      BY <1>0, <1>7, ReadModelAssumption DEF TypeOK, WorkersInv, history
    <3>2. log'[b] = IF b = a THEN Append(log[b], kind) ELSE log[b]
      BY <1>7 DEF TypeOK
    <3>3. ASSUME NEW i \in 1..next[w][b] PROVE log'[b][i] = log[b][i]
      <4>1. i \in 1..Len(log[b])
        BY <3>1, <3>3
      <4> QED
        BY <3>1, <3>2, <4>1
    <3> QED
      BY <3>1, <3>3, SameAtMost
  <2> QED
    BY <1>0, <1>1, <1>2, <1>4, <1>7, <2>1, BoundedKept
<1>8. ASSUME NEW v \in Consumers, NEW a \in Aggregates, Consume(v, a) PROVE Bounded(w)'
  <2>1. /\ next[v][a] < Len(log[a]) /\ Taken(v, a) /\ UNCHANGED <<log, value, ignored>>
        /\ task[v] = Idle /\ \A x \in Workers : x # v => task'[x] = task[x]
    BY <1>8, ConsumeStep DEF Consume, history
  <2>2. CASE v # w
    <3>1. next'[w] = next[w] /\ task'[w] = task[w]
      BY <1>0, <2>1, <2>2, ConsumerFacts, TakenEvent
    <3> QED
      BY <1>3, <1>4, <2>1, <3>1
  <2>3. CASE v = w
    <3> DEFINE change == Changed(0, log[a][next[w][a] + 1], Weight(KeyOf(w), a))
    <3>1. /\ \A b \in Aggregates : b # a => AtMost(w, b)' = AtMost(w, b)
          /\ AtMost(w, a) + change <= AtMost(w, a)'
      BY <1>0, <2>1, <2>3, TakenAtMost
    <3>2. change \in Int
      BY <1>0, WeightType DEF Changed
    <3>3. task'[w].pc = "get" /\ task'[w].agg = a /\ task'[w].kind = log[a][next[w][a] + 1]
      BY <1>8, <2>3, ConsumeStep
    <3>4. InHand(w)' = change
      BY <3>3 DEF InHand
    <3>5. InHand(w) = 0
      BY <2>1, <2>3 DEF InHand, Idle
    <3> HIDE DEF change
    <3>6. Bound(w) + change <= Bound(w)' /\ Bound(w)' \in Nat
      BY <1>0, <3>1, <3>2, BoundChange, BoundTypeNext
    <3> QED
      BY <1>1, <1>2, <1>4, <2>1, <3>2, <3>3, <3>4, <3>5, <3>6 DEF Bounded
  <2> QED
    BY <2>2, <2>3
<1>9. ASSUME NEW v \in Consumers, NEW a \in Aggregates, Skip(v, a) PROVE Bounded(w)'
  <2>1. \A b \in Aggregates : AtMost(w, b) <= AtMost(w, b)'
    BY <1>0, <1>9, SkippedAtMost
  <2>2. UNCHANGED <<value, task>>
    BY <1>9 DEF Skip
  <2> QED
    BY <1>0, <1>1, <1>4, <2>1, <2>2, BoundedKept
<1>10. ASSUME NEW a \in Aggregates, Replay(a) PROVE Bounded(w)'
  <2>1. /\ next["replay"][a] < Len(log[a]) /\ Taken("replay", a)
        /\ UNCHANGED <<log, value, ignored>> /\ "replay" \in Workers
    BY <1>10 DEF Replay, Workers, history
  <2>2. next'[w] = next[w]
    BY <1>0, <2>1, TakenEvent
  <2>3. task'[w] = task[w]
    BY <1>10, ReplayStep
  <2> QED
    BY <1>3, <1>4, <2>1, <2>2, <2>3
<1>11. ASSUME NEW v \in Workers, Get(v) PROVE Bounded(w)'
  <2>0. UNCHANGED <<log, next, value, ignored>>
    BY <1>11 DEF Get, history
  <2>1. CASE v # w
    BY <1>0, <1>3, <1>4, <1>11, <2>0, <2>1, GetStep
  <2>2. CASE v = w
    <3>1. /\ task[w].pc = "get" /\ task'[w].pc = "set" /\ task'[w].read = Current(KeyOf(w))
          /\ task'[w].agg = task[w].agg /\ task'[w].kind = task[w].kind
      BY <1>5, <1>11, <2>2, GetStep
    <3>2. InHand(w)' = InHand(w)
      BY <3>1 DEF InHand
    <3> QED
      BY <1>1, <1>4, <1>6, <2>0, <3>1, <3>2 DEF Bounded
  <2> QED
    BY <2>1, <2>2
<1>12. ASSUME NEW v \in Workers, Set(v) PROVE Bounded(w)'
  <2> DEFINE key == Head(task[v].keys)
             n == Applied(key, task[v].read, task[v].kind, Weight(key, task[v].agg))
  <2>1. /\ task[v].pc = "set" /\ UNCHANGED <<log, next, ignored>>
        /\ value' = [value EXCEPT ![key] = n] /\ value \in [Keys -> Int \cup {NoKey}]
        /\ repeated' = IF v = "replay" THEN repeated \cup {key} ELSE repeated
        /\ task'[v].pc = "publish"
        /\ \A x \in Workers : x # v => task'[x] = task[x]
    BY <1>12, SetStep DEF TypeOK
  <2>2. CASE v # w
    <3>1. key # KeyOf(w)
      <4>1. CASE v = "replay"
        BY <2>1, <4>1
      <4>2. CASE v # "replay"
        <5>1. v \in Consumers /\ task[v].pc # "idle"
          BY <2>1, <4>2 DEF Workers
        <5>2. task[v].keys = <<KeyOf(v)>>
          BY <5>1, <2>1, BusyWorker DEF WorkersInv, OwnKey
        <5> QED
          BY <1>0, <2>2, <5>1, <5>2
      <4> QED
        BY <4>1, <4>2
    <3>2. Current(KeyOf(w))' = Current(KeyOf(w))
      BY <1>0, <2>1, <3>1 DEF Current
    <3> QED
      BY <1>0, <1>3, <2>1, <2>2, <3>2
  <2>3. CASE v = w
    <3>1. /\ key = KeyOf(w) /\ task[w].kind \in Kinds /\ task[w].agg \in Aggregates
          /\ task[w].read \in Totals(key) /\ task[w].read \in Int
      BY <1>0, <1>2, <1>5, <2>1, <2>3 DEF WorkersInv, OwnRead
    <3>2. PICK k \in Int : k = Weight(key, task[w].agg) /\ (key = "booking_count" => k \in Nat)
      BY <1>0, <3>1, WeightType
    <3>3. n \in Int /\ (n = Changed(task[w].read, task[w].kind, k) \/ n = 0)
      BY <1>0, <2>3, <3>1, <3>2, AppliedType
    <3>4. Changed(task[w].read, task[w].kind, k) = task[w].read + InHand(w)
      <4>1. InHand(w) = Changed(0, task[w].kind, k)
        BY <2>1, <2>3, <3>1, <3>2 DEF InHand
      <4> QED
        BY <3>1, <3>2, <4>1 DEF Changed
    <3>5. Current(KeyOf(w))' = n
      BY <1>0, <2>1, <3>1, <3>3, ReadModelAssumption DEF Current
    <3>6. InHand(w)' = 0
      BY <2>1, <2>3 DEF InHand
    <3> HIDE DEF key, n
    <3>7. n <= Bound(w)
      BY <1>1, <1>2, <2>1, <2>3, <3>1, <3>3, <3>4 DEF Bounded
    <3> QED
      BY <1>2, <1>6, <2>1, <2>3, <3>3, <3>5, <3>6, <3>7 DEF Bounded
  <2> QED
    BY <2>2, <2>3
<1>13. ASSUME NEW v \in Workers, PublishUpdate(v) PROVE Bounded(w)'
  <2>0. UNCHANGED <<log, next, value, ignored>>
    BY <1>13 DEF PublishUpdate, history
  <2>1. CASE v # w
    BY <1>0, <1>3, <1>4, <1>13, <2>0, <2>1, PublishStep
  <2>2. CASE v = w
    <3>1. task[w].pc = "publish" /\ task'[w] = Idle
      BY <1>5, <1>13, <2>2, PublishStep
    <3>2. InHand(w)' = InHand(w) /\ task'[w].pc # "set"
      BY <3>1 DEF InHand, Idle
    <3> QED
      BY <1>1, <1>4, <1>6, <2>0, <3>1, <3>2 DEF Bounded
  <2> QED
    BY <2>1, <2>2
<1>14. ASSUME NEW v \in Workers, Retry(v) PROVE Bounded(w)'
  <2>0. UNCHANGED <<log, next, value, ignored>>
    BY <1>14 DEF Retry, history
  <2>1. CASE v # w
    BY <1>0, <1>3, <1>4, <1>14, <2>0, <2>1, RetryStep
  <2>2. CASE v = w
    <3>1. /\ task[w].pc = "set" /\ task'[w].pc = "get" /\ task'[w].agg = task[w].agg
          /\ task'[w].kind = task[w].kind
      BY <1>5, <1>14, <2>2, RetryStep
    <3>2. InHand(w)' = InHand(w)
      BY <3>1 DEF InHand
    <3> QED
      BY <1>1, <1>4, <1>6, <2>0, <3>1, <3>2 DEF Bounded
  <2> QED
    BY <2>1, <2>2
<1>15. ASSUME NEW topic \in Topic, StartReplay(topic) PROVE Bounded(w)'
  BY <1>3, <1>4, <1>15 DEF StartReplay, history
<1>16. ASSUME EndReplay PROVE Bounded(w)'
  <2>1. task'[w] = task[w] /\ next'[w] = next[w] /\ UNCHANGED <<log, value, ignored>>
    BY <1>0, <1>16 DEF EndReplay, Continue, TypeOK, history
  <2> QED
    BY <1>3, <1>4, <2>1
<1>17. ASSUME (\E key \in Keys : Expire(key)) \/ Flush PROVE Bounded(w)'
  <2>1. /\ UNCHANGED <<log, next, task, ignored>>
        /\ value'[KeyOf(w)] = value[KeyOf(w)] \/ value'[KeyOf(w)] = NoKey
    BY <1>0, <1>17 DEF Expire, Flush, TypeOK
  <2>2. Current(KeyOf(w))' = Current(KeyOf(w)) \/ Current(KeyOf(w))' = 0
    BY <2>1 DEF Current
  <2> QED
    BY <1>3, <2>1, <2>2
<1>18. CASE UNCHANGED vars
  BY <1>3, <1>4, <1>18 DEF vars
<1>19. ASSUME NEW o \in Orders, CompleteOrder(o) PROVE Bounded(w)'
  <2>1. o \in Aggregates /\ "add" \in Kinds
    BY DEF Aggregates, Kinds
  <2> QED
    BY <1>7, <1>19, <2>1 DEF CompleteOrder
<1>20. ASSUME NEW a \in Aggregates, NEW kind \in Kinds, Make(a, kind) PROVE Bounded(w)'
  BY <1>7, <1>20 DEF Make
<1> QED
  BY <1>8, <1>9, <1>10, <1>11, <1>12, <1>13, <1>14, <1>15, <1>16, <1>17, <1>18, <1>19, <1>20
     DEF Next

LEMMA BoundedOverstated == TypeOK /\ WorkersInv /\ BoundedAll => NeverOverstated
<1> SUFFICES ASSUME TypeOK, WorkersInv, BoundedAll, NEW w \in Consumers, task[w] = Idle,
                    KeyOf(w) \notin repeated
             PROVE  Current(KeyOf(w)) <= Bound(w)
  BY DEF NeverOverstated, Bound
<1>1. InHand(w) = 0 /\ Current(KeyOf(w)) \in Int
  BY ConsumerFacts, CurrentType DEF InHand, Idle
<1>2. Bounded(w) /\ Bound(w) \in Nat
  BY BoundType DEF BoundedAll
<1> QED
  BY <1>1, <1>2 DEF Bounded

-----------------------------------------------------------------------------
(* A total no event is missing from *)

AllWhole == \A a \in Aggregates : Whole(a)

\* The keys a task has still to set.
Due(t) ==
  CASE t.pc \in {"get", "set"} -> Range(t.keys)
    [] t.pc = "publish" -> Range(Tail(t.keys))
    [] OTHER -> {}

\* x is the net, or more where the floor at zero may have bitten.
Reaches(x, net, exact) == x >= net /\ (exact => x = net)

\* The records a worker has read and not handled.
Unhandled(w) == IF w = "replay" THEN passed ELSE {}

\* A key is what the events the worker has taken add up to, but for the event in
\* hand; and so is what the worker got of it.
Balanced(w, key, aggs) ==
  LET net == Net(key, aggs, next[w], Unhandled(w))
      Owed(x) == Reaches(Changed(x, task[w].kind, Weight(key, task[w].agg)), net,
                         NoneNegative(key)) IN
  IF key \in Due(task[w])
  THEN /\ Owed(Current(key))
       /\ task[w].pc = "set" /\ Head(task[w].keys) = key => Owed(task[w].read)
  ELSE Reaches(Current(key), net, NoneNegative(key))

LEMMA DueFacts ==
  /\ Due(Idle) = {}
  /\ \A t \in Busy :
       /\ t.pc \in {"get", "set"} => Due(t) = Range(t.keys) /\ Head(t.keys) \in Due(t)
       /\ t.pc = "publish" => Due(t) = Range(t.keys) \ {Head(t.keys)}
       /\ Len(t.keys) = 1 => Range(t.keys) = {Head(t.keys)}
       /\ Len(t.keys) # 1 => Range(t.keys) = {"booking_count", "revenue"}
  /\ \A key : Range(<<key>>) = {key}
  /\ Range(<<"booking_count", "revenue">>) = {"booking_count", "revenue"}
<1>1. \A key : Range(<<key>>) = {key} /\ Head(<<key>>) = key /\ Range(Tail(<<key>>)) = {}
               /\ Len(<<key>>) = 1
  BY DEF Range
<1>2. /\ Range(<<"booking_count", "revenue">>) = {"booking_count", "revenue"}
      /\ Head(<<"booking_count", "revenue">>) = "booking_count"
      /\ Tail(<<"booking_count", "revenue">>) = <<"revenue">>
      /\ Len(<<"booking_count", "revenue">>) = 2
  BY DEF Range
<1>3. Due(Idle) = {}
  BY DEF Due, Idle
<1>4. ASSUME NEW t \in Busy
      PROVE  /\ t.pc \in {"get", "set"} => Due(t) = Range(t.keys) /\ Head(t.keys) \in Due(t)
             /\ t.pc = "publish" => Due(t) = Range(t.keys) \ {Head(t.keys)}
             /\ Len(t.keys) = 1 => Range(t.keys) = {Head(t.keys)}
             /\ Len(t.keys) # 1 => Range(t.keys) = {"booking_count", "revenue"}
  <2>1. /\ t.pc \in {"get", "set"} => Due(t) = Range(t.keys)
        /\ t.pc = "publish" => Due(t) = Range(Tail(t.keys))
    BY DEF Due
  <2>2. t.keys \in KeyLists
    BY DEF Busy
  <2>3. CASE \E key \in Keys : t.keys = <<key>>
    <3>1. PICK key \in Keys : t.keys = <<key>>
      BY <2>3
    <3> QED
      BY <1>1, <2>1, <3>1
  <2>4. CASE t.keys = <<"booking_count", "revenue">>
    BY <1>1, <1>2, <2>1, <2>4
  <2> QED
    BY <2>2, <2>3, <2>4 DEF KeyLists
<1> QED
  BY <1>1, <1>2, <1>3, <1>4

LEMMA NetType ==
  ASSUME NEW key \in Keys, NEW aggs \in SUBSET Aggregates, NEW n, NEW skipped
  PROVE  /\ Net(key, aggs, n, skipped) \in Int
         /\ (\A a \in aggs : n[a] = 0) => Net(key, aggs, n, skipped) = 0
<1> DEFINE f == [a \in aggs |-> IF {i \in 1..n[a] : <<a, i>> \notin skipped} = {1}
                               THEN Weight(key, a) ELSE 0]
<1>1. \A a \in aggs : f[a] \in Int
  BY WeightType
<1>2. IsFiniteSet(aggs)
  BY ReadModelAssumption, FS_Subset
<1>3. Net(key, aggs, n, skipped) = SumFunctionOnSet(f, aggs)
  BY DEF Net
<1>4. (\A a \in aggs : n[a] = 0) => \A a \in aggs : f[a] = 0
  <2>1. 1..0 = {} /\ {} # {1}
    OBVIOUS
  <2>2. ASSUME NEW a \in aggs, n[a] = 0 PROVE {i \in 1..n[a] : <<a, i>> \notin skipped} = {}
    BY <2>1, <2>2
  <2> QED
    BY <2>1, <2>2
<1> HIDE DEF f
<1> QED
  BY <1>1, <1>2, <1>3, <1>4, SumRemove, SumZero

\* The floor is under every net that no amount below zero has part in.
LEMMA NetFloor ==
  ASSUME TypeOK, WorkersInv, NEW w \in Workers, NEW key \in Keys, key # "restaurant_sales",
         NEW aggs \in SUBSET Aggregates, NEW skipped, NoneNegative(key)
  PROVE  Net(key, aggs, next[w], skipped) >= 0
<1> DEFINE f == [a \in aggs |-> IF {i \in 1..next[w][a] : <<a, i>> \notin skipped} = {1}
                               THEN Weight(key, a) ELSE 0]
<1>1. ASSUME NEW a \in aggs PROVE f[a] \in Nat
  <2>1. CASE {i \in 1..next[w][a] : <<a, i>> \notin skipped} # {1}
    BY <2>1
  <2>2. CASE {i \in 1..next[w][a] : <<a, i>> \notin skipped} = {1}
    <3>0. a \in Aggregates /\ next[w][a] \in 0..MaxEvents /\ next[w][a] <= Len(log[a])
      <4>1. a \in Aggregates
        OBVIOUS
      <4>2. next[w] \in [Aggregates -> 0..MaxEvents]
        BY DEF TypeOK
      <4> QED
        BY <4>1, <4>2 DEF WorkersInv
    <3>1. 1 \in 1..next[w][a] /\ next[w][a] \in Nat /\ next[w][a] <= Len(log[a])
      <4>1. 1 \in {i \in 1..next[w][a] : <<a, i>> \notin skipped}
        BY <2>2
      <4> QED
        BY <3>0, <4>1, ReadModelAssumption
    <3>2. log[a] # <<>>
      <4>1. Len(<<>>) = 0
        OBVIOUS
      <4> QED
        BY <3>1, <4>1
    <3>3. CASE key = "booking_count"
      BY <2>2, <3>3, WeightType
    <3>4. CASE key = "revenue"
      <4>1. a \in Stays \cup Payments => Amount[a] >= 0 /\ Amount[a] \in Int
        BY <3>2, <3>4, ReadModelAssumption DEF NoneNegative
      <4>2. Weight(key, a) = IF a \in Stays \cup Payments THEN Amount[a] ELSE 0
        BY <3>4 DEF Weight, RevenueOf
      <4> QED
        BY <2>2, <4>1, <4>2
    <3> QED
      BY <3>3, <3>4 DEF Keys
  <2> QED
    BY <2>1, <2>2
<1>2. IsFiniteSet(aggs)
  BY ReadModelAssumption, FS_Subset
<1>3. Net(key, aggs, next[w], skipped) = SumFunctionOnSet(f, aggs)
  BY DEF Net
<1> HIDE DEF f
<1> QED
  BY <1>1, <1>2, <1>3, SumNat

\* The next event of a whole story counts, or takes back what was counted.
LEMMA NetTaken ==
  ASSUME TypeOK, NEW w \in Workers, NEW key \in Keys, NEW aggs \in SUBSET Aggregates,
         NEW a \in aggs, Whole(a), next[w][a] < Len(log[a]), Taken(w, a), NEW skipped,
         <<a, next[w][a] + 1>> \notin skipped, next[w][a] = 1 => <<a, 1>> \notin skipped
  PROVE  Net(key, aggs, next'[w], skipped)
           = Changed(Net(key, aggs, next[w], skipped), log[a][next[w][a] + 1], Weight(key, a))
<1> DEFINE Read(n, b) == {i \in 1..n[b] : <<b, i>> \notin skipped}
           f == [b \in aggs |-> IF Read(next[w], b) = {1} THEN Weight(key, b) ELSE 0]
           g == [b \in aggs |-> IF Read(next'[w], b) = {1} THEN Weight(key, b) ELSE 0]
<1>1. next'[w] = [next[w] EXCEPT ![a] = @ + 1] /\ next[w] \in [Aggregates -> 0..MaxEvents]
  BY DEF Taken, TypeOK
<1>2. next[w][a] \in Nat /\ next'[w][a] = next[w][a] + 1
      /\ \A b \in aggs : b # a => next'[w][b] = next[w][b]
  BY <1>1, ReadModelAssumption
<1>3. \A b \in aggs : Weight(key, b) \in Int
  BY WeightType
<1>4. /\ \A b \in aggs : f[b] \in Int /\ g[b] \in Int
      /\ \A b \in aggs : b # a => g[b] = f[b]
  BY <1>2, <1>3
<1>5. \/ next[w][a] = 0 /\ log[a][next[w][a] + 1] = "add"
      \/ next[w][a] = 1 /\ log[a][next[w][a] + 1] = "remove"
  <2>1. \A n \in Nat : n < Len(<<"add">>) => n = 0 /\ <<"add">>[n + 1] = "add"
    OBVIOUS
  <2>2. \A n \in Nat : n < Len(<<"add", "remove">>) =>
          \/ n = 0 /\ <<"add", "remove">>[n + 1] = "add"
          \/ n = 1 /\ <<"add", "remove">>[n + 1] = "remove"
    OBVIOUS
  <2>3. \A n \in Nat : ~(n < Len(<<>>))
    OBVIOUS
  <2> QED
    BY <1>2, <2>1, <2>2, <2>3 DEF Whole
<1>6. /\ log[a][next[w][a] + 1] = "add" => f[a] = 0 /\ g[a] = Weight(key, a)
      /\ log[a][next[w][a] + 1] = "remove" => f[a] = Weight(key, a) /\ g[a] = 0
  <2>1. CASE next[w][a] = 0 /\ log[a][next[w][a] + 1] = "add"
    <3>1. Read(next[w], a) = {} /\ Read(next'[w], a) = {1}
      BY <1>2, <2>1
    <3> QED
      BY <2>1, <3>1
  <2>2. CASE next[w][a] = 1 /\ log[a][next[w][a] + 1] = "remove"
    <3>1. Read(next[w], a) = {1} /\ 2 \in Read(next'[w], a)
      BY <1>2, <2>2
    <3> QED
      BY <2>2, <3>1
  <2> QED
    BY <1>5, <2>1, <2>2
<1>7. IsFiniteSet(aggs)
  BY ReadModelAssumption, FS_Subset
<1>8. Net(key, aggs, next[w], skipped) = SumFunctionOnSet(f, aggs)
      /\ Net(key, aggs, next'[w], skipped) = SumFunctionOnSet(g, aggs)
  BY DEF Net
<1>9. /\ Net(key, aggs, next[w], skipped) \in Int /\ Net(key, aggs, next'[w], skipped) \in Int
      /\ Weight(key, a) \in Int
  BY <1>3, NetType
<1> HIDE DEF f, g, Read
<1>10. SumFunctionOnSet(g, aggs) = SumFunctionOnSet(f, aggs) + (g[a] - f[a])
  BY <1>4, <1>7, SumChange
<1> QED
  BY <1>5, <1>6, <1>8, <1>9, <1>10 DEF Changed

\* A record that is passed over does not count.
LEMMA NetPassed ==
  ASSUME TypeOK, NEW w \in Workers, NEW key \in Keys, NEW aggs \in SUBSET Aggregates,
         NEW a \in aggs, Taken(w, a), NEW skipped, NEW more,
         more = skipped \cup {<<a, next[w][a] + 1>>}
  PROVE  Net(key, aggs, next'[w], more) = Net(key, aggs, next[w], skipped)
<1>1. next'[w] = [next[w] EXCEPT ![a] = @ + 1] /\ next[w] \in [Aggregates -> 0..MaxEvents]
  BY DEF Taken, TypeOK
<1>2. next[w][a] \in Nat /\ next'[w][a] = next[w][a] + 1
      /\ \A b \in aggs : b # a => next'[w][b] = next[w][b]
  BY <1>1, ReadModelAssumption
<1>3. ASSUME NEW b \in aggs
      PROVE  {i \in 1..next'[w][b] : <<b, i>> \notin more}
               = {i \in 1..next[w][b] : <<b, i>> \notin skipped}
  <2>1. CASE b # a
    <3>1. \A i : <<b, i>> \in more <=> <<b, i>> \in skipped
      BY <2>1
    <3> QED
      BY <1>2, <2>1, <3>1
  <2>2. CASE b = a
    <3>1. \A i \in 1..next[w][a] : <<a, i>> \in more <=> <<a, i>> \in skipped
      BY <1>2
    <3>2. 1..next'[w][a] = 1..next[w][a] \cup {next[w][a] + 1} /\ <<a, next[w][a] + 1>> \in more
      BY <1>2
    <3> QED
      BY <2>2, <3>1, <3>2
  <2> QED
    BY <2>1, <2>2
<1> QED
  BY <1>3 DEF Net

\* Floored at zero or not, what is owed is settled.
LEMMA SettledApplied ==
  ASSUME NEW key \in Keys, NEW x \in Totals(key), NEW kind \in Kinds, NEW weight \in Int,
         key = "booking_count" => weight \in Nat, NEW net \in Int, NEW exact,
         exact /\ key # "restaurant_sales" => net >= 0,
         Reaches(Changed(x, kind, weight), net, exact)
  PROVE  Reaches(Applied(key, x, kind, weight), net, exact)
<1>1. Floored(key, kind) => key # "restaurant_sales"
  BY DEF Floored
<1> QED
  BY <1>1, AppliedType DEF Reaches

LEMMA LogGrows ==
  ASSUME TypeOK, [Next]_vars, NEW a \in Aggregates
  PROVE  log'[a] = log[a] \/ \E kind : log'[a] = Append(log[a], kind)
BY DEF Next, Make, CompleteOrder, Consume, Skip, Replay, Get, Set, PublishUpdate, Retry,
       StartReplay, EndReplay, Expire, Flush, vars, TypeOK

LEMMA NoneNegativeBefore ==
  ASSUME TypeOK, [Next]_vars, NEW key, NoneNegative(key)'
  PROVE  NoneNegative(key)
<1> SUFFICES ASSUME key = "revenue", NEW a \in Stays \cup Payments, log[a] # <<>>
             PROVE  Amount[a] >= 0
  BY DEF NoneNegative
<1>1. a \in Aggregates /\ log[a] \in Seq(Kinds)
  BY DEF Aggregates, TypeOK
<1>2. \A kind : Len(Append(log[a], kind)) # 0
  <2>1. \A kind : Append(log[a], kind) # <<>>
    BY <1>1
  <2> TAKE kind
  <2>2. Len(log[a]) \in Nat /\ Len(Append(log[a], kind)) = Len(log[a]) + 1
    BY <1>1
  <2> QED
    BY <2>2
<1>3. log'[a] # <<>>
  <2>1. Len(<<>>) = 0
    OBVIOUS
  <2> QED
    BY <1>1, <1>2, <2>1, LogGrows
<1> QED
  BY <1>3 DEF NoneNegative

\* Logs only grow, so a log that tells a whole story always did.
LEMMA WholeBefore ==
  ASSUME TypeOK, [Next]_vars, AllWhole'
  PROVE  AllWhole
<1> SUFFICES ASSUME NEW a \in Aggregates PROVE Whole(a)
  BY DEF AllWhole
<1>1. log[a] \in Seq(Kinds)
  BY DEF TypeOK
<1>2. log'[a] = log[a] \/ \E kind : log'[a] = Append(log[a], kind)
  BY LogGrows
<1>3. log'[a] \in {<<>>, <<"add">>, <<"add", "remove">>}
  BY DEF AllWhole, Whole
<1>4. ASSUME NEW kind, log'[a] = Append(log[a], kind) PROVE Whole(a)
  <2>1. /\ Len(log'[a]) = Len(log[a]) + 1 /\ Len(log[a]) \in Nat
        /\ \A i \in 1..Len(log[a]) : log'[a][i] = log[a][i]
    BY <1>1, <1>4
  <2>2. Len(log[a]) = 0 \/ (Len(log[a]) = 1 /\ log[a][1] = "add")
    <3>1. /\ Len(<<>>) = 0 /\ Len(<<"add">>) = 1 /\ Len(<<"add", "remove">>) = 2
          /\ <<"add", "remove">>[1] = "add"
      OBVIOUS
    <3>2. /\ Len(log'[a]) = 0 \/ Len(log'[a]) = 1 \/ Len(log'[a]) = 2
          /\ Len(log'[a]) = 2 => log'[a][1] = "add"
      BY <1>3, <3>1
    <3>3. Len(log[a]) = 0 \/ Len(log[a]) = 1
      <4>1. \A m, n \in Nat : n = m + 1 /\ (n = 0 \/ n = 1 \/ n = 2) => m = 0 \/ m = 1
        OBVIOUS
      <4>2. Len(log'[a]) \in Nat /\ Len(log[a]) \in Nat /\ Len(log'[a]) = Len(log[a]) + 1
        BY <2>1
      <4> QED
        BY <3>2, <4>1, <4>2
    <3>4. ASSUME Len(log[a]) = 1 PROVE log[a][1] = "add"
      <4>1. 1 \in 1..Len(log[a]) /\ Len(log'[a]) = 2
        BY <2>1, <3>4
      <4> QED
        BY <2>1, <3>2, <4>1
    <3> QED
      BY <3>3, <3>4
  <2>3. CASE Len(log[a]) = 0
    BY <1>1, <2>3 DEF Whole
  <2>4. CASE Len(log[a]) = 1 /\ log[a][1] = "add"
    <3>1. log[a] = <<"add">>
      BY <1>1, <2>4
    <3> QED
      BY <3>1 DEF Whole
  <2> QED
    BY <2>2, <2>3, <2>4
<1> QED
  BY <1>2, <1>3, <1>4 DEF Whole

\* The steps of a worker keep a key of its balanced; aggs is what the key counts.
LEMMA BalancedKept ==
  ASSUME NEW w \in Workers, NEW key \in Keys, NEW aggs, Balanced(w, key, aggs),
         task'[w] = task[w], next'[w] = next[w], value'[key] = value[key],
         Unhandled(w)' = Unhandled(w), NoneNegative(key)' => NoneNegative(key)
  PROVE  Balanced(w, key, aggs)'
BY DEF Balanced, Current, Reaches

LEMMA BalancedTake ==
  ASSUME TypeOK, NEW w \in Workers, NEW key \in Keys, NEW aggs \in SUBSET Aggregates,
         NEW a \in aggs, Balanced(w, key, aggs), Whole(a), task[w] = Idle,
         next[w][a] < Len(log[a]), Taken(w, a), UNCHANGED value,
         <<a, next[w][a] + 1>> \notin Unhandled(w),
         next[w][a] = 1 => <<a, 1>> \notin Unhandled(w),
         Unhandled(w)' = Unhandled(w), NoneNegative(key)' => NoneNegative(key),
         task'[w].pc = "get", task'[w].agg = a, task'[w].kind = log[a][next[w][a] + 1],
         key \in Range(task'[w].keys)
  PROVE  Balanced(w, key, aggs)'
<1>1. PICK before : before = Net(key, aggs, next[w], Unhandled(w))
  OBVIOUS
<1>2. PICK after : after = Net(key, aggs, next'[w], Unhandled(w))
  OBVIOUS
<1>3. PICK current : current = Current(key)
  OBVIOUS
<1>4. before \in Int /\ current \in Int /\ Weight(key, a) \in Int
  BY <1>1, <1>3, NetType, CurrentType, WeightType
<1>5. Reaches(current, before, NoneNegative(key))
  BY <1>1, <1>3, DueFacts DEF Balanced
<1>6. after = Changed(before, task'[w].kind, Weight(key, a))
  <2>1. PICK skipped : skipped = Unhandled(w)
    OBVIOUS
  <2>2. <<a, next[w][a] + 1>> \notin skipped /\ (next[w][a] = 1 => <<a, 1>> \notin skipped)
    BY <2>1, Zenon
  <2>3. Net(key, aggs, next'[w], skipped)
          = Changed(Net(key, aggs, next[w], skipped), log[a][next[w][a] + 1], Weight(key, a))
    BY <2>2, NetTaken, ZenonT(60)
  <2> QED
    BY <1>1, <1>2, <2>1, <2>3, Zenon
<1>7. Reaches(Changed(current, task'[w].kind, Weight(key, a)), after, NoneNegative(key))
  BY <1>4, <1>5, <1>6 DEF Reaches, Changed
<1>8. Reaches(Changed(current, task'[w].kind, Weight(key, a)), after, NoneNegative(key)')
  BY <1>7 DEF Reaches
<1>9. Current(key)' = current
  BY <1>3 DEF Current
<1>10. key \in Due(task'[w])
  BY DEF Due
<1> QED
  BY <1>2, <1>8, <1>9, <1>10 DEF Balanced

\* A record the replay passes over changes nothing.
LEMMA BalancedPassed ==
  ASSUME TypeOK, NEW key \in Keys, NEW aggs \in SUBSET Aggregates, NEW a \in aggs,
         Balanced("replay", key, aggs), Taken("replay", a), UNCHANGED <<value, task>>,
         passed' = passed \cup {<<a, next["replay"][a] + 1>>},
         NoneNegative(key)' => NoneNegative(key)
  PROVE  Balanced("replay", key, aggs)'
<1>1. "replay" \in Workers
  BY DEF Workers
<1>2. Net(key, aggs, next'["replay"], passed') = Net(key, aggs, next["replay"], passed)
  BY <1>1, NetPassed
<1>3. Current(key)' = Current(key)
  BY DEF Current
<1> QED
  BY <1>2, <1>3 DEF Balanced, Unhandled, Reaches

LEMMA BalancedGet ==
  ASSUME TypeOK, WorkersInv, NEW w \in Workers, NEW key \in Keys, NEW aggs,
         Balanced(w, key, aggs), Get(w)
  PROVE  Balanced(w, key, aggs)'
<1>1. /\ task[w].pc = "get" /\ task'[w] \in Busy /\ task'[w].pc = "set"
      /\ task'[w].read = Current(Head(task[w].keys))
      /\ task'[w].agg = task[w].agg /\ task'[w].kind = task[w].kind
      /\ task'[w].keys = task[w].keys /\ UNCHANGED <<log, value, next, passed>>
  BY GetStep
<1>2. Due(task'[w]) = Due(task[w])
  BY <1>1 DEF Due
<1>3. Current(key)' = Current(key) /\ Unhandled(w)' = Unhandled(w)
      /\ (NoneNegative(key)' <=> NoneNegative(key))
  BY <1>1 DEF Current, Unhandled, NoneNegative
<1> QED
  BY <1>1, <1>2, <1>3 DEF Balanced, Reaches

LEMMA BalancedSet ==
  ASSUME TypeOK, WorkersInv, NEW w \in Workers, NEW key \in Keys, NEW aggs \in SUBSET Aggregates,
         Balanced(w, key, aggs), Set(w)
  PROVE  Balanced(w, key, aggs)'
<1> DEFINE head == Head(task[w].keys)
           n == Applied(head, task[w].read, task[w].kind, Weight(head, task[w].agg))
<1>1. /\ task[w].pc = "set" /\ task'[w] \in Busy /\ task'[w].pc = "publish"
      /\ task'[w].agg = task[w].agg /\ task'[w].kind = task[w].kind
      /\ task'[w].keys = task[w].keys /\ UNCHANGED <<log, next, passed>>
      /\ value' = [value EXCEPT ![head] = n]
  BY SetStep DEF replay, history
<1>2. /\ task[w] \in Busy /\ head \in Keys /\ task[w].kind \in Kinds
      /\ Weight(head, task[w].agg) \in Int
      /\ head = "booking_count" => Weight(head, task[w].agg) \in Nat
      /\ task[w].read \in Totals(head)
  BY <1>1, BusyWorker DEF WorkersInv, OwnRead
<1>3. Due(task[w]) = Range(task[w].keys) /\ head \in Due(task[w])
      /\ Due(task'[w]) = Due(task[w]) \ {head}
  BY <1>1, <1>2, DueFacts
<1>4. Unhandled(w)' = Unhandled(w) /\ (NoneNegative(key)' <=> NoneNegative(key))
  BY <1>1 DEF Unhandled, NoneNegative
<1>5. CASE key = head
  <2>1. PICK net : net = Net(key, aggs, next[w], Unhandled(w))
    OBVIOUS
  <2>2. PICK exact \in BOOLEAN : exact = NoneNegative(key)
    BY DEF NoneNegative
  <2>3. net \in Int /\ (exact /\ key # "restaurant_sales" => net >= 0)
    BY <2>1, <2>2, NetType, NetFloor
  <2>4. Reaches(Changed(task[w].read, task[w].kind, Weight(key, task[w].agg)), net, exact)
    BY <1>1, <1>3, <1>5, <2>1, <2>2 DEF Balanced
  <2>5. n \in Int
    BY <1>2, AppliedType
  <2>6. Reaches(n, net, exact)
    BY <1>2, <1>5, <2>3, <2>4, SettledApplied
  <2> HIDE DEF n, head
  <2>7. value'[key] = n
    BY <1>1, <1>5 DEF TypeOK
  <2>8. Current(key)' = n
    BY <2>5, <2>7, ReadModelAssumption DEF Current
  <2>9. Reaches(Current(key)', net, NoneNegative(key)')
    BY <1>4, <2>2, <2>6, <2>8 DEF Reaches
  <2>10. key \notin Due(task'[w]) /\ net = Net(key, aggs, next'[w], Unhandled(w)')
    BY <1>1, <1>3, <1>4, <1>5, <2>1
  <2> QED
    BY <2>9, <2>10 DEF Balanced
<1>6. CASE key # head
  <2> HIDE DEF n, head
  <2>1. Current(key)' = Current(key)
    BY <1>1, <1>6 DEF Current, TypeOK
  <2> QED
    BY <1>1, <1>3, <1>4, <1>6, <2>1 DEF Balanced, Reaches
<1> QED
  BY <1>5, <1>6

LEMMA BalancedPublish ==
  ASSUME TypeOK, WorkersInv, NEW w \in Workers, NEW key \in Keys, NEW aggs,
         Balanced(w, key, aggs), PublishUpdate(w)
  PROVE  Balanced(w, key, aggs)'
<1>1. /\ task[w].pc = "publish" /\ UNCHANGED <<log, value, next, passed>>
      /\ \/ Len(task[w].keys) = 1 /\ task'[w] = Idle
         \/ /\ task[w].keys = <<"booking_count", "revenue">>
            /\ task'[w] \in Busy /\ task'[w].pc = "get"
            /\ task'[w].agg = task[w].agg /\ task'[w].kind = task[w].kind
            /\ task'[w].keys = <<"revenue">>
  BY PublishStep
<1>2. task[w] \in Busy
  BY <1>1, BusyWorker
<1>3. Due(task[w]) = Range(task[w].keys) \ {Head(task[w].keys)}
  BY <1>1, <1>2, DueFacts
<1>4. Current(key)' = Current(key) /\ Unhandled(w)' = Unhandled(w)
      /\ (NoneNegative(key)' <=> NoneNegative(key))
  BY <1>1 DEF Current, Unhandled, NoneNegative
<1>5. CASE Len(task[w].keys) = 1 /\ task'[w] = Idle
  <2>1. Due(task[w]) = {} /\ Due(task'[w]) = {}
    BY <1>2, <1>3, <1>5, DueFacts
  <2> QED
    BY <1>1, <1>4, <2>1 DEF Balanced, Reaches
<1>6. CASE /\ task[w].keys = <<"booking_count", "revenue">>
           /\ task'[w] \in Busy /\ task'[w].pc = "get"
           /\ task'[w].agg = task[w].agg /\ task'[w].kind = task[w].kind
           /\ task'[w].keys = <<"revenue">>
  <2>1. Head(<<"booking_count", "revenue">>) = "booking_count"
    OBVIOUS
  <2>2. Due(task[w]) = {"revenue"} /\ Due(task'[w]) = {"revenue"}
    BY <1>2, <1>3, <1>6, <2>1, DueFacts
  <2> QED
    BY <1>1, <1>4, <1>6, <2>2 DEF Balanced, Reaches
<1> QED
  BY <1>1, <1>5, <1>6

\* What a consumer has handled of whole stories is what its key holds.
ExactInv ==
  AllWhole => \A w \in Consumers : KeyOf(w) \notin disturbed \cup repeated =>
    Balanced(w, KeyOf(w), Subscribed(w))

LEMMA ExactStep == TypeOK /\ WorkersInv /\ ExactInv /\ [Next]_vars => ExactInv'
<1> SUFFICES ASSUME TypeOK, WorkersInv, ExactInv, [Next]_vars, AllWhole',
                    NEW w \in Consumers, NEW key, NEW aggs, key = KeyOf(w),
                    aggs = Subscribed(w), key \notin disturbed' \cup repeated'
             PROVE  Balanced(w, key, aggs)'
  <2>1. ASSUME NEW w \in Consumers PROVE Subscribed(w)' = Subscribed(w) /\ KeyOf(w)' = KeyOf(w)
    BY DEF Subscribed, Consumers
  <2> QED
    BY <2>1 DEF ExactInv
<1>0. /\ w \in Workers /\ w # "replay" /\ key \in Keys
      /\ \A v \in Consumers : KeyOf(v) = key => v = w
      /\ "replay" \in Workers /\ \A v \in Workers : v # "replay" => v \in Consumers
  BY ConsumerFacts DEF Workers
<1>1. aggs \in SUBSET Aggregates
  BY DEF Subscribed, Consumers, Aggregates
<1>2. disturbed \subseteq disturbed' /\ repeated \subseteq repeated'
  BY DEF Next, Make, CompleteOrder, Consume, Skip, Replay, Get, Set, PublishUpdate, Retry,
         StartReplay, EndReplay, Expire, Flush, history, vars
<1>3. /\ \A a \in Aggregates : Whole(a)
      /\ Balanced(w, key, aggs)
  BY <1>2, WholeBefore DEF ExactInv, AllWhole
<1>4. /\ Unhandled(w) = {} /\ Unhandled(w)' = {} /\ Unhandled(w)' = Unhandled(w)
      /\ NoneNegative(key)' => NoneNegative(key)
  BY <1>0, NoneNegativeBefore DEF Unhandled
<1>5. ASSUME task'[w] = task[w], next'[w] = next[w], value'[key] = value[key]
      PROVE  Balanced(w, key, aggs)'
  BY <1>0, <1>3, <1>4, <1>5, BalancedKept
<1>6. ASSUME NEW a \in Aggregates, \/ \E kind \in Kinds : Make(a, kind)
                                   \/ a \in Orders /\ CompleteOrder(a)
      PROVE  Balanced(w, key, aggs)'
  BY <1>5, <1>6 DEF Make, CompleteOrder
<1>7. ASSUME NEW v \in Consumers, NEW a \in Aggregates, Consume(v, a)
      PROVE  Balanced(w, key, aggs)'
  <2>1. /\ next[v][a] < Len(log[a]) /\ Taken(v, a) /\ UNCHANGED <<log, value>>
        /\ task[v] = Idle /\ a \in Subscribed(v) /\ v \in Workers
    BY <1>7, ConsumerFacts DEF Consume
  <2>2. /\ task'[v].pc = "get" /\ task'[v].agg = a /\ task'[v].kind = log[a][next[v][a] + 1]
        /\ task'[v].keys = <<KeyOf(v)>>
        /\ \A x \in Workers : x # v => task'[x] = task[x]
    BY <1>7, ConsumeStep
  <2>3. CASE v # w
    BY <1>0, <1>5, <2>1, <2>2, <2>3, TakenEvent
  <2>4. CASE v = w
    <3>1. key \in Range(task'[w].keys)
      <4>1. task'[w].keys = <<key>>
        BY <2>2, <2>4
      <4>2. Range(<<key>>) = {key}
        BY DueFacts
      <4> QED
        BY <4>1, <4>2
    <3>2. a \in aggs
      BY <2>1, <2>4
    <3> QED
      BY <1>0, <1>1, <1>3, <1>4, <2>1, <2>2, <2>4, <3>1, <3>2, BalancedTake
  <2> QED
    BY <2>3, <2>4
<1>8. ASSUME NEW v \in Consumers, NEW a \in Aggregates, Skip(v, a)
      PROVE  Balanced(w, key, aggs)'
  <2>1. /\ next[v][a] < Len(log[a]) /\ Taken(v, a) /\ UNCHANGED <<log, value, task>>
        /\ disturbed' = disturbed \cup {HandledBy(v, a)[1]} /\ v \in Workers
    BY <1>8, ConsumerFacts DEF Skip
  <2>2. HandledBy(v, a)[1] = KeyOf(v)
    BY HandledByType
  <2>3. v # w
    BY <2>1, <2>2
  <2> QED
    BY <1>0, <1>5, <2>1, <2>3, TakenEvent
<1>9. ASSUME NEW a \in Aggregates, Replay(a) PROVE Balanced(w, key, aggs)'
  <2>1. /\ next["replay"][a] < Len(log[a]) /\ Taken("replay", a) /\ UNCHANGED value
    BY <1>9 DEF Replay
  <2>2. next'[w] = next[w]
    BY <1>0, <2>1, TakenEvent
  <2>3. task'[w] = task[w]
    BY <1>9, ReplayStep
  <2> QED
    BY <1>5, <2>1, <2>2, <2>3
<1>10. ASSUME NEW v \in Workers, Get(v) PROVE Balanced(w, key, aggs)'
  <2>1. CASE v = w
    BY <1>3, <1>0, <1>10, <2>1, BalancedGet
  <2>2. CASE v # w
    BY <1>0, <1>5, <1>10, <2>2, GetStep
  <2> QED
    BY <2>1, <2>2
<1>11. ASSUME NEW v \in Workers, Set(v) PROVE Balanced(w, key, aggs)'
  <2>1. CASE v = w
    BY <1>0, <1>1, <1>3, <1>11, <2>1, BalancedSet
  <2>2. CASE v # w
    <3> DEFINE n == Applied(Head(task[v].keys), task[v].read, task[v].kind,
                            Weight(Head(task[v].keys), task[v].agg))
    <3>1. /\ task[v].pc = "set" /\ next' = next /\ task'[w] = task[w]
          /\ value' = [value EXCEPT ![Head(task[v].keys)] = n]
          /\ repeated' = IF v = "replay" THEN repeated \cup {Head(task[v].keys)} ELSE repeated
      BY <1>0, <1>11, <2>2, SetStep DEF replay, history
    <3>2. Head(task[v].keys) # key
      <4>1. CASE v = "replay"
        BY <3>1, <4>1
      <4>2. CASE v # "replay"
        <5>1. v \in Consumers /\ task[v] # Idle
          BY <1>0, <3>1, <4>2, BusyWorker
        <5>2. task[v].keys = <<KeyOf(v)>>
          BY <5>1 DEF WorkersInv, OwnKey
        <5> QED
          BY <1>0, <2>2, <5>1, <5>2
      <4> QED
        BY <4>1, <4>2
    <3> HIDE DEF n
    <3>3. value'[key] = value[key]
      BY <1>0, <3>1, <3>2 DEF TypeOK
    <3> QED
      BY <1>5, <3>1, <3>3
  <2> QED
    BY <2>1, <2>2
<1>12. ASSUME NEW v \in Workers, PublishUpdate(v) PROVE Balanced(w, key, aggs)'
  <2>1. CASE v = w
    BY <1>0, <1>3, <1>12, <2>1, BalancedPublish
  <2>2. CASE v # w
    BY <1>0, <1>5, <1>12, <2>2, PublishStep
  <2> QED
    BY <2>1, <2>2
<1>13. ASSUME NEW v \in Workers, Retry(v) PROVE Balanced(w, key, aggs)'
  <2>1. CASE v = w
    <3>1. /\ \/ task[w].pc = "set"
             \/ task[w].pc = "publish" /\ repeated' = repeated \cup {Head(task[w].keys)}
          /\ task'[w] \in Busy /\ task'[w].pc = "get" /\ UNCHANGED <<value, next>>
          /\ task'[w].agg = task[w].agg /\ task'[w].kind = task[w].kind
          /\ task'[w].keys = task[w].keys
      BY <1>13, <2>1, RetryStep
    <3>2. task[w] # Idle
      BY <1>0, <3>1, BusyWorker
    <3>3. task[w].keys = <<key>>
      BY <3>2 DEF WorkersInv, OwnKey
    <3>4. task[w].pc = "set"
      BY <3>1, <3>3
    <3>5. Due(task'[w]) = Due(task[w])
      BY <3>1, <3>4 DEF Due
    <3>6. Current(key)' = Current(key)
      BY <3>1 DEF Current
    <3> QED
      BY <1>3, <1>4, <3>1, <3>5, <3>6 DEF Balanced, Reaches
  <2>2. CASE v # w
    BY <1>0, <1>5, <1>13, <2>2, RetryStep
  <2> QED
    BY <2>1, <2>2
<1>14. ASSUME NEW topic \in Topic, StartReplay(topic) PROVE Balanced(w, key, aggs)'
  BY <1>5, <1>14 DEF StartReplay
<1>15. ASSUME EndReplay PROVE Balanced(w, key, aggs)'
  BY <1>0, <1>5, <1>15 DEF EndReplay, Continue, TypeOK
<1>16. ASSUME (\E k \in Keys : Expire(k)) \/ Flush PROVE Balanced(w, key, aggs)'
  <2>1. UNCHANGED <<next, task>> /\ value'[key] = value[key]
    BY <1>0, <1>16 DEF Expire, Flush, TypeOK
  <2> QED
    BY <1>5, <2>1
<1>17. CASE UNCHANGED vars
  BY <1>5, <1>17 DEF vars
<1> QED
  BY <1>6, <1>7, <1>8, <1>9, <1>10, <1>11, <1>12, <1>13, <1>14, <1>15, <1>16, <1>17
     DEF Next, Aggregates

\* The keys only the running replay has written are keys of its topic, balanced.
Readable(topic) == AllWhole /\ \A a \in Of(topic) : ~Headless(a)

RebuildInv ==
  \A topic \in replaying :
    /\ alone \subseteq Range(_TOPIC_HANDLERS(topic))
    /\ Readable(topic) => \A key \in alone : Balanced("replay", key, Of(topic))

\* Within a run, what has become headless stays so.
LEMMA HeadlessStays ==
  ASSUME TypeOK, WorkersInv, NEW a \in Aggregates, Taken("replay", a),
         next["replay"][a] < Len(log[a]),
         passed' = passed \/ passed' = passed \cup {<<a, next["replay"][a] + 1>>},
         NEW b \in Aggregates, Headless(b)
  PROVE  Headless(b)'
<1>1. "replay" \in Workers
  BY DEF Workers
<1>2. /\ next'["replay"] = [next["replay"] EXCEPT ![a] = @ + 1]
      /\ next["replay"] \in [Aggregates -> 0..MaxEvents]
  BY <1>1, TakenEvent DEF TypeOK
<1>3. PICK n \in Nat : n = next["replay"][b]
  BY <1>2, ReadModelAssumption
<1>4. PICK m \in Nat : m = next["replay"][a]
  BY <1>2, ReadModelAssumption
<1>5. next'["replay"][b] >= 2
  BY <1>2, <1>3 DEF Headless
<1>6. <<b, 1>> \in passed /\ <<b, 2>> \notin passed /\ n >= 2
  BY <1>3 DEF Headless
<1>7. <<b, 2>> # <<a, m + 1>>
  BY <1>3, <1>4, <1>6
<1> QED
  BY <1>4, <1>5, <1>6, <1>7 DEF Headless

LEMMA RebuildStep == TypeOK /\ WorkersInv /\ RebuildInv /\ [Next]_vars => RebuildInv'
<1> SUFFICES ASSUME TypeOK, WorkersInv, RebuildInv, [Next]_vars, NEW topic \in replaying'
             PROVE  /\ alone' \subseteq Range(_TOPIC_HANDLERS(topic))
                    /\ Readable(topic)' =>
                         \A key \in alone' : Balanced("replay", key, Of(topic))'
  <2>1. \A t : _TOPIC_HANDLERS(t)' = _TOPIC_HANDLERS(t) /\ Of(t)' = Of(t)
    BY DEF _TOPIC_HANDLERS, Of
  <2> QED
    BY <2>1 DEF RebuildInv
<1> DEFINE Goal ==
             /\ alone' \subseteq Range(_TOPIC_HANDLERS(topic))
             /\ Readable(topic)' => \A key \in alone' : Balanced("replay", key, Of(topic))'
           r == "replay"
<1>0. /\ r \in Workers /\ r \notin Consumers /\ Consumers \subseteq Workers
      /\ \A v \in Workers : v \notin Consumers => v = r
      /\ alone \subseteq Keys /\ TypeOK' /\ topic \in Topic /\ Of(topic) \in SUBSET Aggregates
      /\ Unhandled(r) = passed /\ Unhandled(r)' = passed'
      /\ \A key : NoneNegative(key)' => NoneNegative(key)
  <2>1. TypeOK'
    BY TypeStep
  <2>2. topic \in Topic
    BY <2>1 DEF TypeOK
  <2>3. ASSUME NEW key, NoneNegative(key)' PROVE NoneNegative(key)
    BY <2>3, NoneNegativeBefore
  <2> QED
    BY <2>1, <2>2, <2>3 DEF Workers, Consumers, TypeOK, Topic, Of, Aggregates, Unhandled
\* Before the step, where the replay was on already.
<1>1. ASSUME replaying' = replaying, \A a \in Of(topic) : Headless(a) => Headless(a)'
      PROVE  /\ alone \subseteq Range(_TOPIC_HANDLERS(topic))
             /\ Readable(topic)' => /\ AllWhole
                                    /\ \A key \in alone : Balanced(r, key, Of(topic))
  <2>1. ASSUME Readable(topic)' PROVE AllWhole /\ \A a \in Of(topic) : ~Headless(a)
    <3>1. AllWhole' /\ \A a \in Of(topic) : ~Headless(a)'
      BY <2>1 DEF Readable, Of
    <3> QED
      BY <1>1, <3>1, WholeBefore
  <2> QED
    BY <1>1, <2>1 DEF RebuildInv, Readable
<1> HIDE DEF r
\* A step that leaves the replay where it is and only takes keys from alone.
<1>2. ASSUME replaying' = replaying, task'[r] = task[r], next'[r] = next[r], passed' = passed,
             alone' \subseteq alone, \A key \in alone' : value'[key] = value[key]
      PROVE  Goal
  <2>1. \A a \in Of(topic) : Headless(a) => Headless(a)'
    BY <1>2 DEF Headless, r
  <2>2. Readable(topic)' => \A key \in alone' : Balanced(r, key, Of(topic))'
    <3> SUFFICES ASSUME Readable(topic)', NEW key \in alone' PROVE Balanced(r, key, Of(topic))'
      OBVIOUS
    <3>1. PICK a \in SUBSET Aggregates : a = Of(topic)
      BY <1>0
    <3>2. Balanced(r, key, a) /\ key \in Keys
      BY <1>0, <1>1, <1>2, <2>1, <3>1
    <3>3. Balanced(r, key, a)'
      BY <1>0, <1>2, <3>2, BalancedKept
    <3> QED
      BY <3>1, <3>3 DEF Of
  <2> QED
    BY <1>1, <1>2, <2>1, <2>2 DEF r
\* A step of the replay that goes on with its task.
<1>3. ASSUME NEW w \in Workers, Get(w) \/ Set(w) \/ PublishUpdate(w)
      PROVE  Goal
  <2>1. /\ UNCHANGED <<log, next, replay, passed>> /\ alone' \subseteq alone
        /\ \A v \in Workers : v # w => task'[v] = task[v]
    BY <1>3, GetStep, SetStep, PublishStep DEF replay
  <2>2. CASE w # r
    <3>1. ASSUME NEW key \in alone' PROVE value'[key] = value[key]
      <4>1. CASE Set(w)
        <5> DEFINE head == Head(task[w].keys)
                   n == Applied(head, task[w].read, task[w].kind, Weight(head, task[w].agg))
        <5>1. /\ alone' = alone \ {head} /\ key \in Keys
              /\ value' = [value EXCEPT ![head] = n]
          BY <1>0, <2>1, <2>2, <3>1, <4>1, SetStep DEF r
        <5> HIDE DEF n, head
        <5> QED
          BY <3>1, <5>1 DEF TypeOK
      <4>2. CASE Get(w) \/ PublishUpdate(w)
        BY <4>2, GetStep, PublishStep
      <4> QED
        BY <1>3, <4>1, <4>2
    <3> QED
      BY <1>0, <1>2, <2>1, <2>2, <3>1 DEF replay
  <2>3. CASE w = r
    <3>1. \A a \in Of(topic) : Headless(a) => Headless(a)'
      BY <2>1 DEF Headless
    <3>2. Readable(topic)' => \A key \in alone' : Balanced(r, key, Of(topic))'
      <4> SUFFICES ASSUME Readable(topic)', NEW key \in alone' PROVE Balanced(r, key, Of(topic))'
        OBVIOUS
      <4>1. PICK a \in SUBSET Aggregates : a = Of(topic)
        BY <1>0
      <4>2. Balanced(r, key, a) /\ key \in Keys
        BY <1>0, <1>1, <2>1, <3>1, <4>1 DEF replay
      <4>3. Balanced(r, key, a)'
        BY <1>0, <1>3, <2>3, <4>2, BalancedGet, BalancedSet, BalancedPublish
      <4> QED
        BY <4>1, <4>3 DEF Of
    <3> QED
      BY <1>1, <2>1, <3>1, <3>2 DEF replay, r
  <2> QED
    BY <2>2, <2>3
<1>4. ASSUME NEW w \in Workers, Retry(w) PROVE Goal
  BY <1>0, <1>2, <1>4, RetryStep DEF replay
<1>5. ASSUME NEW w \in Consumers, NEW a \in Aggregates, Consume(w, a) \/ Skip(w, a) PROVE Goal
  <2>1. /\ next[w][a] < Len(log[a]) /\ Taken(w, a) /\ UNCHANGED <<value, replay, alone, passed>>
    BY <1>5 DEF Consume, Skip
  <2>2. next'[r] = next[r]
    BY <1>0, <2>1, TakenEvent
  <2>3. task'[r] = task[r]
    BY <1>0, <1>5, ConsumeStep DEF Skip
  <2> QED
    BY <1>2, <2>1, <2>2, <2>3 DEF replay
<1>6. ASSUME NEW a \in Aggregates, Replay(a) PROVE Goal
  <2>1. /\ next[r][a] < Len(log[a]) /\ Taken(r, a) /\ UNCHANGED <<log, value, replaying, alone>>
        /\ a \in Subscribed(r) /\ task[r] = Idle
    BY <1>6 DEF Replay, r
  <2>2. a \in Of(topic) /\ replaying' = replaying
    BY <1>0, <2>1 DEF Subscribed, r, TypeOK
  <2> DEFINE id == <<a, next[r][a] + 1>>
  <2>3. \/ UNCHANGED task /\ passed' = passed \cup {id}
        \/ /\ UNCHANGED passed /\ task'[r].pc = "get" /\ task'[r].agg = a
           /\ task'[r].kind = log[a][next[r][a] + 1] /\ task'[r].keys = HandledBy(r, a)
    BY <1>6, ReplayStep DEF r
  <2>4. \A b \in Of(topic) : Headless(b) => Headless(b)'
    BY <1>0, <2>1, <2>3, HeadlessStays DEF r
  <2>5. Readable(topic)' => \A key \in alone' : Balanced(r, key, Of(topic))'
    <3> SUFFICES ASSUME Readable(topic)', NEW key \in alone' PROVE Balanced(r, key, Of(topic))'
      OBVIOUS
    <3>1. PICK aggs \in SUBSET Aggregates : aggs = Of(topic)
      BY <1>0
    <3>2. Balanced(r, key, aggs) /\ key \in Keys /\ Whole(a) /\ a \in aggs /\ a \in Aggregates
      BY <1>0, <1>1, <2>1, <2>2, <2>4, <3>1 DEF AllWhole
    <3>3. CASE UNCHANGED task /\ passed' = passed \cup {id}
      <4>1. Balanced("replay", key, aggs)'
        BY <1>0, <2>1, <3>2, <3>3, BalancedPassed DEF r
      <4> QED
        BY <3>1, <4>1 DEF Of, r
    <3>4. CASE /\ UNCHANGED passed /\ task'[r].pc = "get" /\ task'[r].agg = a
               /\ task'[r].kind = log[a][next[r][a] + 1] /\ task'[r].keys = HandledBy(r, a)
      <4>1. HandledBy(r, a) = _TOPIC_HANDLERS(topic)
        BY <1>0, <2>2, TopicOf DEF r
      <4>2. key \in Range(task'[r].keys)
        BY <1>1, <2>1, <2>2, <2>4, <3>4, <4>1
      <4>3. next[r][a] \in Nat /\ next'[r][a] = next[r][a] + 1
        <5>1. next[r] \in [Aggregates -> 0..MaxEvents]
          BY <1>0 DEF TypeOK
        <5>2. next'[r] = [next[r] EXCEPT ![a] = @ + 1]
          BY <1>0, <2>1, TakenEvent
        <5> QED
          BY <3>2, <5>1, <5>2, ReadModelAssumption
      <4>4. \A s \in passed : s[2] <= next[r][s[1]]
        BY DEF WorkersInv, Skipped, r
      <4>5. id \notin passed
        BY <4>3, <4>4
      <4>6. next[r][a] = 1 => <<a, 1>> \notin passed
        <5>1. ~Headless(a)'
          BY <2>2 DEF Readable, Of
        <5> QED
          BY <3>4, <4>3, <4>5, <5>1 DEF Headless, r
      <4>7. Balanced(r, key, aggs)'
        BY <1>0, <2>1, <3>2, <3>4, <4>2, <4>5, <4>6, BalancedTake
      <4> QED
        BY <3>1, <4>7 DEF Of
    <3> QED
      BY <2>3, <3>3, <3>4
  <2> QED
    BY <1>1, <2>1, <2>2, <2>4, <2>5 DEF r
<1>7. ASSUME NEW t \in Topic, StartReplay(t) PROVE Goal
  <2>1. /\ topic = t /\ replaying = {} /\ alone' = Absent(topic)
        /\ UNCHANGED <<log, next, task, value, passed>>
    BY <1>7 DEF StartReplay
  <2>2. Absent(topic) \subseteq Range(_TOPIC_HANDLERS(topic))
        /\ \A key \in Absent(topic) : value[key] = NoKey
    BY DEF Absent
  <2>3. ASSUME NEW key \in alone' PROVE Balanced(r, key, Of(topic))'
    <3>1. key \in Keys /\ value'[key] = NoKey
      BY <1>0, <2>1, <2>2, <2>3 DEF TypeOK
    <3>2. task'[r] = Idle /\ next'[r] = [a \in Aggregates |-> 0]
      BY <2>1 DEF WorkersInv, ReplayTask, r
    <3>3. PICK aggs \in SUBSET Aggregates : aggs = Of(topic)
      BY <1>0
    <3>4. \A a \in aggs : next'[r][a] = 0
      BY <1>0, <3>2
    <3>5. Net(key, aggs, next'[r], passed') = 0
      BY <3>1, <3>4, NetType
    <3>6. Current(key)' = 0
      BY <3>1 DEF Current
    <3>7. Reaches(Current(key)', Net(key, aggs, next'[r], Unhandled(r)'), NoneNegative(key)')
      BY <1>0, <3>5, <3>6 DEF Reaches
    <3>8. key \notin Due(task'[r])
      BY <3>2, DueFacts
    <3>9. Balanced(r, key, aggs)'
      BY <3>7, <3>8 DEF Balanced
    <3> QED
      BY <3>3, <3>9 DEF Of
  <2> QED
    BY <2>1, <2>2, <2>3 DEF r
<1>8. ASSUME NEW a \in Aggregates, \/ \E kind \in Kinds : Make(a, kind)
                                   \/ a \in Orders /\ CompleteOrder(a)
      PROVE  Goal
  BY <1>2, <1>8 DEF Make, CompleteOrder, replay
<1>9. ASSUME NEW key \in Keys, Expire(key) PROVE Goal
  <2>1. /\ UNCHANGED <<next, task, replay, passed>> /\ alone' = alone \ {key}
        /\ \A k \in alone' : value'[k] = value[k]
    BY <1>0, <1>9 DEF Expire, TypeOK
  <2> QED
    BY <1>2, <2>1 DEF replay
<1>10. ASSUME Flush PROVE Goal
  BY <1>2, <1>10 DEF Flush
<1>11. CASE UNCHANGED vars
  BY <1>2, <1>11 DEF vars
<1>12. ~EndReplay
  BY DEF EndReplay
<1> QED
  BY <1>3, <1>4, <1>5, <1>6, <1>7, <1>8, <1>9, <1>10, <1>11, <1>12 DEF Next, Aggregates, r

-----------------------------------------------------------------------------
(* The theorems *)

\* All of it.
Inv == TypeOK /\ WorkersInv /\ BoundedAll /\ ExactInv /\ RebuildInv

LEMMA Initially == Init => Inv
<1> SUFFICES ASSUME Init PROVE Inv
  OBVIOUS
<1>1. TypeOK
  BY ReadModelAssumption DEF Init, TypeOK, Task
<1>2. WorkersInv
  <2>1. \A a \in Aggregates : Len(log[a]) = 0
    BY DEF Init
  <2>2. \A a \in Aggregates : LogsTell(a)
    BY <2>1 DEF LogsTell
  <2> QED
    BY <2>1, <2>2, ReadModelAssumption
       DEF Init, WorkersInv, OwnKey, OwnRead, Skipped, ReplayTask, Consumers, Workers, Idle
<1>3. \A w \in Workers : task[w] = Idle /\ \A a \in Aggregates : next[w][a] = 0
  BY DEF Init
<1>4. \A key \in Keys : Current(key) = 0
  BY DEF Init, Current
<1>5. BoundedAll
  <2> SUFFICES ASSUME NEW w \in Consumers PROVE Bounded(w)
    BY DEF BoundedAll
  <2>1. Bound(w) \in Nat /\ InHand(w) = 0 /\ task[w].pc = "idle" /\ Current(KeyOf(w)) = 0
    BY <1>1, <1>2, <1>3, <1>4, ConsumerFacts, BoundType DEF InHand, Idle
  <2> QED
    BY <2>1 DEF Bounded
<1>6. ExactInv
  <2> SUFFICES ASSUME NEW w \in Consumers PROVE Balanced(w, KeyOf(w), Subscribed(w))
    BY DEF ExactInv
  <2>1. Subscribed(w) \in SUBSET Aggregates
    BY DEF Subscribed, Consumers, Aggregates
  <2>2. Net(KeyOf(w), Subscribed(w), next[w], Unhandled(w)) = 0
    BY <1>3, <2>1, ConsumerFacts, NetType
  <2>3. KeyOf(w) \notin Due(task[w])
    BY <1>3, ConsumerFacts, DueFacts
  <2> QED
    BY <1>4, <2>2, <2>3, ConsumerFacts DEF Balanced, Reaches
<1>7. RebuildInv
  BY DEF Init, RebuildInv
<1> QED
  BY <1>1, <1>2, <1>5, <1>6, <1>7 DEF Inv

\* Inv is inductive: no step of a handler, the replay or Redis leaves it.
THEOREM ReadModelInv == Spec => []Inv
<1>1. Inv /\ [Next]_vars => Inv'
  BY TypeStep, BoundedStep, ExactStep, RebuildStep DEF Inv
<1> QED
  BY Initially, <1>1, PTL DEF Spec

\* Every total is absent or a number, of the revenue and the booking count one
\* from zero up whatever the amounts' signs; the restaurant's sales have no floor.
THEOREM ReadModelType == Spec => []TypeOK
<1>1. Inv => TypeOK
  BY DEF Inv
<1> QED
  BY <1>1, ReadModelInv, PTL

\* A total no event was handled twice for is at most what still stands of its
\* topics' additions, counting as standing what a removal that was skipped or came
\* first should have taken back; nothing else leaves it too high.
THEOREM ReadModelNeverOverstated == Spec => []NeverOverstated
<1>1. Inv => NeverOverstated
  BY BoundedOverstated DEF Inv
<1> QED
  BY <1>1, ReadModelInv, PTL

\* However the consumers' GETs and SETs interleave, a total that missed no event
\* and had none twice is at least what its consumer has handled, and exactly that
\* unless an amount below zero has made the floor bite.
THEOREM ReadModelExact == Spec => []Exact
<1>1. Inv => Exact
  <2> SUFFICES ASSUME ExactInv, NEW w \in Consumers, task[w] = Idle, AllWhole,
                      KeyOf(w) \notin disturbed \cup repeated
               PROVE  Reaches(Current(KeyOf(w)), Net(KeyOf(w), Subscribed(w), next[w], {}),
                              NoneNegative(KeyOf(w)))
    BY DEF Inv, Exact, AllWhole, Reaches
  <2>1. Balanced(w, KeyOf(w), Subscribed(w)) /\ KeyOf(w) \notin Due(task[w])
    BY DueFacts DEF ExactInv
  <2>2. Unhandled(w) = {}
    BY ConsumerFacts DEF Unhandled
  <2> QED
    BY <2>1, <2>2 DEF Balanced
<1> QED
  BY <1>1, ReadModelInv, PTL

\* replay(topic, None) into absent keys no consumer sets meanwhile makes them what
\* the records add up to that no earlier run has marked as seen, and nothing else:
\* a second run within a day adds nothing of what the first has read.
THEOREM ReadModelRebuildsUnseen == Spec => []RebuildsUnseen
<1>1. Inv => RebuildsUnseen
  <2> SUFFICES ASSUME RebuildInv, NEW topic \in replaying, CaughtUp("replay"), AllWhole,
                      \A a \in Of(topic) : ~Headless(a), NEW key \in alone
               PROVE  Reaches(Current(key), Net(key, Of(topic), next["replay"], passed),
                              NoneNegative(key))
    BY DEF Inv, RebuildsUnseen, AllWhole, Reaches
  <2>1. Balanced("replay", key, Of(topic))
    BY DEF RebuildInv, Readable
  <2>2. key \notin Due(task["replay"])
    BY DueFacts DEF CaughtUp
  <2> QED
    BY <2>1, <2>2 DEF Balanced, Unhandled
<1> QED
  BY <1>1, ReadModelInv, PTL
=============================================================================
