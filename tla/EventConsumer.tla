--------------------------- MODULE EventConsumer ---------------------------
(***************************************************************************)
(* One consumer of the worker fleet: BaseConsumer of app/consumers/base.py *)
(* with its topics, its committed offsets, its `seen` keys in Redis, its   *)
(* handler and its dead-letter topics, through crashes, shutdowns, Redis   *)
(* outages, handler errors and duplicate records.                          *)
(*                                                                         *)
(* A record is the id of the event it carries; Shape says what its bytes   *)
(* decode to.  Kafka auto-commits the position of the consumer, the record *)
(* being processed included (enable_auto_commit=True), and the event is    *)
(* marked seen before its handler runs.                                    *)
(***************************************************************************)
EXTENDS Integers, Sequences

CONSTANTS
  Topics,
  FirstTopic,    \* the consumer's topics[0]
  Ids,           \* event ids
  TopicOf,       \* the topic an event is published to
  Shape,         \* what a record decodes to: "event", "garbage" or "nonObject"
  MaxRetries,    \* KAFKA_MAX_RETRIES
  MaxRecords,    \* bound: records per topic
  MaxExits       \* bound: times the worker process ends

ASSUME ConsumerAssumption ==
  /\ FirstTopic \in Topics
  /\ TopicOf \in [Ids -> Topics]
  /\ Shape \in [Ids -> {"event", "garbage", "nonObject"}]
  /\ MaxRetries \in Nat /\ MaxRecords \in Nat /\ MaxExits \in Nat

VARIABLES
  log,        \* the topics' records
  committed,  \* the group's committed offsets, on the broker
  position,   \* records delivered to the running consumer
  pc,         \* what the consumer's task is doing
  cur,        \* the record being processed
  attempt,    \* failures of the current retry loop
  stopping,   \* the shutdown signal was handled: _stop_event is set
  seen,       \* Redis keys event:seen:{consumer}:{id}
  applied,    \* how often an event's handler had its effect
  dlq,        \* dead-letter records: the topic they were filed under, the id
  exits,      \* times the process has ended
  brokenOff,  \* history: events whose processing ended without an outcome
  uncovered   \* history: events dedup no longer protects

env == <<log, exits>>
redis == <<seen, applied>>
history == <<brokenOff, uncovered>>
vars == <<log, committed, position, pc, cur, attempt, stopping, seen, applied,
          dlq, exits, brokenOff, uncovered>>

Place == [topic : Topics, offset : Nat]

DeadLetter == [topic : Topics, id : Ids]

None == [topic |-> FirstTopic, offset |-> 0]

InProcess == {"mark", "handle", "deadLetter"}

CurId == log[cur.topic][cur.offset]

-----------------------------------------------------------------------------
(* The topics *)

\* A producer appends an event; a retried send can append it again.
Produce(id) ==
  LET t == TopicOf[id] IN
  /\ Len(log[t]) < MaxRecords
  /\ log' = [log EXCEPT ![t] = Append(@, id)]
  /\ UNCHANGED <<committed, position, pc, cur, attempt, stopping, redis, dlq, exits, history>>

\* aiokafka's background commit of the position of every topic.
AutoCommit ==
  /\ pc \in InProcess \cup {"polling"}
  /\ ~stopping
  /\ committed' = position
  /\ UNCHANGED <<env, position, pc, cur, attempt, stopping, redis, dlq, history>>

-----------------------------------------------------------------------------
(* run and _process_record *)

\* run is left, by an exception or by its break: its `finally` stops the consumer,
\* which commits its position if the broker still answers; nothing starts the
\* task again.
TaskDies(pos) ==
  /\ pc' = "dead"
  /\ committed' \in {committed, pos}
  /\ cur' = None
  /\ attempt' = 0

\* Bytes that do not decode go to the dead-letter topic as they are; JSON that
\* is not an object has no `get`, outside any try.
Fetch(t) ==
  /\ pc = "polling"
  /\ ~stopping
  /\ position[t] < Len(log[t])
  /\ LET pos == [position EXCEPT ![t] = @ + 1]
         id == log[t][position[t] + 1]
     IN /\ position' = pos
        /\ IF Shape[id] = "nonObject"
           THEN /\ TaskDies(pos)
                /\ brokenOff' = brokenOff \cup {id}
           ELSE /\ pc' = IF Shape[id] = "event" THEN "mark" ELSE "deadLetter"
                /\ cur' = [topic |-> t, offset |-> position[t] + 1]
                /\ UNCHANGED <<committed, attempt, brokenOff>>
  /\ UNCHANGED <<env, stopping, redis, dlq, uncovered>>

\* A record the iterator hands over after the stop event was set: the position
\* is past it, and run breaks without looking at it.
Discard(t) ==
  /\ pc = "polling"
  /\ stopping
  /\ position[t] < Len(log[t])
  /\ LET pos == [position EXCEPT ![t] = @ + 1] IN
     /\ position' = pos
     /\ TaskDies(pos)
  /\ brokenOff' = brokenOff \cup {log[t][position[t] + 1]}
  /\ UNCHANGED <<env, stopping, redis, dlq, uncovered>>

\* The record is done with.
Finish == pc' = "polling" /\ cur' = None /\ attempt' = 0

\* Mutation: the consumer checks for the key and sets it only after the handler.
CheckSeenOnly ==
  /\ pc = "mark"
  /\ IF CurId \in seen
     THEN Finish
     ELSE pc' = "handle" /\ attempt' = 0 /\ UNCHANGED cur
  /\ UNCHANGED <<env, committed, position, stopping, redis, dlq, history>>

\* mark_event_seen answers: SET NX created the key, or the event is a duplicate.
MarkSeen ==
  /\ pc = "mark"
  /\ IF CurId \in seen
     THEN /\ Finish
          /\ UNCHANGED seen
     ELSE /\ seen' = seen \cup {CurId}
          /\ pc' = "handle"
          /\ attempt' = 0
          /\ UNCHANGED cur
  /\ UNCHANGED <<env, committed, position, stopping, applied, dlq, history>>

\* Mutation: the retry counter starts over and the check is never given up.
MarkFailsForever ==
  /\ pc = "mark"
  /\ seen' \in {seen, seen \cup {CurId}}
  /\ brokenOff' = brokenOff \cup (seen' \ seen)
  /\ attempt' = IF attempt < MaxRetries THEN attempt + 1 ELSE 0
  /\ UNCHANGED <<env, committed, position, pc, cur, stopping, applied, dlq, uncovered>>

\* mark_event_seen raises, whether or not Redis had set the key: a retry that
\* finds the key takes the event for a duplicate.  After MaxRetries retries the
\* event is processed without dedup.
MarkFails ==
  /\ pc = "mark"
  /\ seen' \in {seen, seen \cup {CurId}}
  /\ brokenOff' = brokenOff \cup (seen' \ seen)
  /\ IF attempt < MaxRetries
     THEN /\ attempt' = attempt + 1
          /\ UNCHANGED <<pc, uncovered>>
     ELSE /\ pc' = "handle"
          /\ attempt' = 0
          /\ uncovered' = uncovered \cup {CurId}
  /\ UNCHANGED <<env, committed, position, cur, stopping, applied, dlq>>

\* The handler returns.
Handle ==
  /\ pc = "handle"
  /\ applied' = [applied EXCEPT ![CurId] = @ + 1]
  /\ Finish
  /\ UNCHANGED <<env, committed, position, stopping, seen, dlq, history>>

\* Mutation: the record is given up after the last retry, without a dead letter.
HandleFailsQuietly ==
  /\ pc = "handle"
  /\ IF attempt < MaxRetries
     THEN attempt' = attempt + 1 /\ UNCHANGED <<pc, cur>>
     ELSE Finish
  /\ UNCHANGED <<env, committed, position, stopping, redis, dlq, history>>

\* Mutation: one retry too many.
HandleFailsOnceMore ==
  /\ pc = "handle"
  /\ IF attempt <= MaxRetries
     THEN attempt' = attempt + 1 /\ UNCHANGED pc
     ELSE attempt' = 0 /\ pc' = "deadLetter"
  /\ UNCHANGED <<env, committed, position, cur, stopping, redis, dlq, history>>

\* The handler raises, before its effect or after it (its last call publishes
\* the dashboard update); MaxRetries retries, then the dead-letter topic.
HandleFails ==
  /\ pc = "handle"
  /\ \/ UNCHANGED <<applied, uncovered>>
     \/ /\ applied' = [applied EXCEPT ![CurId] = @ + 1]
        /\ uncovered' = uncovered \cup {CurId}
  /\ IF attempt < MaxRetries
     THEN attempt' = attempt + 1 /\ UNCHANGED pc
     ELSE attempt' = 0 /\ pc' = "deadLetter"
  /\ UNCHANGED <<env, committed, position, cur, stopping, seen, dlq, brokenOff>>

\* Where a dead letter is filed: raw bytes under the record's own topic, a
\* failed event under topics[0], whatever topic it came from (_current_topic).
Filed == [topic |-> IF Shape[CurId] = "event" THEN FirstTopic ELSE cur.topic, id |-> CurId]

\* Mutation: the producer's send is not awaited (send in place of send_and_wait).
SendDeadLetterUnawaited ==
  /\ pc = "deadLetter"
  /\ dlq' \in {dlq, dlq \cup {Filed}}
  /\ Finish
  /\ UNCHANGED <<env, committed, position, stopping, redis, history>>

SendDeadLetter ==
  /\ pc = "deadLetter"
  /\ dlq' = dlq \cup {Filed}
  /\ Finish
  /\ UNCHANGED <<env, committed, position, stopping, redis, history>>

\* The send raises, with the dead letter filed or not, and the task ends.
DeadLetterFails ==
  /\ pc = "deadLetter"
  /\ TaskDies(position)
  /\ dlq' \in {dlq, dlq \cup {Filed}}
  /\ brokenOff' = brokenOff \cup {CurId}
  /\ UNCHANGED <<env, position, stopping, redis, uncovered>>

-----------------------------------------------------------------------------
(* The worker process, and Redis' clock *)

\* consumer_worker.main on a signal: stop() sets the stop event and closes the
\* Kafka consumer, which commits its position, while the task may still be
\* processing; the task is cancelled after that.
Shutdown ==
  /\ pc \in InProcess \cup {"polling"}
  /\ ~stopping
  /\ stopping' = TRUE
  /\ committed' \in {committed, position}
  /\ UNCHANGED <<env, position, pc, cur, attempt, redis, dlq, history>>

\* The process ends: killed, or at the end of its shutdown.
Exit ==
  /\ pc # "down"
  /\ exits < MaxExits
  /\ exits' = exits + 1
  /\ pc' = "down"
  /\ brokenOff' = IF pc \in InProcess THEN brokenOff \cup {CurId} ELSE brokenOff
  /\ cur' = None
  /\ attempt' = 0
  /\ UNCHANGED <<log, committed, position, stopping, redis, dlq, uncovered>>

\* The process starts and the group resumes at its committed offsets; a start()
\* that raises ends the task before it has polled.
Start ==
  /\ pc = "down"
  /\ pc' \in {"polling", "dead"}
  /\ position' = committed
  /\ stopping' = FALSE
  /\ UNCHANGED <<env, committed, cur, attempt, redis, dlq, history>>

\* A seen key outlives its day.
Expire(id) ==
  /\ id \in seen
  /\ seen' = seen \ {id}
  /\ uncovered' = uncovered \cup {id}
  /\ UNCHANGED <<env, committed, position, pc, cur, attempt, stopping, applied, dlq, brokenOff>>

-----------------------------------------------------------------------------

Init ==
  /\ log = [t \in Topics |-> <<>>]
  /\ committed = [t \in Topics |-> 0]
  /\ position = [t \in Topics |-> 0]
  /\ pc = "down"
  /\ cur = None
  /\ attempt = 0
  /\ stopping = FALSE
  /\ seen = {}
  /\ applied = [id \in Ids |-> 0]
  /\ dlq = {}
  /\ exits = 0
  /\ brokenOff = {}
  /\ uncovered = {}

\* A step of the consumer's task before it is told to stop, or on the record it
\* has by then.
Work ==
  \/ \E t \in Topics : Fetch(t)
  \/ MarkSeen
  \/ MarkFails
  \/ Handle
  \/ HandleFails
  \/ SendDeadLetter
  \/ DeadLetterFails

Next ==
  \/ \E id \in Ids : Produce(id)
  \/ AutoCommit
  \/ Work
  \/ \E t \in Topics : Discard(t)
  \/ Shutdown
  \/ Exit
  \/ Start
  \/ \E id \in Ids : Expire(id)

Spec == Init /\ [][Next]_vars

\* The event loop runs the task whenever it can take a step; nothing says that
\* Redis, the broker or the handler ever stop failing.
FairSpec == Spec /\ WF_vars(Work)

-----------------------------------------------------------------------------

Types ==
  /\ log \in [Topics -> Seq(Ids)]
  /\ committed \in [Topics -> Nat]
  /\ position \in [Topics -> Nat]
  /\ pc \in InProcess \cup {"down", "polling", "dead"}
  /\ cur \in Place
  /\ attempt \in 0..MaxRetries
  /\ stopping \in BOOLEAN
  /\ seen \subseteq Ids
  /\ applied \in [Ids -> Nat]
  /\ dlq \subseteq DeadLetter
  /\ exits \in 0..MaxExits
  /\ brokenOff \subseteq Ids
  /\ uncovered \subseteq Ids

\* The group never commits a record it was not given, and a record in process
\* is one of the log.
Offsets ==
  /\ \A t \in Topics : committed[t] <= position[t] /\ position[t] <= Len(log[t])
  /\ pc \in InProcess => 1 <= cur.offset /\ cur.offset <= position[cur.topic]

\* Every identifier is one of its kind, retries stay within KAFKA_MAX_RETRIES,
\* and the offsets are in order: committed, delivered, produced.
TypeOK == Types /\ Offsets

\* The event was handled or dead-lettered.
Outcome(id) == applied[id] > 0 \/ \E d \in dlq : d.id = id

\* Retries, duplicates, Redis outages and dead-lettering lose nothing: an event
\* the consumer has been given has an outcome, or is in process, unless its
\* processing was broken off by the end of the process or of the task, or by a
\* SET NX whose answer was lost, or it was handed over after the stop event and
\* discarded.
AccountedFor ==
  \A t \in Topics : \A n \in 1..position[t] :
    LET id == log[t][n] IN
    \/ Outcome(id)
    \/ pc \in InProcess /\ cur = [topic |-> t, offset |-> n]
    \/ id \in brokenOff

\* The handler has its effect at most once per event, whatever is redelivered
\* or produced twice, as long as the key was set and has not expired and no
\* handler raised after its effect.
AppliedOnce == \A id \in Ids \ uncovered : applied[id] <= 1

\* What Delivery speaks of.
Contract == INSTANCE Delivery WITH
  hand <- IF pc \in InProcess THEN {CurId} ELSE {},
  effects <- applied, dead <- {d.id : d \in dlq},
  lost <- brokenOff, exposed <- uncovered

\* The consumer implements Delivery: through redelivery, duplicates, retries,
\* outages of Redis, expired keys, dead letters, shutdowns and crashes, an event
\* is let go, and has its effect again, only in the ways Delivery allows.
Delivery == Contract!Spec

\* "Lag drains to 0 automatically" (docs/PHASE7_COMPLETION.md, bug 6): the task
\* gets through its topics even if every call it makes keeps failing, unless it
\* has died, has been told to stop or the process is gone.
LagDrains ==
  <>[](\/ pc \in {"dead", "down"} \/ stopping
       \/ pc = "polling" /\ \A t \in Topics : position[t] = Len(log[t]))

\* "At-least-once delivery" (docs/PHASE7_COMPLETION.md): a well-formed event
\* behind the committed offset has an outcome or is being processed.
AtLeastOnce ==
  \A t \in Topics : \A n \in 1..committed[t] :
    \/ Outcome(log[t][n])
    \/ pc \in InProcess /\ CurId = log[t][n]
    \/ Shape[log[t][n]] # "event"
=============================================================================
