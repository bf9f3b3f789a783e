------------------------------ MODULE Delivery ------------------------------
(***************************************************************************)
(* What a consumer of app/consumers promises its handler, whatever Redis,  *)
(* the broker and the process do: events are taken from each topic in the  *)
(* order of its log, one at a time, and an event taken in hand is let go   *)
(* only                                                                    *)
(*   - after its effect,                                                   *)
(*   - into a dead-letter topic,                                           *)
(*   - as a duplicate, if it has had its effect, was dead-lettered or lost,*)
(*   - or lost: the process or the task ended or was told to stop, or      *)
(*     Redis did not answer.                                               *)
(* The effect comes a second time only of an event that is exposed: one    *)
(* whose key was not set, has expired, or whose handler raised after it.   *)
(*                                                                         *)
(* Nothing is said of how: no keys, no retries, no committed offsets.      *)
(* EventConsumer implements this specification.  ReadModel's consumers do  *)
(* with an event what it allows; there a second effect comes of a retry    *)
(* only, not of a redelivery.                                              *)
(***************************************************************************)
EXTENDS Integers, Sequences

CONSTANTS Topics, Ids

VARIABLES
  log,       \* the topics' records
  position,  \* how far the consumer has come in each topic
  hand,      \* the event being processed, or none
  effects,   \* how often each event has had its effect
  dead,      \* events dead-lettered
  lost,      \* events lost, for once at least
  exposed    \* events that may have their effect again

vars == <<log, position, hand, effects, dead, lost, exposed>>

\* The event has had an end: a duplicate of it may be dropped.
Ended(id) == effects[id] > 0 \/ id \in dead \cup lost

Publish(t, id) ==
  /\ log' = [log EXCEPT ![t] = Append(@, id)]
  /\ UNCHANGED <<position, hand, effects, dead, lost, exposed>>

\* The next event of a topic.  What cannot even be looked at, or comes when the
\* consumer has been told to stop, is lost at once.
Take(t) ==
  /\ hand = {} /\ position[t] < Len(log[t])
  /\ position' = [position EXCEPT ![t] = @ + 1]
  /\ LET id == log[t][position[t] + 1] IN
     \/ hand' = {id} /\ UNCHANGED lost
     \/ lost' = lost \cup {id} /\ UNCHANGED hand
  /\ UNCHANGED <<log, effects, dead, exposed>>

Drop(id) ==
  /\ hand = {id} /\ Ended(id)
  /\ hand' = {}
  /\ UNCHANGED <<log, position, effects, dead, lost, exposed>>

\* The handler has its effect and returns.
Handle(id) ==
  /\ hand = {id}
  /\ effects[id] = 0 \/ id \in exposed
  /\ effects' = [effects EXCEPT ![id] = @ + 1]
  /\ hand' = {}
  /\ UNCHANGED <<log, position, dead, lost, exposed>>

\* The handler has its effect and raises: the event stays in hand, exposed.
HandleInVain(id) ==
  /\ hand = {id}
  /\ effects[id] = 0 \/ id \in exposed
  /\ effects' = [effects EXCEPT ![id] = @ + 1]
  /\ exposed' = exposed \cup {id}
  /\ UNCHANGED <<log, position, hand, dead, lost>>

DeadLetter(id) ==
  /\ hand = {id}
  /\ dead' = dead \cup {id}
  /\ hand' = {}
  /\ UNCHANGED <<log, position, effects, lost, exposed>>

\* The process or the task ends, its last dead letter filed or not.
BreakOff(id) ==
  /\ hand = {id}
  /\ lost' = lost \cup {id}
  /\ dead' \in {dead, dead \cup {id}}
  /\ hand' = {}
  /\ UNCHANGED <<log, position, effects, exposed>>

\* Redis sets the key and does not answer, or does not answer at all.
Unanswered(id) ==
  /\ hand = {id}
  /\ lost' \in {lost, lost \cup {id}}
  /\ exposed' \in {exposed, exposed \cup {id}}
  /\ UNCHANGED <<log, position, hand, effects, dead>>

\* The event's key expires.
Expose(id) ==
  /\ exposed' = exposed \cup {id}
  /\ UNCHANGED <<log, position, hand, effects, dead, lost>>

\* The consumer starts again, from where its group has come to or behind it.
Resume ==
  /\ hand = {}
  /\ position' \in [Topics -> Nat]
  /\ \A t \in Topics : position'[t] <= position[t]
  /\ UNCHANGED <<log, hand, effects, dead, lost, exposed>>

Init ==
  /\ log = [t \in Topics |-> <<>>]
  /\ position = [t \in Topics |-> 0]
  /\ hand = {}
  /\ effects = [id \in Ids |-> 0]
  /\ dead = {} /\ lost = {} /\ exposed = {}

Next ==
  \/ \E t \in Topics : Take(t) \/ \E id \in Ids : Publish(t, id)
  \/ \E id \in Ids :
       \/ Drop(id) \/ Handle(id) \/ HandleInVain(id) \/ DeadLetter(id)
       \/ BreakOff(id) \/ Unanswered(id) \/ Expose(id)
  \/ Resume

Spec == Init /\ [][Next]_vars
=============================================================================
