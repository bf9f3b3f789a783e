------------------------------ MODULE Bookings ------------------------------
(***************************************************************************)
(* The reservation life cycle of app/services/booking.py: requests served  *)
(* by one asyncio process, each with its own AsyncSession, over the        *)
(* reservations and rooms tables and the booking.events topic.             *)
(*                                                                         *)
(* A request gives up the event loop at every `await`, so each action is   *)
(* one database statement, one commit or one publish, and requests of      *)
(* different clients interleave between them.  A session keeps the row it  *)
(* read (expire_on_commit=False) and BaseRepository.update writes the      *)
(* changed columns without looking at the row again: a request carries the *)
(* row it has seen in `seen`.                                              *)
(*                                                                         *)
(* A commit and its event are told apart by the status they announce:      *)
(* "PENDING" stands for ReservationCreated, "CONFIRMED" for                *)
(* ReservationConfirmed, and so on; "UPDATED" is ReservationUpdated.       *)
(***************************************************************************)
EXTENDS Integers, Sequences

CONSTANTS
  Clients,       \* concurrent HTTP requests, one at a time per client
  Reservations,  \* reservation ids the database may hand out
  Rooms,
  Days,          \* calendar days, as numbers
  StaffChoices,  \* bound: the room statuses staff write, any of RoomStatus
  MaxCommits     \* bound: commits to the reservations table in a behaviour


VARIABLES
  rows,         \* table reservations: the ids inserted so far and their rows
  roomStatus,   \* table rooms, column status
  req,          \* what each client's request is about to do
  connected,    \* KafkaEventPublisher._producer is not None
  events,       \* topic booking.events
  commits,      \* history: every commit to the reservations table, in order
  dropped,      \* history: the commits whose event can no longer be published
  lastStay,     \* history: the reservation whose check-in or check-out was the
                \* last to settle the room's status ({} if staff did, or nobody)
  unsettled     \* history: the reservations whose last check-in or check-out was
                \* committed and broke off before it came to the room

rooms == <<roomStatus, lastStay, unsettled>>
vars == <<rows, rooms, req, connected, events, commits, dropped>>

Status == {"PENDING", "CONFIRMED", "CHECKED_IN", "CHECKED_OUT", "CANCELLED", "NO_SHOW"}

RoomStatus == {"AVAILABLE", "OCCUPIED", "MAINTENANCE", "CLEANING"}

ASSUME BookingsAssumption ==
  Days \subseteq Nat /\ MaxCommits \in Nat /\ StaffChoices \subseteq RoomStatus

\* The statuses confirm, check_in, check_out and cancel ask for; no handler
\* asks for NO_SHOW.
Targets == {"CONFIRMED", "CHECKED_IN", "CHECKED_OUT", "CANCELLED"}

Kinds == Targets \cup {"PENDING", "UPDATED"}

_TRANSITIONS == {
  <<"PENDING", "CONFIRMED">>, <<"PENDING", "CANCELLED">>,
  <<"CONFIRMED", "CHECKED_IN">>, <<"CONFIRMED", "CANCELLED">>, <<"CONFIRMED", "NO_SHOW">>,
  <<"CHECKED_IN", "CHECKED_OUT">> }

\* A date the payload of an update leaves out (exclude_none).
Absent == -1

Given == Days \cup {Absent}

Row == [room : Rooms, ci : Days, co : Days, status : Status]

Idle == [pc |-> "idle"]

Inserting == [pc : {"insert"}, room : Rooms, ci : Days, co : Days]

\* `conflict` is between the read and has_conflict, `write` between the last
\* check and the commit.
Writing == [pc : {"conflict", "write"}, kind : Kinds \ {"PENDING"}, res : Reservations,
            seen : Row, ci : Given, co : Given]

\* The request has committed (index `commit` of `commits`); `sent` is the id of
\* its event if the broker has that already, or 0.
Finishing == [pc : {"readRoom", "setRoom", "publish"}, kind : Kinds,
              res : Reservations, commit : 1..MaxCommits, sent : Nat]

Request == {Idle} \cup Inserting \cup Writing \cup Finishing

\* `id` is the event_id, by which consumers recognise an event: its first place
\* in the topic.
Event == [id : Nat, kind : Kinds, res : Reservations, commit : 1..MaxCommits]

Commit == [kind : Kinds, res : Reservations]

\* The commit no event tells of as long as the request does not publish it.
Held(q) ==
  IF q.pc \in {"readRoom", "setRoom", "publish"} /\ q.sent = 0 THEN {q.commit} ELSE {}

-----------------------------------------------------------------------------
(* ReservationRepository.has_conflict *)

Released == {"CANCELLED", "NO_SHOW"}

\* Mutation: the query finds only stays that contain the requested one.
OverlapsOnlyIfContains(row, ci, co) == row.ci <= ci /\ row.co >= co

Overlaps(row, ci, co) == row.ci < co /\ row.co > ci

HasConflict(room, ci, co, excluded) ==
  \E r \in DOMAIN rows \ excluded :
    /\ rows[r].room = room
    /\ rows[r].status \notin Released
    /\ Overlaps(rows[r], ci, co)

\* The dates an update asks for, those it leaves out read from the snapshot.
NewIn(q)  == IF q.ci = Absent THEN q.seen.ci ELSE q.ci
NewOut(q) == IF q.co = Absent THEN q.seen.co ELSE q.co

-----------------------------------------------------------------------------
(* create_reservation *)

\* ReservationCreate accepts only check_out_date > check_in_date.  A conflict
\* answers 409 and changes nothing.
CheckNewStay(c, room, ci, co) ==
  /\ req[c] = Idle
  /\ ci < co
  /\ ~HasConflict(room, ci, co, {})
  /\ req' = [req EXCEPT ![c] = [pc |-> "insert", room |-> room, ci |-> ci, co |-> co]]
  /\ UNCHANGED <<rows, rooms, connected, events, commits, dropped>>

\* The insert and its commit, under the fresh id r.
Insert(c, r) ==
  /\ req[c].pc = "insert"
  /\ r \notin DOMAIN rows
  /\ Len(commits) < MaxCommits
  /\ rows' = [x \in DOMAIN rows \cup {r} |->
                IF x = r THEN [room |-> req[c].room, ci |-> req[c].ci, co |-> req[c].co,
                               status |-> "PENDING"]
                         ELSE rows[x]]
  /\ commits' = Append(commits, [kind |-> "PENDING", res |-> r])
  /\ req' = [req EXCEPT ![c] = [pc |-> "publish", kind |-> "PENDING", res |-> r,
                                commit |-> Len(commits) + 1, sent |-> 0]]
  /\ UNCHANGED <<rooms, connected, events, dropped>>

-----------------------------------------------------------------------------
(* update_reservation, confirm, check_in, check_out, cancel *)

\* update_reservation reads the row, whatever its status; it looks for
\* conflicts only if the payload holds a date.
ReadForUpdate(c, r, ci, co) ==
  /\ req[c] = Idle
  /\ r \in DOMAIN rows
  /\ req' = [req EXCEPT ![c] =
               [pc |-> IF ci = Absent /\ co = Absent THEN "write" ELSE "conflict",
                kind |-> "UPDATED", res |-> r, seen |-> rows[r], ci |-> ci, co |-> co]]
  /\ UNCHANGED <<rows, rooms, connected, events, commits, dropped>>

\* A conflict answers 409.
RecheckDates(c) ==
  /\ req[c].pc = "conflict"
  /\ LET q == req[c] IN
     req' = [req EXCEPT ![c] =
               IF HasConflict(q.seen.room, NewIn(q), NewOut(q), {q.res})
               THEN Idle ELSE [q EXCEPT !.pc = "write"]]
  /\ UNCHANGED <<rows, rooms, connected, events, commits, dropped>>

\* Mutation: _transition forgets to look the current status up in the table.
ReadForAnyTransition(c, r, target) ==
  /\ req[c] = Idle
  /\ r \in DOMAIN rows
  /\ req' = [req EXCEPT ![c] =
               [pc |-> "write", kind |-> target, res |-> r, seen |-> rows[r],
                ci |-> Absent, co |-> Absent]]
  /\ UNCHANGED <<rows, rooms, connected, events, commits, dropped>>

\* _transition: a status the table does not allow answers 422.
ReadForTransition(c, r, target) ==
  /\ req[c] = Idle
  /\ r \in DOMAIN rows
  /\ <<rows[r].status, target>> \in _TRANSITIONS
  /\ req' = [req EXCEPT ![c] =
               [pc |-> "write", kind |-> target, res |-> r, seen |-> rows[r],
                ci |-> Absent, co |-> Absent]]
  /\ UNCHANGED <<rows, rooms, connected, events, commits, dropped>>

\* Mutation: the payload is dumped without exclude_none.
WithAbsentColumns(row, q) ==
  [row EXCEPT !.ci = q.ci, !.co = q.co,
              !.status = IF q.kind = "UPDATED" THEN @ ELSE q.kind]

\* BaseRepository.update: the session writes the columns whose new value
\* differs from its snapshot, and leaves the others as the table has them.
WithColumns(row, q) ==
  [row EXCEPT !.ci = IF NewIn(q) = q.seen.ci THEN @ ELSE q.ci,
              !.co = IF NewOut(q) = q.seen.co THEN @ ELSE q.co,
              !.status = IF q.kind = "UPDATED" THEN @ ELSE q.kind]

Write(c) ==
  /\ req[c].pc = "write"
  /\ Len(commits) < MaxCommits
  /\ LET q == req[c] IN
     /\ rows' = [rows EXCEPT ![q.res] = WithColumns(@, q)]
     /\ commits' = Append(commits, [kind |-> q.kind, res |-> q.res])
     /\ req' = [req EXCEPT ![c] =
                  [pc |-> IF q.kind \in {"CHECKED_IN", "CHECKED_OUT"} THEN "readRoom" ELSE "publish",
                   kind |-> q.kind, res |-> q.res, commit |-> Len(commits) + 1, sent |-> 0]]
  /\ UNCHANGED <<rooms, connected, events, dropped>>

-----------------------------------------------------------------------------
(* The room's side of check_in and check_out: a second read and commit *)

RoomStatusAfter(kind) == IF kind = "CHECKED_IN" THEN "OCCUPIED" ELSE "AVAILABLE"

\* The stay's status and its room's are both committed.
Settle(c, room) ==
  /\ req' = [req EXCEPT ![c].pc = "publish"]
  /\ lastStay' = [lastStay EXCEPT ![room] = {req[c].res}]
  /\ unsettled' = unsettled \ {req[c].res}

\* The session writes nothing if the room already reads as wanted.
ReadRoom(c) ==
  /\ req[c].pc = "readRoom"
  /\ LET room == rows[req[c].res].room IN
     IF roomStatus[room] = RoomStatusAfter(req[c].kind)
     THEN Settle(c, room)
     ELSE /\ req' = [req EXCEPT ![c].pc = "setRoom"]
          /\ UNCHANGED <<lastStay, unsettled>>
  /\ UNCHANGED <<rows, roomStatus, connected, events, commits, dropped>>

\* Mutation: the room's update is flushed but never committed.
SetRoomUncommitted(c) ==
  /\ req[c].pc = "setRoom"
  /\ Settle(c, rows[req[c].res].room)
  /\ UNCHANGED <<rows, roomStatus, connected, events, commits, dropped>>

SetRoom(c) ==
  /\ req[c].pc = "setRoom"
  /\ LET room == rows[req[c].res].room IN
     /\ roomStatus' = [roomStatus EXCEPT ![room] = RoomStatusAfter(req[c].kind)]
     /\ Settle(c, room)
  /\ UNCHANGED <<rows, connected, events, commits, dropped>>

\* HotelService.update_room_status: staff write any status of the allowed set.
UpdateRoomStatus(room, status) ==
  /\ roomStatus' = [roomStatus EXCEPT ![room] = status]
  /\ lastStay' = [lastStay EXCEPT ![room] = {}]
  /\ UNCHANGED <<rows, unsettled, req, connected, events, commits, dropped>>

-----------------------------------------------------------------------------
(* Publishing, and what can go wrong *)

EventOf(q, id) == [id |-> id, kind |-> q.kind, res |-> q.res, commit |-> q.commit]

\* Mutation: every attempt builds the event again, with an event_id of its own.
EventIdOfAttempt(q) == Len(events) + 1

\* The event is built once, before it is sent: every attempt has its id.
EventId(q) == IF q.sent = 0 THEN Len(events) + 1 ELSE q.sent

\* The producer is not idempotent (kafka_producer.py): the broker appends the
\* event, its answer is lost, and the client will send the event again (bound:
\* once).
PublishUnanswered(c) ==
  /\ req[c].pc = "publish"
  /\ connected /\ req[c].sent = 0
  /\ events' = Append(events, EventOf(req[c], EventId(req[c])))
  /\ req' = [req EXCEPT ![c].sent = EventId(req[c])]
  /\ UNCHANGED <<rows, rooms, connected, commits, dropped>>

\* KafkaEventPublisher.publish: send_and_wait returns once an attempt has been
\* answered.  Without a producer the event is dropped and the request still
\* answers 200.
Publish(c) ==
  /\ req[c].pc = "publish"
  /\ IF connected
     THEN /\ events' = Append(events, EventOf(req[c], EventId(req[c])))
          /\ UNCHANGED dropped
     ELSE /\ dropped' = dropped \cup Held(req[c])
          /\ UNCHANGED events
  /\ req' = [req EXCEPT ![c] = Idle]
  /\ UNCHANGED <<rows, rooms, connected, commits>>

\* The stay of a request that ends between its two commits.
HalfWay(q) == IF q.pc \in {"readRoom", "setRoom"} THEN {q.res} ELSE {}

\* An awaited call raises (database or broker lost): the request answers 500,
\* what it committed stays committed, and its event is not sent (again).
Fail(c) ==
  /\ req[c] # Idle
  /\ dropped' = dropped \cup Held(req[c])
  /\ unsettled' = unsettled \cup HalfWay(req[c])
  /\ req' = [req EXCEPT ![c] = Idle]
  /\ UNCHANGED <<rows, roomStatus, lastStay, connected, events, commits>>

\* The API process dies and starts again; lifespan tries the broker once.
Restart ==
  /\ req' = [c \in Clients |-> Idle]
  /\ dropped' = dropped \cup UNION {Held(req[c]) : c \in Clients}
  /\ unsettled' = unsettled \cup UNION {HalfWay(req[c]) : c \in Clients}
  /\ connected' \in BOOLEAN
  /\ UNCHANGED <<rows, roomStatus, lastStay, events, commits>>

-----------------------------------------------------------------------------

Init ==
  /\ rows = [r \in {} |-> Idle]
  /\ roomStatus = [room \in Rooms |-> "AVAILABLE"]
  /\ req = [c \in Clients |-> Idle]
  /\ connected \in BOOLEAN
  /\ events = <<>>
  /\ commits = <<>>
  /\ dropped = {}
  /\ lastStay = [room \in Rooms |-> {}]
  /\ unsettled = {}

Next ==
  \/ \E c \in Clients :
       \/ \E room \in Rooms, ci, co \in Days : CheckNewStay(c, room, ci, co)
       \/ \E r \in Reservations : Insert(c, r)
       \/ \E r \in Reservations, ci, co \in Given : ReadForUpdate(c, r, ci, co)
       \/ RecheckDates(c)
       \/ \E r \in Reservations, target \in Targets : ReadForTransition(c, r, target)
       \/ Write(c)
       \/ ReadRoom(c)
       \/ SetRoom(c)
       \/ PublishUnanswered(c)
       \/ Publish(c)
       \/ Fail(c)
  \/ \E room \in Rooms, status \in StaffChoices : UpdateRoomStatus(room, status)
  \/ Restart

Spec == Init /\ [][Next]_vars

-----------------------------------------------------------------------------
(* What holds however requests overlap, fail and restart *)

\* The tables, the topic and every request hold values of their types; in
\* particular no row ever carries a date the payload left out.
TypeOK ==
  /\ DOMAIN rows \subseteq Reservations
  /\ rows \in [DOMAIN rows -> Row]
  /\ roomStatus \in [Rooms -> RoomStatus]
  /\ req \in [Clients -> Request]
  /\ connected \in BOOLEAN
  /\ events \in Seq(Event)
  /\ commits \in Seq(Commit) /\ Len(commits) <= MaxCommits
  /\ dropped \subseteq 1..MaxCommits
  /\ lastStay \in [Rooms -> SUBSET Reservations]
  /\ unsettled \subseteq Reservations

Published == {events[i].commit : i \in DOMAIN events}

InHand == UNION {Held(req[c]) : c \in Clients}

\* publish() runs after the commit it announces (docs/Architecture.md): every
\* event on the topic tells of one commit; a commit that is told of again, by a
\* send the client repeats, is told of by the same event, which consumers know
\* by its id; and a commit without an event is either still in some request's
\* hands or was given up by a failure or for want of a producer.
EventsMatchCommits ==
  /\ Published \cup InHand \cup dropped = DOMAIN commits
  /\ \A i \in DOMAIN events :
       /\ events[i].kind = commits[events[i].commit].kind
       /\ events[i].res = commits[events[i].commit].res
       /\ events[i].commit \notin InHand \cup dropped
       /\ \A j \in DOMAIN events :
            events[i].commit = events[j].commit => events[i].id = events[j].id

\* Commit m gave its reservation a status from which the table allows `target`.
Permits(m, res, target) ==
  /\ commits[m].res = res
  /\ <<commits[m].kind, target>> \in _TRANSITIONS

\* No status is ever committed for a reservation that had not, at some earlier
\* commit, been in a status _TRANSITIONS lets it leave that way: a stale request
\* can bring a status back, it cannot invent a path.
StatusHasCause ==
  \A n \in DOMAIN commits : commits[n].kind \in Targets =>
    \E m \in 1..(n - 1) : Permits(m, commits[n].res, commits[n].kind)

-----------------------------------------------------------------------------
(* What holds when requests do not overlap (one client), failures included *)

Nights(r) == {d \in Days : rows[r].ci <= d /\ d < rows[r].co}

Active(r) == rows[r].status \notin Released

\* "Room is already booked for the requested dates": no night of a room belongs
\* to two reservations that has_conflict counts as active.
NoDoubleBooking ==
  \A r, s \in DOMAIN rows :
    r # s /\ rows[r].room = rows[s].room /\ Active(r) /\ Active(s)
      => Nights(r) \cap Nights(s) = {}

\* "Valid status transitions" (booking.py): a row's status only ever moves along
\* _TRANSITIONS.
StatusFollowsTable ==
  [][\A r \in DOMAIN rows :
       rows'[r].status # rows[r].status
         => <<rows[r].status, rows'[r].status>> \in _TRANSITIONS]_vars

Settled == \A c \in Clients : req[c].pc \notin {"readRoom", "setRoom"}

\* The room whose status a stay was the last to settle reads OCCUPIED exactly
\* while that stay is checked in, unless the stay's last check-in or check-out
\* broke off between its two commits.
RoomFollowsStay ==
  Settled =>
    \A room \in Rooms : \A r \in lastStay[room] \ unsettled :
      roomStatus[room] = "OCCUPIED" <=> rows[r].status = "CHECKED_IN"
=============================================================================
