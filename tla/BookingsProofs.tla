--------------------------- MODULE BookingsProofs ---------------------------
(***************************************************************************)
(* Theorems of Bookings, for every set of clients, reservations, rooms and *)
(* days and every bound on the number of commits.                          *)
(***************************************************************************)
EXTENDS Bookings, TLAPS

USE DEF rooms

-----------------------------------------------------------------------------
(* Types *)

\* A request that reached its commit holds values of the right types.
LEMMA RequestFields ==
  ASSUME NEW q \in Request
  PROVE  /\ q.pc = "insert" => q \in Inserting
         /\ q.pc \in {"conflict", "write"} => q \in Writing
         /\ q.pc \in {"readRoom", "setRoom", "publish"} => q \in Finishing
BY DEF Request, Idle, Inserting, Writing, Finishing

\* BaseRepository.update leaves a row a row: no column ever takes the mark of
\* a field the payload left out.
LEMMA ColumnsType ==
  ASSUME NEW row \in Row, NEW q \in Writing
  PROVE  WithColumns(row, q) \in Row
<1>1. /\ NewIn(q) # q.seen.ci => q.ci \in Days
      /\ NewOut(q) # q.seen.co => q.co \in Days
  BY DEF NewIn, NewOut, Writing, Given, Row
<1>2. q.kind # "UPDATED" => q.kind \in Status
  BY DEF Writing, Kinds, Targets, Status
<1> QED
  BY <1>1, <1>2 DEF WithColumns, Row

\* Every state holds values of the declared types.
THEOREM BookingsType == Spec => []TypeOK
<1>1. Init => TypeOK
  BY BookingsAssumption DEF Init, TypeOK, RoomStatus, Request, Idle, Event, Commit
<1>2. TypeOK /\ [Next]_vars => TypeOK'
  <2> SUFFICES ASSUME TypeOK, [Next]_vars PROVE TypeOK'
    OBVIOUS
  <2> USE DEF TypeOK
  <2>1. ASSUME NEW c \in Clients, NEW room \in Rooms, NEW ci \in Days, NEW co \in Days,
               CheckNewStay(c, room, ci, co)
        PROVE  TypeOK'
    BY <2>1 DEF CheckNewStay, Request, Inserting
  <2>2. ASSUME NEW c \in Clients, NEW r \in Reservations, Insert(c, r)
        PROVE  TypeOK'
    <3>1. req[c] \in Inserting
      BY <2>2, RequestFields DEF Insert
    <3>2. DOMAIN rows' \subseteq Reservations /\ rows' \in [DOMAIN rows' -> Row]
      BY <2>2, <3>1 DEF Insert, Row, Inserting, Status
    <3>3. commits' \in Seq(Commit) /\ Len(commits') = Len(commits) + 1
      BY <2>2 DEF Insert, Commit, Kinds
    <3>4. req' \in [Clients -> Request]
      BY <2>2, BookingsAssumption DEF Insert, Request, Finishing, Kinds
    <3> QED
      BY <2>2, <3>2, <3>3, <3>4, BookingsAssumption DEF Insert
  <2>3. ASSUME NEW c \in Clients, NEW r \in Reservations, NEW ci \in Given, NEW co \in Given,
               ReadForUpdate(c, r, ci, co)
        PROVE  TypeOK'
    BY <2>3 DEF ReadForUpdate, Request, Writing, Kinds
  <2>4. ASSUME NEW c \in Clients, RecheckDates(c)
        PROVE  TypeOK'
    <3>1. req[c] \in Writing
      BY <2>4, RequestFields DEF RecheckDates
    <3>2. [req[c] EXCEPT !.pc = "write"] \in Writing
      BY <3>1 DEF Writing
    <3> QED
      BY <2>4, <3>2 DEF RecheckDates, Request
  <2>5. ASSUME NEW c \in Clients, NEW r \in Reservations, NEW target \in Targets,
               ReadForTransition(c, r, target)
        PROVE  TypeOK'
    BY <2>5 DEF ReadForTransition, Request, Writing, Kinds, Targets, Given
  <2>6. ASSUME NEW c \in Clients, Write(c)
        PROVE  TypeOK'
    <3>1. req[c] \in Writing
      BY <2>6, RequestFields DEF Write
    <3>2. rows' \in [DOMAIN rows -> Row] /\ DOMAIN rows' = DOMAIN rows
      BY <2>6, <3>1, ColumnsType DEF Write
    <3>3. commits' \in Seq(Commit) /\ Len(commits') = Len(commits) + 1
      BY <2>6, <3>1 DEF Write, Commit, Writing
    <3>4. req' \in [Clients -> Request]
      BY <2>6, <3>1, BookingsAssumption DEF Write, Request, Writing, Finishing
    <3> QED
      BY <2>6, <3>2, <3>3, <3>4, BookingsAssumption DEF Write
  <2>7. ASSUME NEW c \in Clients, ReadRoom(c) \/ SetRoom(c)
        PROVE  TypeOK'
    <3>1. req[c] \in Finishing
      BY <2>7, RequestFields DEF ReadRoom, SetRoom
    <3>2. \A pc \in {"setRoom", "publish"} : [req[c] EXCEPT !.pc = pc] \in Finishing
      BY <3>1 DEF Finishing
    <3>3. req' \in [Clients -> Request]
      BY <2>7, <3>2 DEF ReadRoom, SetRoom, Settle, Request
    <3>4. {req[c].res} \subseteq Reservations
      BY <3>1 DEF Finishing
    <3>5. RoomStatusAfter(req[c].kind) \in RoomStatus
      BY DEF RoomStatusAfter, RoomStatus
    <3>6. roomStatus' \in [Rooms -> RoomStatus]
      BY <2>7, <3>5 DEF ReadRoom, SetRoom
    <3>7. lastStay' \in [Rooms -> SUBSET Reservations]
      BY <2>7, <3>4 DEF ReadRoom, SetRoom, Settle
    <3>8. unsettled' \subseteq Reservations
      BY <2>7 DEF ReadRoom, SetRoom, Settle
    <3> QED
      BY <2>7, <3>3, <3>6, <3>7, <3>8 DEF ReadRoom, SetRoom
  <2>8. ASSUME NEW c \in Clients, PublishUnanswered(c) \/ Publish(c)
        PROVE  TypeOK'
    <3>1. req[c] \in Finishing
      BY <2>8, RequestFields DEF Publish, PublishUnanswered
    <3>2. EventId(req[c]) \in Nat /\ EventOf(req[c], EventId(req[c])) \in Event
      BY <3>1 DEF Finishing, Event, EventOf, EventId
    <3>3. events' \in Seq(Event)
      <4>1. CASE events' = Append(events, EventOf(req[c], EventId(req[c])))
        BY <3>2, <4>1
      <4>2. CASE UNCHANGED events
        BY <4>2
      <4> QED
        BY <2>8, <4>1, <4>2 DEF Publish, PublishUnanswered
    <3>5. dropped' \subseteq 1..MaxCommits
      BY <2>8, <3>1 DEF Publish, PublishUnanswered, Finishing, Held
    <3>6. [req[c] EXCEPT !.sent = EventId(req[c])] \in Finishing
      BY <3>1, <3>2 DEF Finishing
    <3>4. req' \in [Clients -> Request]
      BY <2>8, <3>6 DEF Publish, PublishUnanswered, Request
    <3> QED
      BY <2>8, <3>3, <3>4, <3>5 DEF Publish, PublishUnanswered
  <2>9. \A c \in Clients : /\ Held(req[c]) \subseteq 1..MaxCommits
                           /\ HalfWay(req[c]) \subseteq Reservations
    BY RequestFields DEF Held, HalfWay, Finishing
  <2>10. ASSUME NEW c \in Clients, Fail(c)
         PROVE  TypeOK'
    BY <2>9, <2>10 DEF Fail, Request
  <2>11. ASSUME NEW room \in Rooms, NEW status \in StaffChoices, UpdateRoomStatus(room, status)
         PROVE  TypeOK'
    BY <2>11, BookingsAssumption DEF UpdateRoomStatus
  <2>12. CASE Restart
    BY <2>9, <2>12 DEF Restart, Request
  <2>13. CASE UNCHANGED vars
    BY <2>13 DEF vars
  <2> QED
    BY <2>1, <2>2, <2>3, <2>4, <2>5, <2>6, <2>7, <2>8, <2>10, <2>11, <2>12, <2>13 DEF Next
<1> QED
  BY <1>1, <1>2, PTL DEF Spec
-----------------------------------------------------------------------------
(* Events and commits *)

\* The id of the event a request will send again.
Repeats(q) ==
  IF q.pc \in {"readRoom", "setRoom", "publish"} /\ q.sent # 0 THEN {q.sent} ELSE {}

\* Two states of a request that has the same left to announce.
SameHand(p, q) ==
  /\ Held(p) = Held(q) /\ Repeats(p) = Repeats(q)
  /\ Held(q) # {} \/ Repeats(q) # {} =>
       p.kind = q.kind /\ p.res = q.res /\ p.commit = q.commit

\* The strengthening of EventsMatchCommits: a commit in a request's hands is in
\* no other's, was not given up, and is the one the request will announce; what
\* a request sends again is an event of the topic.
Ledger ==
  /\ EventsMatchCommits
  /\ \A c \in Clients : \A n \in Held(req[c]) :
       /\ n \notin dropped
       /\ commits[n].kind = req[c].kind
       /\ commits[n].res = req[c].res
       /\ \A d \in Clients : n \in Held(req[d]) => d = c
  /\ \A c \in Clients : \A n \in Repeats(req[c]) :
       n \in DOMAIN events /\ events[n] = EventOf(req[c], n)

\* A step that commits nothing, publishes nothing and gives nothing up.
LEMMA LedgerQuiet ==
  ASSUME Ledger, UNCHANGED <<events, commits, dropped>>,
         \A c \in Clients : SameHand(req'[c], req[c])
  PROVE  Ledger'
<1>1. InHand' = InHand
  BY DEF InHand, SameHand
<1>2. EventsMatchCommits'
  BY <1>1 DEF Ledger, EventsMatchCommits, Published
<1> QED
  BY <1>2 DEF Ledger, SameHand, EventOf

\* A commit: its index goes from nowhere into the hands of one request.
LEMMA LedgerCommit ==
  ASSUME TypeOK, Ledger, UNCHANGED <<events, dropped>>,
         NEW c \in Clients, Held(req[c]) = {},
         NEW k, NEW r, commits' = Append(commits, [kind |-> k, res |-> r]),
         req'[c].kind = k, req'[c].res = r, Held(req'[c]) = {Len(commits) + 1},
         Repeats(req'[c]) = {},
         \A d \in Clients : d # c => req'[d] = req[d]
  PROVE  Ledger'
<1> DEFINE new == Len(commits) + 1
<1>1. /\ Len(commits) \in Nat
      /\ DOMAIN commits = 1..Len(commits)
      /\ DOMAIN commits' = DOMAIN commits \cup {new}
      /\ new \notin DOMAIN commits
      /\ commits'[new] = [kind |-> k, res |-> r]
      /\ \A n \in DOMAIN commits : commits'[n] = commits[n]
  BY DEF TypeOK
<1>2. InHand' = InHand \cup {new}
  BY DEF InHand
<1>3. Published' = Published /\ Published \cup InHand \cup dropped = DOMAIN commits
  BY DEF Published, Ledger, EventsMatchCommits
<1>4. ASSUME NEW i \in DOMAIN events
      PROVE  /\ events[i].commit \in DOMAIN commits
             /\ events[i].commit # new
  BY <1>1, <1>3 DEF Published
<1>5. EventsMatchCommits'
  BY <1>1, <1>2, <1>3, <1>4 DEF Ledger, EventsMatchCommits
<1>6. ASSUME NEW d \in Clients, NEW n \in Held(req'[d])
      PROVE  /\ n \notin dropped
             /\ commits'[n].kind = req'[d].kind
             /\ commits'[n].res = req'[d].res
             /\ \A e \in Clients : n \in Held(req'[e]) => e = d
  <2>1. \A e \in Clients : e # c => Held(req'[e]) \subseteq DOMAIN commits
    BY <1>3 DEF InHand
  <2>2. CASE d = c
    BY <2>1, <2>2, <1>1, <1>3
  <2>3. CASE d # c
    BY <2>1, <2>3, <1>1 DEF Ledger
  <2> QED
    BY <2>2, <2>3
<1>7. \A d \in Clients : \A n \in Repeats(req'[d]) :
        n \in DOMAIN events /\ events[n] = EventOf(req'[d], n)
  BY DEF Ledger
<1> QED
  BY <1>5, <1>6, <1>7 DEF Ledger

\* Requests that end without publishing: what they held is given up.
LEMMA LedgerDrop ==
  ASSUME Ledger, UNCHANGED <<events, commits>>,
         NEW ended \in SUBSET Clients,
         \A c \in ended : Held(req'[c]) = {} /\ Repeats(req'[c]) = {},
         \A c \in Clients \ ended : req'[c] = req[c],
         dropped' = dropped \cup UNION {Held(req[c]) : c \in ended}
  PROVE  Ledger'
<1>1. InHand' \cup dropped' = InHand \cup dropped
  BY DEF InHand
<1>2. EventsMatchCommits'
  BY <1>1 DEF Ledger, EventsMatchCommits, Published
<1>3. ASSUME NEW d \in Clients, NEW n \in Held(req'[d])
      PROVE  /\ n \notin dropped'
             /\ commits'[n].kind = req'[d].kind
             /\ commits'[n].res = req'[d].res
             /\ \A e \in Clients : n \in Held(req'[e]) => e = d
  BY DEF Ledger
<1>4. \A d \in Clients : \A n \in Repeats(req'[d]) :
        n \in DOMAIN events /\ events[n] = EventOf(req'[d], n)
  BY DEF Ledger
<1> QED
  BY <1>2, <1>3, <1>4 DEF Ledger

\* The first attempt the broker appends: the commit goes from the request's
\* hands to the topic, whether or not the request will send it again.
LEMMA LedgerPublish ==
  ASSUME TypeOK, Ledger, NEW c \in Clients, req[c] \in Finishing, req[c].sent = 0,
         events' = Append(events, EventOf(req[c], Len(events) + 1)),
         Held(req'[c]) = {},
         \A n \in Repeats(req'[c]) : n = Len(events) + 1 /\ EventOf(req'[c], n) = EventOf(req[c], n),
         \A d \in Clients : d # c => req'[d] = req[d],
         UNCHANGED <<commits, dropped>>
  PROVE  Ledger'
<1> DEFINE new == Len(events) + 1
           e == EventOf(req[c], new)
<1>1. /\ Held(req[c]) = {req[c].commit}
      /\ e.kind = req[c].kind /\ e.res = req[c].res /\ e.commit = req[c].commit
  BY DEF Finishing, Held, EventOf
<1>3. /\ DOMAIN events' = DOMAIN events \cup {new}
      /\ new \notin DOMAIN events
      /\ events'[new] = e
      /\ \A i \in DOMAIN events : events'[i] = events[i]
  BY DEF TypeOK
<1>4. InHand = InHand' \cup {req[c].commit} /\ req[c].commit \notin InHand'
  <2>1. InHand = InHand' \cup {req[c].commit}
    BY <1>1 DEF InHand
  <2>2. \A d \in Clients : req[c].commit \notin Held(req'[d])
    BY <1>1 DEF Ledger
  <2> QED
    BY <2>1, <2>2 DEF InHand
<1>5. Published' = Published \cup {req[c].commit} /\ req[c].commit \notin Published
  <2>1. Published' = Published \cup {req[c].commit}
    BY <1>1, <1>3 DEF Published
  <2>2. req[c].commit \notin Published
    BY <1>4 DEF Published, Ledger, EventsMatchCommits
  <2> QED
    BY <2>1, <2>2
<1>6. EventsMatchCommits'
  <2>1. Published' \cup InHand' \cup dropped' = DOMAIN commits'
    BY <1>4, <1>5 DEF Ledger, EventsMatchCommits
  <2>2. ASSUME NEW i \in DOMAIN events'
        PROVE  /\ events'[i].kind = commits'[events'[i].commit].kind
               /\ events'[i].res = commits'[events'[i].commit].res
               /\ events'[i].commit \notin InHand' \cup dropped'
               /\ \A j \in DOMAIN events' :
                    events'[i].commit = events'[j].commit => events'[i].id = events'[j].id
    <3>1. \A j \in DOMAIN events : events[j].commit \in Published
      BY DEF Published
    <3>2. CASE i = new
      BY <1>1, <1>3, <1>4, <1>5, <3>1, <3>2 DEF Ledger
    <3>3. CASE i # new
      BY <1>1, <1>3, <1>4, <1>5, <3>1, <3>3 DEF Ledger, EventsMatchCommits
    <3> QED
      BY <3>2, <3>3
  <2> QED
    BY <2>1, <2>2 DEF EventsMatchCommits
<1>7. ASSUME NEW d \in Clients, NEW n \in Held(req'[d])
      PROVE  /\ n \notin dropped'
             /\ commits'[n].kind = req'[d].kind
             /\ commits'[n].res = req'[d].res
             /\ \A f \in Clients : n \in Held(req'[f]) => f = d
  BY DEF Ledger
<1>8. ASSUME NEW d \in Clients, NEW n \in Repeats(req'[d])
      PROVE  n \in DOMAIN events' /\ events'[n] = EventOf(req'[d], n)
  BY <1>3, <1>8 DEF Ledger
<1> QED
  BY <1>6, <1>7, <1>8 DEF Ledger

\* A later attempt: the event is on the topic once more.
LEMMA LedgerRepeat ==
  ASSUME TypeOK, Ledger, NEW c \in Clients, req[c] \in Finishing, req[c].sent # 0,
         events' = Append(events, EventOf(req[c], req[c].sent)),
         req' = [req EXCEPT ![c] = Idle],
         UNCHANGED <<commits, dropped>>
  PROVE  Ledger'
<1> DEFINE new == Len(events) + 1
           first == req[c].sent
<1>1. /\ first \in DOMAIN events /\ events[first] = EventOf(req[c], first)
      /\ Held(req[c]) = {}
  BY DEF Ledger, Repeats, Finishing, Held
<1>2. /\ DOMAIN events' = DOMAIN events \cup {new}
      /\ events'[new] = events[first]
      /\ \A i \in DOMAIN events : events'[i] = events[i]
  BY <1>1 DEF TypeOK
<1>3. /\ req'[c] = Idle /\ \A d \in Clients : d # c => req'[d] = req[d]
      /\ Held(req'[c]) = {} /\ Repeats(req'[c]) = {}
  BY DEF TypeOK, Held, Repeats, Idle
<1>4. InHand' = InHand /\ Published' = Published
  <2>1. InHand' = InHand
    BY <1>1, <1>3 DEF InHand
  <2>2. Published' = Published
    BY <1>1, <1>2 DEF Published
  <2> QED
    BY <2>1, <2>2
<1>5. \A i \in DOMAIN events' : \E k \in DOMAIN events : events'[i] = events[k]
  BY <1>1, <1>2
<1>6. EventsMatchCommits'
  BY <1>4, <1>5 DEF Ledger, EventsMatchCommits
<1>7. ASSUME NEW d \in Clients, NEW n \in Held(req'[d])
      PROVE  /\ n \notin dropped'
             /\ commits'[n].kind = req'[d].kind
             /\ commits'[n].res = req'[d].res
             /\ \A f \in Clients : n \in Held(req'[f]) => f = d
  <2>1. \A f \in Clients : req'[f] = req[f] \/ Held(req'[f]) = {}
    BY <1>3
  <2> QED
    BY <1>7, <2>1 DEF Ledger
<1>8. ASSUME NEW d \in Clients, NEW n \in Repeats(req'[d])
      PROVE  n \in DOMAIN events' /\ events'[n] = EventOf(req'[d], n)
  BY <1>2, <1>3, <1>8 DEF Ledger
<1> QED
  BY <1>6, <1>7, <1>8 DEF Ledger

\* One request that ends that way.
LEMMA LedgerEnd ==
  ASSUME Ledger, UNCHANGED <<events, commits>>, req \in [Clients -> Request],
         NEW c \in Clients, req' = [req EXCEPT ![c] = Idle],
         dropped' = dropped \cup Held(req[c])
  PROVE  Ledger'
<1>1. {c} \in SUBSET Clients /\ UNION {Held(req[d]) : d \in {c}} = Held(req[c])
  OBVIOUS
<1>2. \A d \in {c} : Held(req'[d]) = {} /\ Repeats(req'[d]) = {}
  BY DEF Held, Repeats, Idle
<1>3. \A d \in Clients \ {c} : req'[d] = req[d]
  OBVIOUS
<1> QED
  BY <1>1, <1>2, <1>3, LedgerDrop

LEMMA LedgerInit == Init => Ledger
BY DEF Init, Ledger, EventsMatchCommits, Published, InHand, Held, Repeats, Idle

LEMMA LedgerStep == TypeOK /\ Ledger /\ [Next]_vars => Ledger'
<1> SUFFICES ASSUME TypeOK, Ledger, [Next]_vars PROVE Ledger'
  OBVIOUS
<1>0. req \in [Clients -> Request]
  BY DEF TypeOK
<1>1. ASSUME NEW c \in Clients, NEW room \in Rooms, NEW ci \in Days, NEW co \in Days,
             CheckNewStay(c, room, ci, co)
      PROVE  Ledger'
  BY <1>0, <1>1, LedgerQuiet DEF CheckNewStay, Held, Repeats, SameHand, Idle
<1>2. ASSUME NEW c \in Clients, NEW r \in Reservations, Insert(c, r)
      PROVE  Ledger'
  BY <1>0, <1>2, LedgerCommit DEF Insert, Held, Repeats
<1>3. ASSUME NEW c \in Clients, NEW r \in Reservations, NEW ci \in Given, NEW co \in Given,
             ReadForUpdate(c, r, ci, co)
      PROVE  Ledger'
  BY <1>0, <1>3, LedgerQuiet DEF ReadForUpdate, Held, Repeats, SameHand, Idle
<1>4. ASSUME NEW c \in Clients, RecheckDates(c)
      PROVE  Ledger'
  <2>1. req[c] \in Writing
    BY <1>0, <1>4, RequestFields DEF RecheckDates
  <2>2. SameHand(req'[c], req[c])
    BY <1>0, <1>4, <2>1 DEF RecheckDates, Held, Repeats, SameHand, Idle, Writing
  <2> QED
    BY <1>0, <1>4, <2>2, LedgerQuiet DEF RecheckDates, SameHand
<1>5. ASSUME NEW c \in Clients, NEW r \in Reservations, NEW target \in Targets,
             ReadForTransition(c, r, target)
      PROVE  Ledger'
  <2>1. SameHand(req'[c], req[c]) /\ \A d \in Clients : d # c => req'[d] = req[d]
    BY <1>0, <1>5 DEF ReadForTransition, Held, Repeats, SameHand, Idle
  <2> QED
    BY <1>5, <2>1, LedgerQuiet DEF ReadForTransition, SameHand
<1>6. ASSUME NEW c \in Clients, Write(c)
      PROVE  Ledger'
  BY <1>0, <1>6, LedgerCommit DEF Write, Held, Repeats
<1>7. ASSUME NEW c \in Clients, ReadRoom(c) \/ SetRoom(c)
      PROVE  Ledger'
  <2>1. req[c] \in Finishing
    BY <1>0, <1>7, RequestFields DEF ReadRoom, SetRoom
  <2>2. /\ req'[c].pc \in {"setRoom", "publish"}
        /\ req'[c].kind = req[c].kind
        /\ req'[c].res = req[c].res
        /\ req'[c].commit = req[c].commit
        /\ req'[c].sent = req[c].sent
    BY <1>0, <1>7, <2>1 DEF ReadRoom, SetRoom, Settle, Finishing
  <2>3. SameHand(req'[c], req[c])
    BY <2>1, <2>2 DEF Held, Repeats, SameHand, Finishing
  <2>4. \A d \in Clients : d # c => req'[d] = req[d]
    BY <1>0, <1>7 DEF ReadRoom, SetRoom, Settle
  <2> QED
    BY <1>7, <2>3, <2>4, LedgerQuiet DEF ReadRoom, SetRoom, SameHand
<1>8. ASSUME NEW c \in Clients, PublishUnanswered(c)
      PROVE  Ledger'
  <2>1. req[c] \in Finishing
    BY <1>0, <1>8, RequestFields DEF PublishUnanswered
  <2>2. /\ req[c].sent = 0 /\ events' = Append(events, EventOf(req[c], Len(events) + 1))
        /\ req'[c] = [req[c] EXCEPT !.sent = Len(events) + 1]
        /\ \A d \in Clients : d # c => req'[d] = req[d]
        /\ UNCHANGED <<commits, dropped>>
    BY <1>0, <1>8 DEF PublishUnanswered, EventId
  <2>3. Len(events) + 1 # 0
    BY DEF TypeOK
  <2>4. Held(req'[c]) = {} /\ Repeats(req'[c]) \subseteq {Len(events) + 1}
    BY <2>1, <2>2, <2>3 DEF Held, Repeats, Finishing
  <2>5. \A n : EventOf(req'[c], n) = EventOf(req[c], n)
    BY <2>1, <2>2 DEF EventOf, Finishing
  <2> QED
    BY <2>1, <2>2, <2>4, <2>5, LedgerPublish
<1>p. ASSUME NEW c \in Clients, Publish(c)
      PROVE  Ledger'
  <2>1. req[c] \in Finishing
    BY <1>0, <1>p, RequestFields DEF Publish
  <2>2. CASE connected /\ req[c].sent = 0
    <3>1. /\ events' = Append(events, EventOf(req[c], Len(events) + 1))
          /\ req'[c] = Idle /\ \A d \in Clients : d # c => req'[d] = req[d]
          /\ UNCHANGED <<commits, dropped>>
      BY <1>0, <1>p, <2>2 DEF Publish, EventId
    <3>2. Held(req'[c]) = {} /\ Repeats(req'[c]) = {}
      BY <3>1 DEF Held, Repeats, Idle
    <3> QED
      BY <2>1, <2>2, <3>1, <3>2, LedgerPublish
  <2>3. CASE connected /\ req[c].sent # 0
    BY <1>p, <2>1, <2>3, LedgerRepeat DEF Publish, EventId
  <2>4. CASE ~connected
    <3>1. /\ UNCHANGED <<events, commits>>
          /\ dropped' = dropped \cup Held(req[c])
          /\ req' = [req EXCEPT ![c] = Idle]
      BY <1>p, <2>4 DEF Publish
    <3> QED
      BY <1>0, <3>1, LedgerEnd
  <2> QED
    BY <2>2, <2>3, <2>4
<1>9. ASSUME NEW c \in Clients, Fail(c)
      PROVE  Ledger'
  BY <1>0, <1>9, LedgerEnd DEF Fail
<1>10. ASSUME NEW room \in Rooms, NEW status \in StaffChoices, UpdateRoomStatus(room, status)
       PROVE  Ledger'
  BY <1>10, LedgerQuiet DEF UpdateRoomStatus, SameHand
<1>11. CASE Restart
  BY <1>11, LedgerDrop, Clients \in SUBSET Clients DEF Restart, Held, Repeats, SameHand, Idle
<1>12. CASE UNCHANGED vars
  BY <1>12, LedgerQuiet DEF vars, SameHand
<1> QED
  BY <1>1, <1>2, <1>3, <1>4, <1>5, <1>6, <1>7, <1>8, <1>p, <1>9, <1>10, <1>11, <1>12 DEF Next

\* Every event tells of one commit, and a commit is told of by one event, however
\* often the producer appends it; a commit without its event is in some request's
\* hands or was given up.
THEOREM BookingsEventsMatchCommits == Spec => []EventsMatchCommits
<1>1. Ledger => EventsMatchCommits
  BY DEF Ledger
<1> QED
  BY <1>1, LedgerInit, LedgerStep, BookingsType, PTL DEF Spec

-----------------------------------------------------------------------------
(* The life cycle, whatever overlaps *)

\* Commit n gave reservation r the status s.
Gave(n, r, s) == commits[n].res = r /\ commits[n].kind = s

\* The strengthening of StatusHasCause: the status a row shows and the one a
\* request has seen were committed, and a pending transition has its cause.
Causes ==
  /\ StatusHasCause
  /\ \A r \in DOMAIN rows : \E n \in DOMAIN commits : Gave(n, r, rows[r].status)
  /\ \A c \in Clients :
       req[c].pc \in {"conflict", "write"} /\ req[c].kind \in Targets =>
         \E n \in DOMAIN commits : Permits(n, req[c].res, req[c].kind)

\* A commit appended to the history has its cause among the earlier ones.
LEMMA CauseOfCommit ==
  ASSUME TypeOK, StatusHasCause,
         NEW k, NEW r, commits' = Append(commits, [kind |-> k, res |-> r]),
         k \in Targets => \E n \in DOMAIN commits : Permits(n, r, k)
  PROVE  StatusHasCause'
<1>1. /\ Len(commits) \in Nat
      /\ DOMAIN commits = 1..Len(commits)
      /\ DOMAIN commits' = 1..(Len(commits) + 1)
      /\ commits'[Len(commits) + 1] = [kind |-> k, res |-> r]
      /\ \A n \in 1..Len(commits) : commits'[n] = commits[n]
  BY DEF TypeOK
<1> SUFFICES ASSUME NEW n \in DOMAIN commits', commits'[n].kind \in Targets
             PROVE  \E m \in 1..(n - 1) :
                      /\ commits'[m].res = commits'[n].res
                      /\ <<commits'[m].kind, commits'[n].kind>> \in _TRANSITIONS
  BY DEF StatusHasCause, Permits
<1>2. CASE n = Len(commits) + 1
  <2>1. commits'[n].kind = k /\ commits'[n].res = r
    BY <1>1, <1>2
  <2>2. PICK m \in DOMAIN commits : Permits(m, r, k)
    BY <2>1
  <2>3. m \in 1..(n - 1) /\ commits'[m] = commits[m]
    BY <1>1, <1>2, <2>2
  <2> QED
    BY <2>1, <2>2, <2>3 DEF Permits
<1>3. CASE n # Len(commits) + 1
  <2>1. n \in DOMAIN commits /\ commits'[n] = commits[n]
    BY <1>1, <1>3
  <2>2. PICK m \in 1..(n - 1) : Permits(m, commits[n].res, commits[n].kind)
    BY <2>1 DEF StatusHasCause
  <2>3. commits'[m] = commits[m]
    BY <1>1, <2>1, <2>2
  <2> QED
    BY <2>1, <2>2, <2>3 DEF Permits
<1> QED
  BY <1>2, <1>3

\* A step that leaves rows and commits alone, and takes no request to a write
\* it has no cause for.
LEMMA CausesQuiet ==
  ASSUME Causes, UNCHANGED <<rows, commits>>,
         \A c \in Clients :
           req'[c].pc \in {"conflict", "write"} /\ req'[c].kind \in Targets =>
             \E n \in DOMAIN commits : Permits(n, req'[c].res, req'[c].kind)
  PROVE  Causes'
BY DEF Causes, StatusHasCause, Gave, Permits

\* A commit of kind k for reservation r by client c; r's row, if its status
\* changes, takes status k.
LEMMA CausesCommit ==
  ASSUME TypeOK, Causes,
         NEW c \in Clients, NEW k, NEW r,
         commits' = Append(commits, [kind |-> k, res |-> r]),
         k \in Targets => \E n \in DOMAIN commits : Permits(n, r, k),
         req'[c].pc \notin {"conflict", "write"}, \A d \in Clients : d # c => req'[d] = req[d],
         \A x \in DOMAIN rows' :
           \/ x \in DOMAIN rows /\ rows'[x].status = rows[x].status
           \/ x = r /\ rows'[x].status = k
  PROVE  Causes'
<1>1. /\ Len(commits) \in Nat
      /\ DOMAIN commits = 1..Len(commits)
      /\ DOMAIN commits' = 1..(Len(commits) + 1)
      /\ DOMAIN commits \subseteq DOMAIN commits'
      /\ commits'[Len(commits) + 1] = [kind |-> k, res |-> r]
      /\ \A n \in DOMAIN commits : commits'[n] = commits[n]
  BY DEF TypeOK
<1>2. StatusHasCause'
  BY CauseOfCommit DEF Causes
<1>3. ASSUME NEW x \in DOMAIN rows'
      PROVE  \E n \in DOMAIN commits' :
               commits'[n].res = x /\ commits'[n].kind = rows'[x].status
  <2>1. CASE x \in DOMAIN rows /\ rows'[x].status = rows[x].status
    BY <1>1, <2>1 DEF Causes, Gave
  <2>2. CASE x = r /\ rows'[x].status = k
    BY <1>1, <2>2
  <2> QED
    BY <2>1, <2>2
<1>4. ASSUME NEW d \in Clients, req'[d].pc \in {"conflict", "write"}, req'[d].kind \in Targets
      PROVE  \E n \in DOMAIN commits' :
               /\ commits'[n].res = req'[d].res
               /\ <<commits'[n].kind, req'[d].kind>> \in _TRANSITIONS
  BY <1>1, <1>4 DEF Causes, Permits
<1> QED
  BY <1>2, <1>3, <1>4 DEF Causes, Gave, Permits

LEMMA CausesStep == TypeOK /\ Causes /\ [Next]_vars => Causes'
<1> SUFFICES ASSUME TypeOK, Causes, [Next]_vars PROVE Causes'
  OBVIOUS
<1>0. req \in [Clients -> Request]
  BY DEF TypeOK
<1>1. ASSUME NEW c \in Clients, NEW room \in Rooms, NEW ci \in Days, NEW co \in Days,
             CheckNewStay(c, room, ci, co)
      PROVE  Causes'
  BY <1>0, <1>1, CausesQuiet DEF CheckNewStay, Causes
<1>2. ASSUME NEW c \in Clients, NEW r \in Reservations, Insert(c, r)
      PROVE  Causes'
  BY <1>0, <1>2, CausesCommit DEF Insert, Targets
<1>3. ASSUME NEW c \in Clients, NEW r \in Reservations, NEW ci \in Given, NEW co \in Given,
             ReadForUpdate(c, r, ci, co)
      PROVE  Causes'
  BY <1>0, <1>3, CausesQuiet DEF ReadForUpdate, Causes, Targets
<1>4. ASSUME NEW c \in Clients, RecheckDates(c)
      PROVE  Causes'
  <2>1. req[c] \in Writing /\ req[c].pc = "conflict"
    BY <1>0, <1>4, RequestFields DEF RecheckDates
  <2>2. \/ req'[c] = Idle
        \/ req'[c].kind = req[c].kind /\ req'[c].res = req[c].res
    BY <1>0, <1>4, <2>1 DEF RecheckDates, Writing
  <2>3. \A d \in Clients : d # c => req'[d] = req[d]
    BY <1>0, <1>4 DEF RecheckDates
  <2>4. UNCHANGED <<rows, commits>>
    BY <1>4 DEF RecheckDates
  <2> QED
    BY <2>1, <2>2, <2>3, <2>4, CausesQuiet DEF Causes, Idle
<1>5. ASSUME NEW c \in Clients, NEW r \in Reservations, NEW target \in Targets,
             ReadForTransition(c, r, target)
      PROVE  Causes'
  <2>1. \E n \in DOMAIN commits : Permits(n, r, target)
    BY <1>5 DEF ReadForTransition, Causes, Gave, Permits
  <2> QED
    BY <1>0, <1>5, <2>1, CausesQuiet DEF ReadForTransition, Causes
<1>6. ASSUME NEW c \in Clients, Write(c)
      PROVE  Causes'
  <2>1. req[c] \in Writing
    BY <1>0, <1>6, RequestFields DEF Write
  <2>2. /\ commits' = Append(commits, [kind |-> req[c].kind, res |-> req[c].res])
        /\ req'[c].pc \notin {"conflict", "write"}
        /\ \A d \in Clients : d # c => req'[d] = req[d]
        /\ DOMAIN rows' = DOMAIN rows
        /\ \A x \in DOMAIN rows : x # req[c].res => rows'[x] = rows[x]
        /\ req[c].res \in DOMAIN rows => rows'[req[c].res] = WithColumns(rows[req[c].res], req[c])
    BY <1>0, <1>6 DEF Write
  <2>3. ASSUME NEW row \in Row
        PROVE  WithColumns(row, req[c]).status = row.status
               \/ WithColumns(row, req[c]).status = req[c].kind
    BY DEF WithColumns, Row
  <2>4. \A x \in DOMAIN rows' :
           \/ x \in DOMAIN rows /\ rows'[x].status = rows[x].status
           \/ x = req[c].res /\ rows'[x].status = req[c].kind
    BY <2>2, <2>3 DEF TypeOK
  <2>5. req[c].kind \in Targets =>
          \E n \in DOMAIN commits : Permits(n, req[c].res, req[c].kind)
    BY <1>6 DEF Write, Causes
  <2> QED
    BY <2>2, <2>4, <2>5, CausesCommit
<1>7. ASSUME NEW c \in Clients, ReadRoom(c) \/ SetRoom(c)
      PROVE  Causes'
  <2>1. req[c] \in Finishing
    BY <1>0, <1>7, RequestFields DEF ReadRoom, SetRoom
  <2>2. req'[c].pc \notin {"conflict", "write"} /\ \A d \in Clients : d # c => req'[d] = req[d]
    BY <1>0, <1>7, <2>1 DEF ReadRoom, SetRoom, Settle, Finishing
  <2> QED
    BY <1>7, <2>2, CausesQuiet DEF ReadRoom, SetRoom, Causes
<1>8. ASSUME NEW c \in Clients, PublishUnanswered(c) \/ Publish(c) \/ Fail(c)
      PROVE  Causes'
  <2>1. req'[c].pc \notin {"conflict", "write"}
    BY <1>0, <1>8, RequestFields DEF PublishUnanswered, Publish, Fail, Finishing, Idle
  <2>2. \A d \in Clients : d # c => req'[d] = req[d]
    BY <1>0, <1>8 DEF PublishUnanswered, Publish, Fail
  <2> QED
    BY <1>8, <2>1, <2>2, CausesQuiet DEF PublishUnanswered, Publish, Fail, Causes
<1>9. ASSUME NEW room \in Rooms, NEW status \in StaffChoices, UpdateRoomStatus(room, status)
      PROVE  Causes'
  BY <1>9, CausesQuiet DEF UpdateRoomStatus, Causes
<1>10. CASE Restart
  BY <1>10, CausesQuiet DEF Restart, Idle
<1>11. CASE UNCHANGED vars
  BY <1>11, CausesQuiet DEF vars, Causes
<1> QED
  BY <1>1, <1>2, <1>3, <1>4, <1>5, <1>6, <1>7, <1>8, <1>9, <1>10, <1>11 DEF Next

\* No status is committed that the reservation could not have reached from one
\* it was in before, however requests overlap.
THEOREM BookingsStatusHasCause == Spec => []StatusHasCause
<1>1. Init => Causes
  BY DEF Init, Causes, StatusHasCause, Idle
<1>2. Causes => StatusHasCause
  BY DEF Causes
<1> QED
  BY <1>1, <1>2, CausesStep, BookingsType, PTL DEF Spec
-----------------------------------------------------------------------------
(* Requests that do not overlap *)

\* There is one client: a request begins when the one before it has ended.
OneClient == \A c, d \in Clients : c = d

\* What a request has read still holds when it writes.
Fresh ==
  \A c \in Clients :
    LET q == req[c] IN
    /\ q.pc = "insert" => ~HasConflict(q.room, q.ci, q.co, {})
    /\ q.pc \in {"conflict", "write"} => q.res \in DOMAIN rows /\ q.seen = rows[q.res]
    /\ q.pc = "conflict" => q.kind = "UPDATED"
    /\ q.pc = "write" /\ q.kind = "UPDATED" /\ (q.ci # Absent \/ q.co # Absent) =>
         ~HasConflict(q.seen.room, NewIn(q), NewOut(q), {q.res})
    /\ q.pc = "write" /\ q.kind # "UPDATED" =>
         /\ <<q.seen.status, q.kind>> \in _TRANSITIONS
         /\ q.ci = Absent /\ q.co = Absent

LEMMA FreshStep == TypeOK /\ Fresh /\ OneClient /\ [Next]_vars => Fresh'
<1> SUFFICES ASSUME TypeOK, Fresh, OneClient, [Next]_vars PROVE Fresh'
  OBVIOUS
<1>0. req \in [Clients -> Request]
  BY DEF TypeOK
<1>1. ASSUME NEW c \in Clients, NEW room \in Rooms, NEW ci \in Days, NEW co \in Days,
             CheckNewStay(c, room, ci, co)
      PROVE  Fresh'
  BY <1>0, <1>1 DEF CheckNewStay, Fresh, HasConflict, NewIn, NewOut, OneClient
<1>2. ASSUME NEW c \in Clients, NEW r \in Reservations, Insert(c, r)
      PROVE  Fresh'
  BY <1>0, <1>2 DEF Insert, Fresh, OneClient
<1>3. ASSUME NEW c \in Clients, NEW r \in Reservations, NEW ci \in Given, NEW co \in Given,
             ReadForUpdate(c, r, ci, co)
      PROVE  Fresh'
  <2>1. /\ UNCHANGED rows
        /\ r \in DOMAIN rows
        /\ req'[c].res = r
        /\ req'[c].seen = rows[r]
        /\ req'[c].kind = "UPDATED"
        /\ req'[c].pc = IF ci = Absent /\ co = Absent THEN "write" ELSE "conflict"
        /\ req'[c].ci = ci
        /\ req'[c].co = co
    BY <1>0, <1>3 DEF ReadForUpdate
  <2> QED
    BY <2>1 DEF Fresh, OneClient
<1>4. ASSUME NEW c \in Clients, RecheckDates(c)
      PROVE  Fresh'
  <2>1. req[c] \in Writing /\ req[c].pc = "conflict"
    BY <1>0, <1>4, RequestFields DEF RecheckDates
  <2>2. CASE HasConflict(req[c].seen.room, NewIn(req[c]), NewOut(req[c]), {req[c].res})
    BY <1>0, <1>4, <2>2 DEF RecheckDates, Fresh, Idle, OneClient
  <2>3. CASE ~HasConflict(req[c].seen.room, NewIn(req[c]), NewOut(req[c]), {req[c].res})
    <3>1. /\ UNCHANGED rows
          /\ req'[c] = [req[c] EXCEPT !.pc = "write"]
      BY <1>0, <1>4, <2>3 DEF RecheckDates
    <3>2. /\ req'[c].pc = "write"
          /\ req'[c].kind = req[c].kind
          /\ req'[c].res = req[c].res
          /\ req'[c].seen = req[c].seen
          /\ req'[c].ci = req[c].ci
          /\ req'[c].co = req[c].co
      BY <3>1, <2>1 DEF Writing
    <3>3. /\ req[c].kind = "UPDATED"
          /\ req[c].res \in DOMAIN rows
          /\ req[c].seen = rows[req[c].res]
      BY <2>1 DEF Fresh
    <3>4. ~HasConflict(req[c].seen.room, NewIn(req[c]), NewOut(req[c]), {req[c].res})'
      BY <2>3, <3>1, <3>2 DEF HasConflict, NewIn, NewOut
    <3> QED
      BY <3>1, <3>2, <3>3, <3>4 DEF Fresh, OneClient
  <2> QED
    BY <2>2, <2>3
<1>5. ASSUME NEW c \in Clients, NEW r \in Reservations, NEW target \in Targets,
             ReadForTransition(c, r, target)
      PROVE  Fresh'
  BY <1>0, <1>5 DEF ReadForTransition, Fresh, OneClient, Targets
<1>6. ASSUME NEW c \in Clients, Write(c)
      PROVE  Fresh'
  <2>1. req'[c].pc \in {"readRoom", "publish"}
    BY <1>0, <1>6 DEF Write
  <2> QED
    BY <2>1 DEF Fresh, OneClient
<1>7. ASSUME NEW c \in Clients, ReadRoom(c) \/ SetRoom(c)
      PROVE  Fresh'
  <2>1. req[c] \in Finishing
    BY <1>0, <1>7, RequestFields DEF ReadRoom, SetRoom
  <2>2. req'[c].pc \in {"setRoom", "publish"}
    BY <1>0, <1>7, <2>1 DEF ReadRoom, SetRoom, Settle, Finishing
  <2> QED
    BY <2>2 DEF Fresh, OneClient
<1>8. ASSUME NEW c \in Clients, PublishUnanswered(c) \/ Publish(c) \/ Fail(c)
      PROVE  Fresh'
  <2>1. req'[c].pc \in {"idle", "publish"}
    BY <1>0, <1>8, RequestFields DEF PublishUnanswered, Publish, Fail, Finishing, Idle
  <2> QED
    BY <2>1 DEF Fresh, OneClient
<1>9. ASSUME NEW room \in Rooms, NEW status \in StaffChoices, UpdateRoomStatus(room, status)
      PROVE  Fresh'
  BY <1>9 DEF UpdateRoomStatus, Fresh, HasConflict
<1>10. CASE Restart
  BY <1>10 DEF Restart, Fresh, Idle
<1>11. CASE UNCHANGED vars
  BY <1>11 DEF vars, Fresh, HasConflict
<1> QED
  BY <1>1, <1>2, <1>3, <1>4, <1>5, <1>6, <1>7, <1>8, <1>9, <1>10, <1>11 DEF Next

\* What a fresh write does to its row: a transition the table allows that
\* leaves the dates, or dates that have been checked.
LEMMA FreshWrite ==
  ASSUME TypeOK, Fresh, NEW c \in Clients, Write(c)
  PROVE  LET q == req[c]  old == rows[q.res]  new == rows'[q.res] IN
         /\ q.res \in DOMAIN rows /\ DOMAIN rows' = DOMAIN rows
         /\ \A r \in DOMAIN rows : r # q.res => rows'[r] = rows[r]
         /\ new.room = old.room
         /\ \/ <<old.status, new.status>> \in _TRANSITIONS /\ new.ci = old.ci /\ new.co = old.co
            \/ new = old
            \/ /\ new.status = old.status
               /\ ~HasConflict(old.room, new.ci, new.co, {q.res})
<1> DEFINE q == req[c]
           old == rows[q.res]
           new == rows'[q.res]
<1>1. q \in Writing /\ q.pc = "write"
  BY RequestFields DEF Write, TypeOK
<1>2. /\ q.res \in DOMAIN rows
      /\ q.seen = old
      /\ old \in Row
  BY <1>1 DEF Fresh, TypeOK
<1>3. rows' = [rows EXCEPT ![q.res] = WithColumns(@, q)]
  BY DEF Write
<1>4. new = WithColumns(old, q)
  BY <1>2, <1>3
<1>5. /\ new.room = old.room
      /\ new.ci = NewIn(q)
      /\ new.co = NewOut(q)
      /\ new.status = IF q.kind = "UPDATED" THEN old.status ELSE q.kind
  <2>1. /\ new.room = old.room
        /\ new.ci = IF NewIn(q) = q.seen.ci THEN old.ci ELSE q.ci
        /\ new.co = IF NewOut(q) = q.seen.co THEN old.co ELSE q.co
        /\ new.status = IF q.kind = "UPDATED" THEN old.status ELSE q.kind
    BY <1>2, <1>4 DEF WithColumns, Row
  <2> QED
    BY <2>1, <1>2 DEF NewIn, NewOut
<1>6. CASE q.kind # "UPDATED"
  BY <1>1, <1>2, <1>3, <1>5, <1>6 DEF Fresh, NewIn, NewOut
<1>7. CASE q.kind = "UPDATED" /\ q.ci = Absent /\ q.co = Absent
  <2>1. /\ new.ci = old.ci
        /\ new.co = old.co
        /\ new.status = old.status
    BY <1>2, <1>5, <1>7 DEF NewIn, NewOut
  <2>2. new \in Row
    BY <1>1, <1>2, <1>4, ColumnsType
  <2>3. new = old
    BY <1>2, <1>5, <2>1, <2>2 DEF Row
  <2> QED
    BY <1>2, <1>3, <2>3
<1>8. CASE q.kind = "UPDATED" /\ (q.ci # Absent \/ q.co # Absent)
  <2>1. ~HasConflict(old.room, NewIn(q), NewOut(q), {q.res})
    BY <1>1, <1>2, <1>8 DEF Fresh
  <2> QED
    BY <1>2, <1>3, <1>5, <1>8, <2>1
<1> QED
  BY <1>6, <1>7, <1>8

\* The stays has_conflict finds free of conflict share no night with the active
\* ones of their room.
LEMMA FreeOfConflict ==
  ASSUME TypeOK, NEW room, NEW ci \in Days, NEW co \in Days, NEW excluded,
         ~HasConflict(room, ci, co, excluded),
         NEW r \in DOMAIN rows \ excluded, rows[r].room = room, Active(r)
  PROVE  Nights(r) \cap {d \in Days : ci <= d /\ d < co} = {}
<1>1. rows[r].ci \in Nat /\ rows[r].co \in Nat
  BY BookingsAssumption DEF TypeOK, Row
<1>2. rows[r].ci >= co \/ rows[r].co <= ci
  BY <1>1, BookingsAssumption DEF HasConflict, Active, Overlaps
<1>3. ASSUME NEW d \in Nat, rows[r].ci <= d, d < rows[r].co, ci <= d, d < co
      PROVE  FALSE
  BY <1>1, <1>2, <1>3, BookingsAssumption
<1> QED
  BY <1>3, BookingsAssumption DEF Nights

LEMMA NightsStep ==
  TypeOK /\ TypeOK' /\ Fresh /\ NoDoubleBooking /\ [Next]_vars => NoDoubleBooking'
<1> SUFFICES ASSUME TypeOK, TypeOK', Fresh, NoDoubleBooking, [Next]_vars
             PROVE  NoDoubleBooking'
  OBVIOUS
<1>1. CASE UNCHANGED rows
  BY <1>1 DEF NoDoubleBooking, Nights, Active
<1>2. ASSUME NEW c \in Clients, NEW r \in Reservations, Insert(c, r)
      PROVE  NoDoubleBooking'
  <2> DEFINE q == req[c]
  <2>1. q \in Inserting /\ ~HasConflict(q.room, q.ci, q.co, {})
    BY <1>2, RequestFields DEF Insert, TypeOK, Fresh
  <2>2. /\ r \notin DOMAIN rows
        /\ DOMAIN rows' = DOMAIN rows \cup {r}
        /\ \A s \in DOMAIN rows : rows'[s] = rows[s]
        /\ rows'[r].room = q.room /\ rows'[r].ci = q.ci /\ rows'[r].co = q.co
    BY <1>2 DEF Insert
  <2>3. ASSUME NEW s \in DOMAIN rows, rows[s].room = q.room, Active(s)
        PROVE  Nights(r)' \cap Nights(s)' = {}
    <3>1. Nights(s) \cap {d \in Days : q.ci <= d /\ d < q.co} = {}
      BY <2>1, <2>3, FreeOfConflict DEF Inserting
    <3> QED
      BY <2>2, <3>1 DEF Nights
  <2>4. ASSUME NEW s \in DOMAIN rows, NEW t \in DOMAIN rows,
               s # t, rows[s].room = rows[t].room, Active(s), Active(t)
        PROVE  Nights(s)' \cap Nights(t)' = {}
    <3>1. Nights(s) \cap Nights(t) = {}
      BY <2>4 DEF NoDoubleBooking
    <3> QED
      BY <2>2, <3>1 DEF Nights
  <2> QED
    BY <2>2, <2>3, <2>4 DEF NoDoubleBooking, Active
<1>3. ASSUME NEW c \in Clients, Write(c)
      PROVE  NoDoubleBooking'
  <2>0. PICK x : x = req[c].res
    OBVIOUS
  <2>1. /\ x \in DOMAIN rows /\ DOMAIN rows' = DOMAIN rows
        /\ \A r \in DOMAIN rows : r # x => rows'[r] = rows[r]
        /\ rows'[x].room = rows[x].room
        /\ rows'[x].ci \in Days /\ rows'[x].co \in Days
    BY <1>3, <2>0, FreshWrite DEF TypeOK, Row
  <2>2. ASSUME NEW s \in DOMAIN rows, s # x, rows[s].room = rows[x].room,
               Active(s), Active(x)'
        PROVE  Nights(x)' \cap Nights(s)' = {}
    <3>1. Nights(s)' = Nights(s)
      BY <2>1, <2>2 DEF Nights
    <3>2. CASE /\ rows'[x].ci = rows[x].ci /\ rows'[x].co = rows[x].co
               /\ Active(x)
      <4>1. {d \in Days : rows'[x].ci <= d /\ d < rows'[x].co} = Nights(x)
        BY <3>2 DEF Nights
      <4>2. Nights(x) \cap Nights(s) = {}
        BY <2>1, <2>2, <3>2 DEF NoDoubleBooking
      <4> QED
        BY <3>1, <4>1, <4>2 DEF Nights
    <3>3. CASE ~HasConflict(rows[x].room, rows'[x].ci, rows'[x].co, {x})
      <4>1. Nights(s) \cap {d \in Days : rows'[x].ci <= d /\ d < rows'[x].co} = {}
        BY <2>1, <2>2, <3>3, FreeOfConflict
      <4> QED
        BY <3>1, <4>1 DEF Nights
    <3>4. \/ <<rows[x].status, rows'[x].status>> \in _TRANSITIONS
             /\ rows'[x].ci = rows[x].ci /\ rows'[x].co = rows[x].co
          \/ rows'[x] = rows[x]
          \/ ~HasConflict(rows[x].room, rows'[x].ci, rows'[x].co, {x})
      BY <1>3, <2>0, FreshWrite
    <3>5. ASSUME <<rows[x].status, rows'[x].status>> \in _TRANSITIONS
          PROVE  Active(x)
      BY <3>5 DEF _TRANSITIONS, Active, Released
    <3>6. rows'[x] = rows[x] => Active(x)
      BY <2>2 DEF Active
    <3> QED
      BY <3>2, <3>3, <3>4, <3>5, <3>6
  <2>3. ASSUME NEW s \in DOMAIN rows, NEW t \in DOMAIN rows, s # t,
               s # x, t # x,
               rows[s].room = rows[t].room, Active(s), Active(t)
        PROVE  Nights(s)' \cap Nights(t)' = {}
    <3>1. Nights(s) \cap Nights(t) = {}
      BY <2>3 DEF NoDoubleBooking
    <3> QED
      BY <2>1, <2>3, <3>1 DEF Nights
  <2>4. \A s \in DOMAIN rows : s # x => (Active(s)' <=> Active(s))
    BY <2>1 DEF Active
  <2> QED
    BY <2>1, <2>2, <2>3, <2>4 DEF NoDoubleBooking
<1> QED
  BY <1>1, <1>2, <1>3 DEF Next, vars, CheckNewStay, ReadForUpdate, RecheckDates,
     ReadForTransition, ReadRoom, SetRoom, PublishUnanswered, Publish,
     Fail, UpdateRoomStatus, Restart

LEMMA FreshInit == Init => Fresh /\ NoDoubleBooking
BY DEF Init, Fresh, NoDoubleBooking, Idle

\* Requests that do not overlap never book a night of a room twice, whatever
\* they fail at and however often the process restarts.
THEOREM SerialNoDoubleBooking ==
  ASSUME OneClient
  PROVE  Spec => []NoDoubleBooking
<1>1. TypeOK /\ Fresh /\ [Next]_vars => Fresh'
  BY OneClient, FreshStep
<1> QED
  BY <1>1, FreshInit, NightsStep, BookingsType, PTL DEF Spec

\* Requests that do not overlap move a reservation only along _TRANSITIONS.
THEOREM SerialStatusFollowsTable ==
  ASSUME OneClient
  PROVE  Spec => StatusFollowsTable
<1>1. TypeOK /\ Fresh /\ [Next]_vars => Fresh'
  BY OneClient, FreshStep
<1>2. TypeOK /\ Fresh /\ [Next]_vars =>
        [\A r \in DOMAIN rows :
           rows'[r].status # rows[r].status
             => <<rows[r].status, rows'[r].status>> \in _TRANSITIONS]_vars
  <2> SUFFICES ASSUME TypeOK, Fresh, [Next]_vars, NEW r \in DOMAIN rows,
                      rows'[r].status # rows[r].status
               PROVE  <<rows[r].status, rows'[r].status>> \in _TRANSITIONS
    OBVIOUS
  <2>1. ASSUME NEW c \in Clients, NEW s \in Reservations, Insert(c, s)
        PROVE  FALSE
    BY <2>1 DEF Insert
  <2>2. ASSUME NEW c \in Clients, Write(c)
        PROVE  <<rows[r].status, rows'[r].status>> \in _TRANSITIONS
    BY <2>2, FreshWrite
  <2>3. rows' # rows
    OBVIOUS
  <2> QED
    BY <2>1, <2>2, <2>3 DEF Next, vars, CheckNewStay, ReadForUpdate, RecheckDates,
       ReadForTransition, ReadRoom, SetRoom, PublishUnanswered, Publish,
     Fail, UpdateRoomStatus, Restart
<1> QED
  BY <1>1, <1>2, FreshInit, BookingsType, PTL DEF Spec, StatusFollowsTable
-----------------------------------------------------------------------------
(* Rooms and the stays that settle them *)

\* A check-in or check-out of stay r is committed and its room's side is not.
Unfinished(r) == \E c \in Clients : r \in HalfWay(req[c])

\* The strengthening of RoomFollowsStay: the room a stay settled is its own, the
\* stay has been checked in, and the two agree but while a request of it is half
\* way or after its last one broke off there.
Stays ==
  /\ \A room \in Rooms : \A r \in lastStay[room] :
       /\ r \in DOMAIN rows /\ rows[r].room = room
       /\ rows[r].status \in {"CHECKED_IN", "CHECKED_OUT"}
       /\ \/ r \in unsettled
          \/ Unfinished(r)
          \/ roomStatus[room] = "OCCUPIED" <=> rows[r].status = "CHECKED_IN"
  /\ \A c \in Clients : \A r \in HalfWay(req[c]) :
       /\ req[c].kind \in {"CHECKED_IN", "CHECKED_OUT"}
       /\ r \in DOMAIN rows /\ rows[r].status = req[c].kind

\* A step that leaves rows and rooms alone: a request that was half way goes on
\* or is written down as unsettled, and no other gets half way.
LEMMA StaysQuiet ==
  ASSUME Stays, UNCHANGED <<rows, roomStatus, lastStay>>,
         unsettled \subseteq unsettled',
         \A c \in Clients :
           /\ HalfWay(req'[c]) # {} => req'[c] = req[c]
           /\ req'[c] = req[c] \/ HalfWay(req[c]) \subseteq unsettled'
  PROVE  Stays'
<1>1. ASSUME NEW r, Unfinished(r) PROVE Unfinished(r)' \/ r \in unsettled'
  BY <1>1 DEF Unfinished
<1>2. ASSUME NEW room \in Rooms, NEW r \in lastStay[room]
      PROVE  /\ r \in DOMAIN rows /\ rows[r].room = room
             /\ rows[r].status \in {"CHECKED_IN", "CHECKED_OUT"}
             /\ \/ r \in unsettled'
                \/ Unfinished(r)'
                \/ roomStatus[room] = "OCCUPIED" <=> rows[r].status = "CHECKED_IN"
  BY <1>1 DEF Stays
<1>3. ASSUME NEW c \in Clients, NEW r \in HalfWay(req'[c])
      PROVE  /\ req'[c].kind \in {"CHECKED_IN", "CHECKED_OUT"}
             /\ r \in DOMAIN rows /\ rows[r].status = req'[c].kind
  BY <1>3 DEF Stays
<1> QED
  BY <1>2, <1>3 DEF Stays

\* The room's side of a check-in or check-out: the stay and its room agree.
LEMMA StaysSettled ==
  ASSUME TypeOK, OneClient, Stays, NEW c \in Clients,
         req[c].pc \in {"readRoom", "setRoom"},
         NEW room, room = rows[req[c].res].room,
         roomStatus' = [roomStatus EXCEPT ![room] = RoomStatusAfter(req[c].kind)],
         Settle(c, room), req'[c].pc = "publish", UNCHANGED rows
  PROVE  Stays'
<1>1. /\ req[c].res \in DOMAIN rows /\ rows[req[c].res].status = req[c].kind
      /\ req[c].kind \in {"CHECKED_IN", "CHECKED_OUT"} /\ room \in Rooms
      /\ \A d \in Clients : d = c
      /\ HalfWay(req[c]) = {req[c].res} /\ HalfWay(req'[c]) = {}
      /\ lastStay' = [lastStay EXCEPT ![room] = {req[c].res}]
      /\ unsettled' = unsettled \ {req[c].res}
  BY DEF Stays, TypeOK, Row, OneClient, HalfWay, Settle
<1>2. ASSUME NEW other \in Rooms, NEW r \in lastStay'[other]
      PROVE  /\ r \in DOMAIN rows /\ rows[r].room = other
             /\ rows[r].status \in {"CHECKED_IN", "CHECKED_OUT"}
             /\ \/ r \in unsettled'
                \/ roomStatus'[other] = "OCCUPIED" <=> rows[r].status = "CHECKED_IN"
  <2>1. CASE other = room
    <3>1. r = req[c].res /\ roomStatus'[room] = RoomStatusAfter(req[c].kind)
      BY <1>1, <1>2, <2>1 DEF TypeOK
    <3> QED
      BY <1>1, <2>1, <3>1 DEF RoomStatusAfter
  <2>2. CASE other # room
    <3>1. r \in lastStay[other] /\ roomStatus'[other] = roomStatus[other]
      BY <1>1, <1>2, <2>2 DEF TypeOK
    <3>2. r # req[c].res /\ ~Unfinished(r)
      BY <1>1, <2>2, <3>1 DEF Unfinished, Stays
    <3> QED
      BY <1>1, <3>1, <3>2 DEF Stays
  <2> QED
    BY <2>1, <2>2
<1>3. \A d \in Clients : HalfWay(req'[d]) = {}
  BY <1>1
<1> QED
  BY <1>1, <1>2, <1>3 DEF Stays

LEMMA StaysStep == TypeOK /\ Fresh /\ Stays /\ OneClient /\ [Next]_vars => Stays'
<1> SUFFICES ASSUME TypeOK, Fresh, Stays, OneClient, [Next]_vars PROVE Stays'
  OBVIOUS
<1>0. req \in [Clients -> Request]
  BY DEF TypeOK
<1>1. ASSUME NEW c \in Clients, NEW q, req[c] = Idle, req' = [req EXCEPT ![c] = q],
             q.pc \in {"insert", "write", "conflict"}, UNCHANGED <<rows, rooms>>
      PROVE  Stays'
  <2>1. req'[c] = q /\ \A d \in Clients : d # c => req'[d] = req[d]
    BY <1>0, <1>1
  <2>2. HalfWay(req[c]) = {} /\ HalfWay(req'[c]) = {}
    BY <1>1, <2>1 DEF HalfWay, Idle
  <2> QED
    BY <1>1, <2>1, <2>2, StaysQuiet
<1>a. ASSUME NEW c \in Clients, NEW room, NEW ci, NEW co, CheckNewStay(c, room, ci, co)
      PROVE  Stays'
  BY <1>1, <1>a DEF CheckNewStay
<1>b. ASSUME NEW c \in Clients, NEW r, NEW ci, NEW co, ReadForUpdate(c, r, ci, co)
      PROVE  Stays'
  <2>1. PICK pc \in {"write", "conflict"} :
          req' = [req EXCEPT ![c] = [pc |-> pc, kind |-> "UPDATED", res |-> r,
                                     seen |-> rows[r], ci |-> ci, co |-> co]]
    BY <1>b DEF ReadForUpdate
  <2> QED
    BY <1>1, <1>b, <2>1 DEF ReadForUpdate
<1>c. ASSUME NEW c \in Clients, NEW r, NEW target, ReadForTransition(c, r, target)
      PROVE  Stays'
  BY <1>1, <1>c DEF ReadForTransition
<1>2. ASSUME NEW c \in Clients, RecheckDates(c) PROVE Stays'
  <2>1. req[c] \in Writing /\ req[c].pc = "conflict"
    BY <1>0, <1>2, RequestFields DEF RecheckDates
  <2>2. /\ req'[c].pc \in {"idle", "write"}
        /\ \A d \in Clients : d # c => req'[d] = req[d]
        /\ UNCHANGED <<rows, rooms>>
    BY <1>0, <1>2, <2>1 DEF RecheckDates, Writing, Idle
  <2>3. HalfWay(req[c]) = {} /\ HalfWay(req'[c]) = {}
    BY <2>1, <2>2 DEF HalfWay
  <2> QED
    BY <2>2, <2>3, StaysQuiet
<1>3. ASSUME NEW c \in Clients, NEW r \in Reservations, Insert(c, r) PROVE Stays'
  <2>1. /\ \A d \in Clients : req[d].pc = "insert" /\ req'[d].pc = "publish"
        /\ r \notin DOMAIN rows /\ DOMAIN rows' = DOMAIN rows \cup {r}
        /\ \A s \in DOMAIN rows : rows'[s] = rows[s]
        /\ UNCHANGED rooms
    BY <1>0, <1>3 DEF Insert, OneClient
  <2>2. \A d \in Clients : HalfWay(req[d]) = {} /\ HalfWay(req'[d]) = {}
    BY <2>1 DEF HalfWay
  <2> QED
    BY <2>1, <2>2 DEF Stays, Unfinished
<1>4. ASSUME NEW c \in Clients, Write(c) PROVE Stays'
  <2>0. PICK q, x : q = req[c] /\ x = q.res
    OBVIOUS
  <2>1. /\ x \in DOMAIN rows /\ DOMAIN rows' = DOMAIN rows
        /\ \A r \in DOMAIN rows : r # x => rows'[r] = rows[r]
        /\ rows'[x].room = rows[x].room
        /\ rows'[x].status = rows[x].status \/ <<rows[x].status, rows'[x].status>> \in _TRANSITIONS
    BY <1>4, <2>0, FreshWrite
  <2>2. /\ q \in Writing /\ rows[x] \in Row
        /\ rows'[x] = WithColumns(rows[x], q)
    BY <1>0, <1>4, <2>0, <2>1, RequestFields DEF Write, TypeOK
  <2>3. rows'[x].status = IF q.kind = "UPDATED" THEN rows[x].status ELSE q.kind
    BY <2>2 DEF WithColumns, Row
  <2>4. /\ \A d \in Clients : d = c
        /\ req[c].pc = "write" /\ req'[c].kind = q.kind /\ req'[c].res = x
        /\ req'[c].pc = IF q.kind \in {"CHECKED_IN", "CHECKED_OUT"} THEN "readRoom" ELSE "publish"
        /\ UNCHANGED rooms
    BY <1>0, <1>4, <2>0 DEF Write, OneClient
  <2>5. /\ \A d \in Clients : HalfWay(req[d]) = {}
        /\ HalfWay(req'[c]) = IF q.kind \in {"CHECKED_IN", "CHECKED_OUT"} THEN {x} ELSE {}
    BY <2>4 DEF HalfWay
  <2>6. ASSUME NEW room \in Rooms, NEW r \in lastStay[room]
        PROVE  /\ r \in DOMAIN rows /\ rows'[r].room = room
               /\ rows'[r].status \in {"CHECKED_IN", "CHECKED_OUT"}
               /\ \/ r \in unsettled
                  \/ Unfinished(r)'
                  \/ roomStatus[room] = "OCCUPIED" <=> rows'[r].status = "CHECKED_IN"
    <3>1. CASE r # x \/ rows'[r].status = rows[r].status
      BY <2>1, <2>5, <3>1 DEF Stays, Unfinished
    <3>2. CASE r = x /\ rows'[r].status # rows[r].status
      <4>1. rows'[x].status = "CHECKED_OUT" /\ q.kind = "CHECKED_OUT"
        BY <2>1, <2>3, <3>2 DEF Stays, _TRANSITIONS
      <4>2. Unfinished(r)'
        BY <2>5, <3>2, <4>1 DEF Unfinished
      <4> QED
        BY <2>1, <3>2, <4>1, <4>2 DEF Stays
    <3> QED
      BY <3>1, <3>2
  <2>7. ASSUME NEW d \in Clients, NEW r \in HalfWay(req'[d])
        PROVE  /\ req'[d].kind \in {"CHECKED_IN", "CHECKED_OUT"}
               /\ r \in DOMAIN rows' /\ rows'[r].status = req'[d].kind
    BY <2>1, <2>3, <2>4, <2>5, <2>7
  <2> QED
    BY <2>1, <2>4, <2>6, <2>7 DEF Stays
<1>5. ASSUME NEW c \in Clients, ReadRoom(c) \/ SetRoom(c) PROVE Stays'
  <2>0. PICK room : room = rows[req[c].res].room
    OBVIOUS
  <2>1. /\ req[c] \in Finishing /\ req[c].pc \in {"readRoom", "setRoom"}
        /\ \A d \in Clients : d = c
        /\ HalfWay(req[c]) = {req[c].res}
    BY <1>0, <1>5, RequestFields DEF ReadRoom, SetRoom, OneClient, HalfWay
  <2>a. room \in Rooms
    BY <2>0, <2>1 DEF Stays, TypeOK, Row
  <2>2. CASE Settle(c, room)
    <3>1. /\ roomStatus' = [roomStatus EXCEPT ![room] = RoomStatusAfter(req[c].kind)]
          /\ UNCHANGED rows
      <4>2. CASE SetRoom(c)
        BY <2>0, <4>2 DEF SetRoom
      <4>3. CASE ReadRoom(c)
        <5>1. CASE roomStatus[room] = RoomStatusAfter(req[c].kind)
          BY <2>0, <2>a, <4>3, <5>1 DEF ReadRoom, TypeOK
        <5>2. CASE roomStatus[room] # RoomStatusAfter(req[c].kind)
          <6>1. req'[c].pc = "setRoom"
            BY <1>0, <2>0, <2>1, <4>3, <5>2 DEF ReadRoom, Finishing
          <6>2. req'[c].pc = "publish"
            BY <1>0, <2>1, <2>2 DEF Settle, Finishing
          <6> QED
            BY <6>1, <6>2
        <5> QED
          BY <5>1, <5>2
      <4> QED
        BY <1>5, <4>2, <4>3
    <3>2. req'[c].pc = "publish"
      BY <1>0, <2>1, <2>2 DEF Settle, Finishing
    <3> QED
      BY <2>0, <2>1, <2>2, <3>1, <3>2, StaysSettled
  <2>3. CASE ~Settle(c, room)
    <3>1. req' = [req EXCEPT ![c].pc = "setRoom"] /\ UNCHANGED <<rows, rooms>>
      BY <1>5, <2>0, <2>3 DEF ReadRoom, SetRoom
    <3>2. /\ HalfWay(req'[c]) = {req[c].res} /\ req'[c].kind = req[c].kind
          /\ req'[c].res = req[c].res
      BY <1>0, <2>1, <3>1 DEF Finishing, HalfWay
    <3>3. \A r : Unfinished(r)' <=> Unfinished(r)
      BY <2>1, <3>2 DEF Unfinished
    <3> QED
      BY <2>1, <3>1, <3>2, <3>3 DEF Stays
  <2> QED
    BY <2>2, <2>3
<1>6. ASSUME NEW c \in Clients, PublishUnanswered(c) \/ Publish(c) \/ Fail(c) PROVE Stays'
  <2>1. /\ \A d \in Clients : d # c => req'[d] = req[d]
        /\ UNCHANGED <<rows, roomStatus, lastStay>> /\ unsettled \subseteq unsettled'
    BY <1>0, <1>6 DEF PublishUnanswered, Publish, Fail
  <2>2. req'[c].pc \in {"idle", "publish"}
    BY <1>0, <1>6, RequestFields DEF PublishUnanswered, Publish, Fail, Finishing, Idle
  <2>3. HalfWay(req[c]) \subseteq unsettled'
    BY <1>6 DEF PublishUnanswered, Publish, Fail, HalfWay
  <2>4. HalfWay(req'[c]) = {}
    BY <2>2 DEF HalfWay
  <2> QED
    BY <2>1, <2>3, <2>4, StaysQuiet
<1>7. ASSUME NEW room \in Rooms, NEW status \in StaffChoices, UpdateRoomStatus(room, status)
      PROVE  Stays'
  <2>1. \A r : Unfinished(r)' <=> Unfinished(r)
    BY <1>7 DEF UpdateRoomStatus, Unfinished
  <2>2. ASSUME NEW other \in Rooms, NEW r \in lastStay'[other]
        PROVE  r \in lastStay[other] /\ roomStatus'[other] = roomStatus[other]
    BY <1>7, <2>2 DEF UpdateRoomStatus, TypeOK
  <2> QED
    BY <1>7, <2>1, <2>2 DEF UpdateRoomStatus, Stays
<1>8. CASE Restart
  <2>1. /\ \A c \in Clients : req'[c] = Idle /\ HalfWay(req[c]) \subseteq unsettled'
        /\ UNCHANGED <<rows, roomStatus, lastStay>> /\ unsettled \subseteq unsettled'
    BY <1>8 DEF Restart
  <2>2. HalfWay(Idle) = {}
    BY DEF HalfWay, Idle
  <2> QED
    BY <2>1, <2>2, StaysQuiet
<1>9. CASE UNCHANGED vars
  BY <1>9, StaysQuiet DEF vars
<1> QED
  BY <1>a, <1>b, <1>c, <1>2, <1>3, <1>4, <1>5, <1>6, <1>7, <1>8, <1>9 DEF Next

\* Requests that do not overlap leave the room a stay settled OCCUPIED exactly
\* while the stay is checked in, unless the stay's last check-in or check-out
\* broke off between its two commits.
THEOREM SerialRoomFollowsStay ==
  ASSUME OneClient
  PROVE  Spec => []RoomFollowsStay
<1> DEFINE IInv == Fresh /\ Stays
<1>1. Init => IInv
  BY FreshInit DEF Init, Stays, Idle, HalfWay
<1>2. TypeOK /\ IInv /\ [Next]_vars => IInv'
  BY OneClient, FreshStep, StaysStep
<1>3. IInv => RoomFollowsStay
  BY DEF Stays, Unfinished, HalfWay, Settled, RoomFollowsStay
<1> QED
  BY <1>1, <1>2, <1>3, BookingsType, PTL DEF Spec
=============================================================================
