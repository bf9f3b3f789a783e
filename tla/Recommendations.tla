-------------------------- MODULE Recommendations --------------------------
(***************************************************************************)
(* What happens to a recommendation once it was shown: the endpoints of    *)
(* app/routers/recommendations.py over app/services/recommendation.py, and *)
(* the price of the room type that an accepted one changes, which the      *)
(* catalogue changes too.                                                  *)
(*                                                                         *)
(* An action is one statement or commit of a request.  ORM sessions send   *)
(* only the columns that differ from the row they read.                    *)
(***************************************************************************)
EXTENDS Naturals

CONSTANTS
  Clients,       \* concurrent HTTP requests, one at a time per client
  RoomTypes,
  RecIds,        \* recommendation ids the database may hand out
  Prices,
  NoPrice,       \* the column applied_value is null, or has no price
  Answers        \* pairs [status, applied] users send

VARIABLES
  recs,      \* table recommendations
  price,     \* column base_price of table room_types
  req,       \* what each client's request is about to do
  decided,   \* history: the last price a user settled for each room type
  raced,     \* history: room types two requests were working on at once
  broken     \* history: room types whose decision was committed and not applied

vars == <<recs, price, req, decided, raced, broken>>

Decisions == {"ACCEPTED", "MODIFIED", "DISMISSED"}

AllAnswers == [status : Decisions, applied : Prices \cup {NoPrice}]

\* What a recommendation is about: a PRICING one a room type; STAFFING,
\* RESTAURANT_DEMAND and CHURN_INTERVENTION differ in nothing here.
Refs == RoomTypes \cup {"other"}

\* `offer` is the clamped price of a PRICING recommendation.
Row == [ref : Refs, offer : Prices, measured : BOOLEAN,
        status : {"SHOWN"} \cup Decisions, applied : Prices \cup {NoPrice}]

Idle == [pc |-> "idle"]

Request ==
  {Idle}
  \cup [pc : {"decide"}, rec : RecIds, type : Refs, seen : Row, answer : AllAnswers]
  \cup [pc : {"refresh"}, rec : RecIds, type : Refs]
  \cup [pc : {"room_type"}, type : RoomTypes, price : Prices]
  \cup [pc : {"price"}, type : RoomTypes, price : Prices, seen : Prices]

WorksOn(c, type) == req[c] # Idle /\ req[c].type = type

Continue(c, q) == req' = [req EXCEPT ![c] = q]

Begin(c, type, q) ==
  /\ req[c] = Idle
  /\ Continue(c, q)
  /\ raced' = IF \E d \in Clients : WorksOn(d, type) THEN raced \cup {type} ELSE raced

\* What an UPDATE leaves in a column: only a value other than the one seen is sent.
Column(new, seen, now) == IF new = seen THEN now ELSE new
-----------------------------------------------------------------------------

\* record_shown, the last step of every endpoint that asks the ML service for
\* something a user can act on; the steps before it store nothing.
Show(r, ref, offer) ==
  /\ r \notin DOMAIN recs
  /\ recs' = [x \in DOMAIN recs \cup {r} |->
                IF x = r THEN [ref |-> ref, offer |-> offer, measured |-> FALSE,
                               status |-> "SHOWN", applied |-> NoPrice]
                ELSE recs[x]]
  /\ UNCHANGED <<price, req, decided, raced, broken>>

\* act_on_recommendation: an id that is not there answers 404, any other status
\* than the three 400.  What was decided before is not looked at.
ReadToDecide(c, r, answer) ==
  /\ r \in DOMAIN recs
  /\ Begin(c, recs[r].ref, [pc |-> "decide", rec |-> r, type |-> recs[r].ref,
                            seen |-> recs[r], answer |-> answer])
  /\ UNCHANGED <<recs, price, decided, broken>>

\* The price a decided recommendation stands for: the user's before the offered.
PriceOf(row) == IF row.applied # NoPrice THEN row.applied ELSE row.offer

Applies(row) == row.ref \in RoomTypes /\ row.status \in {"ACCEPTED", "MODIFIED"}

WriteDecision(c) ==
  /\ req[c].pc = "decide"
  /\ LET q == req[c]
         asked == [q.seen EXCEPT !.status = q.answer.status, !.applied = q.answer.applied] IN
     /\ recs' = [recs EXCEPT
                   ![q.rec].status = Column(q.answer.status, q.seen.status, @),
                   ![q.rec].applied = Column(q.answer.applied, q.seen.applied, @)]
     /\ decided' = IF Applies(asked) THEN [decided EXCEPT ![q.type] = PriceOf(asked)]
                   ELSE decided
     /\ Continue(c, [pc |-> "refresh", rec |-> q.rec, type |-> q.type])
  /\ UNCHANGED <<price, raced, broken>>

\* Mutation: an accepted recommendation applies what the ML service offered.
RefreshOffer(c) ==
  /\ req[c].pc = "refresh"
  /\ LET row == recs[req[c].rec] IN
     Continue(c, IF Applies(row)
                 THEN [pc |-> "room_type", type |-> req[c].type, price |-> row.offer]
                 ELSE Idle)
  /\ UNCHANGED <<recs, price, decided, raced, broken>>

\* The row is read back as it is now, and _apply_pricing_recommendation works
\* with that: another request's decision may be the one that is applied.
Refresh(c) ==
  /\ req[c].pc = "refresh"
  /\ LET row == recs[req[c].rec] IN
     Continue(c, IF Applies(row)
                 THEN [pc |-> "room_type", type |-> req[c].type, price |-> PriceOf(row)]
                 ELSE Idle)
  /\ UNCHANGED <<recs, price, decided, raced, broken>>

ReadRoomType(c) ==
  /\ req[c].pc = "room_type"
  /\ Continue(c, [pc |-> "price", type |-> req[c].type, price |-> req[c].price,
                  seen |-> price[req[c].type]])
  /\ UNCHANGED <<recs, price, decided, raced, broken>>

WritePrice(c) ==
  /\ req[c].pc = "price"
  /\ LET q == req[c] IN price' = [price EXCEPT ![q.type] = Column(q.price, q.seen, @)]
  /\ Continue(c, Idle)
  /\ UNCHANGED <<recs, decided, raced, broken>>

\* PUT /hotels/room-types/{id} with a base_price: the same read and write.
UpdateRoomType(c, type, p) ==
  /\ Begin(c, type, [pc |-> "room_type", type |-> type, price |-> p])
  /\ decided' = [decided EXCEPT ![type] = p]
  /\ UNCHANGED <<recs, price, broken>>

\* measure_outcome answers 400 for other types than PRICING.  It reads the
\* revenue of the day and writes the outcome columns; whether the recommendation
\* was acted on is not looked at.
MeasureOutcome(r) ==
  /\ r \in DOMAIN recs /\ recs[r].ref \in RoomTypes
  /\ recs' = [recs EXCEPT ![r].measured = TRUE]
  /\ UNCHANGED <<price, req, decided, raced, broken>>

\* A statement raises or the process dies: a committed decision stays, its price
\* is not applied.
Fail(c) ==
  /\ req[c] # Idle
  /\ broken' = IF req[c].pc # "decide" THEN broken \cup {req[c].type} ELSE broken
  /\ Continue(c, Idle)
  /\ UNCHANGED <<recs, price, decided, raced>>
-----------------------------------------------------------------------------

Init ==
  /\ recs = [r \in {} |-> {}]
  /\ price \in [RoomTypes -> Prices]
  /\ req = [c \in Clients |-> Idle]
  /\ decided = price
  /\ raced = {}
  /\ broken = {}

Next ==
  \/ \E r \in RecIds, ref \in Refs, offer \in Prices : Show(r, ref, offer)
  \/ \E r \in RecIds : MeasureOutcome(r)
  \/ \E c \in Clients :
       \/ \E r \in RecIds, answer \in Answers : ReadToDecide(c, r, answer)
       \/ \E type \in RoomTypes, p \in Prices : UpdateRoomType(c, type, p)
       \/ WriteDecision(c)
       \/ Refresh(c)
       \/ ReadRoomType(c)
       \/ WritePrice(c)
       \/ Fail(c)

Spec == Init /\ [][Next]_vars
-----------------------------------------------------------------------------

\* Every row, request and price is of its kind.
TypeOK ==
  /\ \E ids \in SUBSET RecIds : recs \in [ids -> Row]
  /\ price \in [RoomTypes -> Prices]
  /\ req \in [Clients -> Request]
  /\ decided \in [RoomTypes -> Prices]
  /\ raced \subseteq Refs /\ broken \subseteq Refs

\* A room type that no two requests worked on at once, no decision of which was
\* broken off, costs what its last decision said: the user's price when one was
\* given, the clamped offer when none was, in whichever order recommendations of
\* the room type are accepted, modified, dismissed and decided again.
PriceFollowsDecision ==
  \A type \in RoomTypes \ (raced \cup broken) :
    (\A c \in Clients : ~WorksOn(c, type)) => price[type] = decided[type]
=============================================================================
