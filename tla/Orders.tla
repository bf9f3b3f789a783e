------------------------------- MODULE Orders -------------------------------
(***************************************************************************)
(* Restaurant orders, app/services/restaurant.py: requests of one asyncio  *)
(* process over the tables restaurant_orders and order_items and the topic *)
(* restaurant.events.                                                      *)
(*                                                                         *)
(* An action is one database statement, one commit or one publish.  An     *)
(* order's total is a column of its own: add_item and remove_item commit   *)
(* the item first and then the total, computed from the row the request    *)
(* read at its start.  Neither the quantity nor the price of an item has a *)
(* sign the code checks, so that a subtotal and a total are any integers.  *)
(***************************************************************************)
EXTENDS Integers, Sequences, Functions

CONSTANTS
  Clients,    \* concurrent HTTP requests, one at a time per client
  Orders,     \* order ids the database may hand out
  Items,      \* item ids the database may hand out
  Subtotals   \* price * quantity of what is ordered

ASSUME OrdersAssumption == Subtotals \subseteq Int

VARIABLES
  orders,    \* table restaurant_orders: the rows inserted so far
  items,     \* table order_items: the rows present
  deleted,   \* item ids deleted: never handed out again
  req,       \* what each client's request is about to do
  events,    \* topic restaurant.events
  chargeable,   \* history: all that may have raised the total, per order: the
                \* subtotals of items put on it, less those of items taken off
                \* it that had lowered it
  lowered,   \* history: orders an item of negative subtotal was ever put on
  raced,     \* history: orders two requests were working on at the same time
  broken     \* history: orders whose total a failed request left unwritten

tables == <<orders, items, deleted>>
sums == <<chargeable, lowered>>
history == <<sums, raced, broken>>
vars == <<tables, req, events, history>>

OrderStatus == {"OPEN", "CLOSED", "CANCELLED"}

Kinds == {"OrderCreated", "OrderUpdated", "OrderCompleted", "OrderCancelled"}

Row == [status : OrderStatus, total : Int]

Item == [order : Orders, subtotal : Subtotals]

Idle == [pc |-> "idle"]

\* OrderCreated and OrderCompleted carry the total, the others do not.
Event ==
  [order : Orders, kind : {"OrderCreated", "OrderCompleted"}, status : OrderStatus, total : Int]
  \cup [order : Orders, kind : {"OrderUpdated", "OrderCancelled"}, status : OrderStatus]

\* What the topic holds: `id` is the event_id, by which consumers recognise an
\* event: its first place in the topic.
Sent == [id : Nat, told : Event]

\* `sent` is the id of the request's event if the broker has that already, or 0.
Request ==
  {Idle}
  \cup [pc : {"insertItem"}, order : Orders, total : Int, subtotal : Subtotals]
  \cup [pc : {"findItem"}, order : Orders, total : Int]
  \cup [pc : {"deleteItem"}, order : Orders, total : Int, item : Items, subtotal : Subtotals]
  \cup [pc : {"writeTotal"}, order : Orders, total : Int, newTotal : Int]
  \cup [pc : {"writeStatus"}, order : Orders, status : OrderStatus \ {"OPEN"}]
  \cup [pc : {"refresh"}, order : Orders, kind : Kinds]
  \cup [pc : {"publish"}, order : Orders, event : Event, sent : Nat]

WorksOn(c, o) == req[c] # Idle /\ req[c].order = o

\* A request reads order o; another one may be at work on it.
Begin(c, o, q) ==
  /\ req[c] = Idle
  /\ o \in DOMAIN orders
  /\ req' = [req EXCEPT ![c] = q]
  /\ raced' = IF \E d \in Clients : WorksOn(d, o) THEN raced \cup {o} ELSE raced
  /\ UNCHANGED <<tables, events, sums, broken>>

Continue(c, q) == req' = [req EXCEPT ![c] = q]

\* What a change of the total by n may charge.
Charge(n) == IF n > 0 THEN n ELSE 0

-----------------------------------------------------------------------------
(* open_order *)

OpenOrder(c, o) ==
  /\ req[c] = Idle
  /\ o \notin DOMAIN orders
  /\ orders' = [x \in DOMAIN orders \cup {o} |->
                  IF x = o THEN [status |-> "OPEN", total |-> 0] ELSE orders[x]]
  /\ Continue(c, [pc |-> "refresh", order |-> o, kind |-> "OrderCreated"])
  /\ UNCHANGED <<items, deleted, events, history>>

-----------------------------------------------------------------------------
(* add_item *)

\* Mutation: the status of the order is not looked at.
ReadToAddAnyway(c, o, subtotal) ==
  Begin(c, o, [pc |-> "insertItem", order |-> o, total |-> orders[o].total,
               subtotal |-> subtotal])

\* The order and the menu item are read; an order that is not OPEN answers 422.
ReadToAdd(c, o, subtotal) ==
  /\ o \in DOMAIN orders /\ orders[o].status = "OPEN"
  /\ Begin(c, o, [pc |-> "insertItem", order |-> o, total |-> orders[o].total,
                  subtotal |-> subtotal])

\* The item is committed under the fresh id i.
InsertItem(c, i) ==
  /\ req[c].pc = "insertItem"
  /\ i \notin DOMAIN items \cup deleted
  /\ LET q == req[c] IN
     /\ items' = [x \in DOMAIN items \cup {i} |->
                    IF x = i THEN [order |-> q.order, subtotal |-> q.subtotal] ELSE items[x]]
     /\ chargeable' = [chargeable EXCEPT ![q.order] = @ + Charge(q.subtotal)]
     /\ lowered' = IF q.subtotal < 0 THEN lowered \cup {q.order} ELSE lowered
     /\ Continue(c, [pc |-> "writeTotal", order |-> q.order, total |-> q.total,
                     newTotal |-> q.total + q.subtotal])
  /\ UNCHANGED <<orders, deleted, events, raced, broken>>

-----------------------------------------------------------------------------
(* remove_item *)

ReadToRemove(c, o) ==
  /\ o \in DOMAIN orders /\ orders[o].status = "OPEN"
  /\ Begin(c, o, [pc |-> "findItem", order |-> o, total |-> orders[o].total])

\* An item that is gone or of another order answers 404.
FindItem(c, i) ==
  /\ req[c].pc = "findItem"
  /\ LET q == req[c] IN
     IF i \in DOMAIN items /\ items[i].order = q.order
     THEN Continue(c, [pc |-> "deleteItem", order |-> q.order, total |-> q.total,
                       item |-> i, subtotal |-> items[i].subtotal])
     ELSE Continue(c, Idle)
  /\ UNCHANGED <<tables, events, history>>

\* Mutation: the sign of the item is lost.
TotalWithoutAmount(total, subtotal) == total + subtotal

\* max(total - subtotal, 0)
TotalWithout(total, subtotal) == IF subtotal <= total THEN total - subtotal ELSE 0

\* Mutation: the item is deleted and the total left as it is.
DeleteItemOnly(c) ==
  /\ req[c].pc = "deleteItem"
  /\ LET q == req[c] IN
     /\ items' = [x \in DOMAIN items \ {q.item} |-> items[x]]
     /\ deleted' = deleted \cup {q.item}
     /\ Continue(c, [pc |-> "refresh", order |-> q.order, kind |-> "OrderUpdated"])
  /\ UNCHANGED <<orders, events, history>>

\* The delete and its commit; a row another request deleted is no error.
DeleteItem(c) ==
  /\ req[c].pc = "deleteItem"
  /\ LET q == req[c] IN
     /\ items' = [x \in DOMAIN items \ {q.item} |-> items[x]]
     /\ deleted' = deleted \cup {q.item}
     /\ chargeable' = IF q.item \in DOMAIN items
                      THEN [chargeable EXCEPT ![q.order] = @ + Charge(-q.subtotal)]
                      ELSE chargeable
     /\ Continue(c, [pc |-> "writeTotal", order |-> q.order, total |-> q.total,
                     newTotal |-> TotalWithout(q.total, q.subtotal)])
  /\ UNCHANGED <<orders, events, lowered, raced, broken>>

\* add_item and remove_item commit the total they computed; a total equal to
\* the one the session read is not written.
WriteTotal(c) ==
  /\ req[c].pc = "writeTotal"
  /\ LET q == req[c] IN
     /\ orders' = IF q.newTotal = q.total THEN orders
                  ELSE [orders EXCEPT ![q.order].total = q.newTotal]
     /\ Continue(c, [pc |-> "refresh", order |-> q.order, kind |-> "OrderUpdated"])
  /\ UNCHANGED <<items, deleted, events, history>>

-----------------------------------------------------------------------------
(* close_order, cancel_order *)

\* Mutation: an order is closed whatever its status.
ReadToEndAnyway(c, o, status) ==
  Begin(c, o, [pc |-> "writeStatus", order |-> o, status |-> status])

\* Only an OPEN order is closed (422) or cancelled (422 or 409).
ReadToEnd(c, o, status) ==
  /\ o \in DOMAIN orders /\ orders[o].status = "OPEN"
  /\ Begin(c, o, [pc |-> "writeStatus", order |-> o, status |-> status])

\* Mutation: the status is taken from the event that tells of it.
WriteStatusOfEvent(c) ==
  /\ req[c].pc = "writeStatus"
  /\ LET q == req[c] IN
     /\ orders' = [orders EXCEPT ![q.order].status =
                     IF q.status = "CLOSED" THEN "COMPLETED" ELSE "CANCELLED"]
     /\ Continue(c, [pc |-> "refresh", order |-> q.order,
                     kind |-> IF q.status = "CLOSED" THEN "OrderCompleted" ELSE "OrderCancelled"])
  /\ UNCHANGED <<items, deleted, events, history>>

WriteStatus(c) ==
  /\ req[c].pc = "writeStatus"
  /\ LET q == req[c] IN
     /\ orders' = [orders EXCEPT ![q.order].status = q.status]
     /\ Continue(c, [pc |-> "refresh", order |-> q.order,
                     kind |-> IF q.status = "CLOSED" THEN "OrderCompleted" ELSE "OrderCancelled"])
  /\ UNCHANGED <<items, deleted, events, history>>

-----------------------------------------------------------------------------
(* The end of every request *)

EventOf(o, kind) ==
  LET row == orders[o] IN
  IF kind \in {"OrderCreated", "OrderCompleted"}
  THEN [order |-> o, kind |-> kind, status |-> row.status, total |-> row.total]
  ELSE [order |-> o, kind |-> kind, status |-> row.status]

\* BaseRepository refreshes the row after its commit: what the event tells.
Refresh(c) ==
  /\ req[c].pc = "refresh"
  /\ LET q == req[c] IN
     Continue(c, [pc |-> "publish", order |-> q.order, event |-> EventOf(q.order, q.kind),
                     sent |-> 0])
  /\ UNCHANGED <<tables, events, history>>

\* The event is built once, before it is sent: every attempt has its id.
EventId(q) == IF q.sent = 0 THEN Len(events) + 1 ELSE q.sent

Send(q) == events' = Append(events, [id |-> EventId(q), told |-> q.event])

\* The producer is not idempotent (kafka_producer.py): the broker appends the
\* event, its answer is lost, and the client will send the event again (bound:
\* once).
PublishUnanswered(c) ==
  /\ req[c].pc = "publish"
  /\ req[c].sent = 0
  /\ Send(req[c])
  /\ Continue(c, [req[c] EXCEPT !.sent = EventId(req[c])])
  /\ UNCHANGED <<tables, history>>

\* send_and_wait returns once an attempt has been answered.
Publish(c) ==
  /\ req[c].pc = "publish"
  /\ Send(req[c])
  /\ Continue(c, Idle)
  /\ UNCHANGED <<tables, history>>

\* An awaited call raises, the process dies, or there is no producer to publish
\* with: what is committed stays.
Fail(c) ==
  /\ req[c] # Idle
  /\ broken' = IF req[c].pc = "writeTotal" THEN broken \cup {req[c].order} ELSE broken
  /\ Continue(c, Idle)
  /\ UNCHANGED <<tables, events, sums, raced>>

-----------------------------------------------------------------------------

Init ==
  /\ orders = [o \in {} |-> Idle]
  /\ items = [i \in {} |-> Idle]
  /\ deleted = {}
  /\ req = [c \in Clients |-> Idle]
  /\ events = <<>>
  /\ chargeable = [o \in Orders |-> 0]
  /\ lowered = {}
  /\ raced = {}
  /\ broken = {}

Next ==
  \E c \in Clients :
    \/ \E o \in Orders :
         \/ OpenOrder(c, o)
         \/ \E subtotal \in Subtotals : ReadToAdd(c, o, subtotal)
         \/ ReadToRemove(c, o)
         \/ \E status \in {"CLOSED", "CANCELLED"} : ReadToEnd(c, o, status)
    \/ \E i \in Items : InsertItem(c, i) \/ FindItem(c, i)
    \/ DeleteItem(c)
    \/ WriteTotal(c)
    \/ WriteStatus(c)
    \/ Refresh(c)
    \/ PublishUnanswered(c)
    \/ Publish(c)
    \/ Fail(c)

Spec == Init /\ [][Next]_vars

-----------------------------------------------------------------------------
(* What holds however requests overlap and fail *)

\* The tables, the topic and every request hold values of their types, and a
\* request works on an order that is in the table.
TypeOK ==
  /\ DOMAIN orders \subseteq Orders
  /\ orders \in [DOMAIN orders -> Row]
  /\ DOMAIN items \subseteq Items \ deleted
  /\ items \in [DOMAIN items -> Item]
  /\ deleted \subseteq Items
  /\ req \in [Clients -> Request]
  /\ \A c \in Clients : req[c] # Idle => req[c].order \in DOMAIN orders
  /\ events \in Seq(Sent)
  /\ chargeable \in [Orders -> Nat]
  /\ lowered \subseteq Orders
  /\ raced \subseteq Orders
  /\ broken \subseteq Orders

\* Lost updates and half-done requests can lower a bill, never raise it above
\* what was put on the order and what was taken off it of items that had lowered
\* it: add_item and remove_item commit the item before the total, and an item
\* that is deleted twice raises the bill once.
NeverOvercharged == \A o \in DOMAIN orders : orders[o].total <= chargeable[o]

-----------------------------------------------------------------------------
(* What holds of an order on which no two requests overlapped *)

InWork(o) == \E c \in Clients : WorksOn(c, o)

ItemsOf(o) == {i \in DOMAIN items : items[i].order = o}

\* The subtotals of the items of order o.
ItemTotal(o) == SumFunctionOnSet([i \in ItemsOf(o) |-> items[i].subtotal], ItemsOf(o))

\* The total is the sum of the items.  Once an item lowered it, the total may be
\* too high: where a removal would take it below zero, it is set to zero.
Bills(o, total) ==
  IF o \in lowered THEN total >= ItemTotal(o) ELSE total = ItemTotal(o)

\* Between requests the total bills the order's items, unless a request failed
\* after its item and before its total.
TotalMatchesItems ==
  \A o \in DOMAIN orders \ (raced \cup broken) :
    ~InWork(o) => Bills(o, orders[o].total)

EndKinds == {"OrderCompleted", "OrderCancelled"}

\* The places in the topic where the end of order o is told.
Ends(o) ==
  {n \in DOMAIN events : events[n].told.order = o /\ events[n].told.kind \in EndKinds}

\* The event restaurant sales are counted from: an order is completed or
\* cancelled once, by one event, which the producer may have sent again; an
\* OrderCompleted bills the order's items.
BilledOnce ==
  \A o \in DOMAIN orders \ raced :
    /\ \A n, m \in Ends(o) : events[n] = events[m]
    /\ \A n \in Ends(o) : events[n].told.kind = "OrderCompleted" =>
         /\ events[n].told.status = "CLOSED"
         /\ o \in broken \/ Bills(o, events[n].told.total)

\* "Can only add items to OPEN orders", "Can only modify OPEN orders": an order
\* that was closed or cancelled keeps its status, its total and its items.
EndedStaysAsItIs ==
  [][\A o \in DOMAIN orders \ raced :
       orders[o].status # "OPEN" => /\ orders'[o] = orders[o]
                                    /\ ItemsOf(o)' = ItemsOf(o)]_vars
=============================================================================
