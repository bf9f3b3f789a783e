---------------------------- MODULE OrdersProofs ----------------------------
(***************************************************************************)
(* Theorems of Orders, for any number of concurrent requests, orders and   *)
(* items.                                                                  *)
(***************************************************************************)
EXTENDS Orders, Sums, TLAPS

\* The groups of variables stand for their members throughout.
USE DEF tables, sums, history

-----------------------------------------------------------------------------
(* Types *)

HoldsTotal(q) == q.pc \in {"insertItem", "findItem", "deleteItem", "writeTotal"}

\* What the fields of a request hold, by its step.
LEMMA RequestFields ==
  ASSUME NEW q \in Request
  PROVE  /\ q.pc # "idle" => q.order \in Orders
         /\ HoldsTotal(q) => q.total \in Int
         /\ q.pc \in {"insertItem", "deleteItem"} => q.subtotal \in Subtotals
         /\ q.pc = "deleteItem" => q.item \in Items
         /\ q.pc = "writeTotal" => q.newTotal \in Int
         /\ q.pc = "writeStatus" => q.status \in OrderStatus \ {"OPEN"}
         /\ q.pc = "refresh" => q.kind \in Kinds
         /\ q.pc = "publish" => q.event \in Event /\ q.sent \in Nat
         /\ q.pc = "idle" <=> q = Idle
<1>1. CASE q = Idle
  BY <1>1 DEF Idle, HoldsTotal
<1>2. CASE q # Idle
  BY <1>2 DEF Request, Idle, HoldsTotal
<1> QED
  BY <1>1, <1>2

LEMMA EventOfType ==
  ASSUME TypeOK, NEW o \in DOMAIN orders, NEW kind \in Kinds
  PROVE  EventOf(o, kind) \in Event
<1>1. o \in Orders /\ orders[o] \in Row
  BY DEF TypeOK
<1>2. orders[o].status \in OrderStatus /\ orders[o].total \in Int
  BY <1>1 DEF Row
<1> QED
  BY <1>1, <1>2 DEF EventOf, Event, Kinds

LEMMA TotalWithoutType ==
  ASSUME NEW total \in Int, NEW subtotal \in Int
  PROVE  /\ TotalWithout(total, subtotal) \in Int
         /\ TotalWithout(total, subtotal) >= total - subtotal
         /\ subtotal <= total => TotalWithout(total, subtotal) = total - subtotal
         /\ \A most \in Nat : total - subtotal <= most => TotalWithout(total, subtotal) <= most
BY DEF TotalWithout

LEMMA ChargeType ==
  ASSUME NEW n \in Int
  PROVE  Charge(n) \in Nat /\ n <= Charge(n)
BY DEF Charge

LEMMA TypeStep == TypeOK /\ [Next]_vars => TypeOK'
<1> SUFFICES ASSUME TypeOK, [Next]_vars PROVE TypeOK'
  OBVIOUS
<1>0. /\ \A c \in Clients : req[c] \in Request
      /\ \A c \in Clients : req[c] # Idle => req[c].order \in DOMAIN orders
  BY DEF TypeOK
<1>1. ASSUME NEW c \in Clients, NEW q \in Request, req' = [req EXCEPT ![c] = q],
             q # Idle => q.order \in DOMAIN orders',
             DOMAIN orders \subseteq DOMAIN orders'
      PROVE  /\ req' \in [Clients -> Request]
             /\ \A d \in Clients : req'[d] # Idle => req'[d].order \in DOMAIN orders'
  BY <1>0, <1>1 DEF TypeOK
<1>2. Idle \in Request
  BY DEF Request
<1>3. ASSUME NEW c \in Clients, NEW o \in Orders, NEW q \in Request, Begin(c, o, q),
             q.order = o
      PROVE  TypeOK'
  BY <1>1, <1>3 DEF Begin, TypeOK
<1>4. ASSUME NEW c \in Clients, NEW o \in Orders, OpenOrder(c, o) PROVE TypeOK'
  <2>1. [pc |-> "refresh", order |-> o, kind |-> "OrderCreated"] \in Request
    BY DEF Request, Kinds
  <2>2. [status |-> "OPEN", total |-> 0] \in Row
    BY DEF Row, OrderStatus
  <2>3. DOMAIN orders' = DOMAIN orders \cup {o} /\ orders' \in [DOMAIN orders' -> Row]
    BY <1>4, <2>2 DEF OpenOrder, TypeOK
  <2> QED
    BY <1>1, <1>2, <1>4, <2>1, <2>3, Zenon DEF OpenOrder, Continue, TypeOK
<1>5. ASSUME NEW c \in Clients, NEW o \in Orders, NEW subtotal \in Subtotals,
             ReadToAdd(c, o, subtotal)
      PROVE  TypeOK'
  <2>1. orders[o].total \in Int
    BY <1>5 DEF ReadToAdd, TypeOK, Row
  <2>2. [pc |-> "insertItem", order |-> o, total |-> orders[o].total,
         subtotal |-> subtotal] \in Request
    BY <2>1 DEF Request
  <2> QED
    BY <1>3, <1>5, <2>2 DEF ReadToAdd
<1>6. ASSUME NEW c \in Clients, NEW o \in Orders, ReadToRemove(c, o) PROVE TypeOK'
  <2>1. orders[o].total \in Int
    BY <1>6 DEF ReadToRemove, TypeOK, Row
  <2>2. [pc |-> "findItem", order |-> o, total |-> orders[o].total] \in Request
    BY <2>1 DEF Request
  <2> QED
    BY <1>3, <1>6, <2>2 DEF ReadToRemove
<1>7. ASSUME NEW c \in Clients, NEW o \in Orders, NEW status \in {"CLOSED", "CANCELLED"},
             ReadToEnd(c, o, status)
      PROVE  TypeOK'
  <2>1. [pc |-> "writeStatus", order |-> o, status |-> status] \in Request
    BY DEF Request, OrderStatus
  <2> QED
    BY <1>3, <1>7, <2>1 DEF ReadToEnd
<1>8. ASSUME NEW c \in Clients, NEW i \in Items, InsertItem(c, i) PROVE TypeOK'
  <2> DEFINE q == req[c]
             n == [pc |-> "writeTotal", order |-> q.order, total |-> q.total,
                   newTotal |-> q.total + q.subtotal]
  <2>1. /\ q.order \in Orders /\ q.total \in Int /\ q.subtotal \in Subtotals
        /\ q.subtotal \in Int /\ q.order \in DOMAIN orders
    BY <1>0, <1>8, RequestFields, OrdersAssumption DEF InsertItem, HoldsTotal, Idle
  <2>2. n \in Request /\ n.order = q.order
    BY <2>1 DEF Request
  <2>3. [order |-> q.order, subtotal |-> q.subtotal] \in Item
    BY <2>1 DEF Item
  <2>4. /\ DOMAIN items' \subseteq Items \ deleted
        /\ items' \in [DOMAIN items' -> Item]
    BY <1>8, <2>3 DEF InsertItem, TypeOK
  <2>5. chargeable' \in [Orders -> Nat] /\ lowered' \subseteq Orders
    BY <1>8, <2>1, ChargeType DEF InsertItem, TypeOK
  <2>6. req' = [req EXCEPT ![c] = n] /\ UNCHANGED <<orders, deleted, events, raced, broken>>
    BY <1>8 DEF InsertItem, Continue
  <2>7. /\ req' \in [Clients -> Request]
        /\ \A d \in Clients : req'[d] # Idle => req'[d].order \in DOMAIN orders'
    <3> HIDE DEF n
    <3> QED
      BY <1>1, <2>1, <2>2, <2>6
  <2> QED
    BY <2>4, <2>5, <2>6, <2>7 DEF TypeOK
<1>9. ASSUME NEW c \in Clients, NEW i \in Items, FindItem(c, i) PROVE TypeOK'
  <2>1. req[c].order \in Orders /\ req[c].total \in Int /\ req[c].order \in DOMAIN orders
    BY <1>0, <1>9, RequestFields DEF FindItem, HoldsTotal, Idle
  <2>2. i \in DOMAIN items =>
          [pc |-> "deleteItem", order |-> req[c].order, total |-> req[c].total,
           item |-> i, subtotal |-> items[i].subtotal] \in Request
    BY <2>1 DEF Request, TypeOK, Item
  <2> QED
    BY <1>1, <1>2, <1>9, <2>1, <2>2 DEF FindItem, Continue, TypeOK
<1>10. ASSUME NEW c \in Clients, DeleteItem(c) PROVE TypeOK'
  <2> DEFINE q == req[c]
             n == [pc |-> "writeTotal", order |-> q.order, total |-> q.total,
                   newTotal |-> TotalWithout(q.total, q.subtotal)]
  <2>1. /\ q.order \in Orders /\ q.total \in Int /\ q.subtotal \in Int
        /\ q.item \in Items /\ q.order \in DOMAIN orders
    BY <1>0, <1>10, RequestFields, OrdersAssumption DEF DeleteItem, HoldsTotal, Idle
  <2>2. n \in Request /\ n.order = q.order
    BY <2>1, TotalWithoutType DEF Request
  <2>3. /\ DOMAIN items' \subseteq Items \ deleted'
        /\ items' \in [DOMAIN items' -> Item]
        /\ deleted' \subseteq Items
    BY <1>10, <2>1 DEF DeleteItem, TypeOK
  <2>4. /\ req' = [req EXCEPT ![c] = n] /\ UNCHANGED <<orders, events, lowered, raced, broken>>
        /\ chargeable' \in [Orders -> Nat]
    <3>1. -q.subtotal \in Int
      BY <2>1
    <3>2. Charge(-q.subtotal) \in Nat
      BY <3>1, ChargeType
    <3> QED
      BY <1>10, <2>1, <3>2 DEF DeleteItem, Continue, TypeOK
  <2>5. /\ req' \in [Clients -> Request]
        /\ \A d \in Clients : req'[d] # Idle => req'[d].order \in DOMAIN orders'
    <3> HIDE DEF n
    <3> QED
      BY <1>1, <2>1, <2>2, <2>4
  <2> QED
    BY <2>3, <2>4, <2>5 DEF TypeOK
<1>11. ASSUME NEW c \in Clients, WriteTotal(c) PROVE TypeOK'
  <2>1. req[c].order \in DOMAIN orders /\ req[c].order \in Orders /\ req[c].newTotal \in Int
    BY <1>0, <1>11, RequestFields DEF WriteTotal, Idle
  <2>2. [pc |-> "refresh", order |-> req[c].order, kind |-> "OrderUpdated"] \in Request
    BY <2>1 DEF Request, Kinds
  <2>3. DOMAIN orders' = DOMAIN orders /\ orders' \in [DOMAIN orders' -> Row]
    BY <1>11, <2>1 DEF WriteTotal, TypeOK, Row
  <2> QED
    BY <1>1, <1>11, <2>1, <2>2, <2>3 DEF WriteTotal, Continue, TypeOK
<1>12. ASSUME NEW c \in Clients, WriteStatus(c) PROVE TypeOK'
  <2>1. /\ req[c].order \in DOMAIN orders /\ req[c].order \in Orders
        /\ req[c].status \in OrderStatus
    BY <1>0, <1>12, RequestFields DEF WriteStatus, Idle
  <2>2. \A kind \in Kinds : [pc |-> "refresh", order |-> req[c].order, kind |-> kind] \in Request
    BY <2>1 DEF Request
  <2>3. DOMAIN orders' = DOMAIN orders /\ orders' \in [DOMAIN orders' -> Row]
    BY <1>12, <2>1 DEF WriteStatus, TypeOK, Row
  <2>4. PICK kind \in Kinds : req' = [req EXCEPT ![c] = [pc |-> "refresh", order |-> req[c].order,
                                                         kind |-> kind]]
    BY <1>12 DEF WriteStatus, Continue, Kinds
  <2> QED
    BY <1>1, <1>12, <2>1, <2>2, <2>3, <2>4 DEF WriteStatus, TypeOK
<1>13. ASSUME NEW c \in Clients, Refresh(c) PROVE TypeOK'
  <2> DEFINE n == [pc |-> "publish", order |-> req[c].order,
                   event |-> EventOf(req[c].order, req[c].kind), sent |-> 0]
  <2>1. req[c].order \in DOMAIN orders /\ req[c].order \in Orders /\ req[c].kind \in Kinds
    BY <1>0, <1>13, RequestFields DEF Refresh, Idle
  <2>2. n \in Request /\ n.order = req[c].order
    BY <2>1, EventOfType DEF Request
  <2>3. req' = [req EXCEPT ![c] = n] /\ UNCHANGED <<tables, events, history>>
    BY <1>13 DEF Refresh, Continue
  <2> HIDE DEF n
  <2> QED
    BY <1>1, <2>1, <2>2, <2>3 DEF TypeOK
<1>14. ASSUME NEW c \in Clients, Publish(c) \/ PublishUnanswered(c) PROVE TypeOK'
  <2> DEFINE q == req[c]
             n == [q EXCEPT !.sent = EventId(q)]
  <2>1. q.pc = "publish" /\ q \in Request /\ q # Idle /\ q.order \in DOMAIN orders
    BY <1>0, <1>14 DEF Publish, PublishUnanswered, Idle
  <2>2. q.event \in Event /\ q.sent \in Nat /\ events \in Seq(Sent)
    BY <2>1, RequestFields DEF TypeOK
  <2>3. EventId(q) \in Nat
    BY <2>2 DEF EventId
  <2>4. events' \in Seq(Sent)
    <3>1. [id |-> EventId(q), told |-> q.event] \in Sent
      BY <2>2, <2>3 DEF Sent
    <3>2. events' = Append(events, [id |-> EventId(q), told |-> q.event])
      BY <1>14 DEF Publish, PublishUnanswered, Send
    <3> QED
      BY <2>2, <3>1, <3>2
  <2>5. n \in Request /\ n.order = q.order
    <3>1. q \in [pc : {"publish"}, order : Orders, event : Event, sent : Nat]
      BY <2>1 DEF Request, Idle
    <3> HIDE DEF q
    <3>2. n \in [pc : {"publish"}, order : Orders, event : Event, sent : Nat]
      BY <2>3, <3>1
    <3> QED
      BY <3>1, <3>2 DEF Request
  <2>6. /\ req' = [req EXCEPT ![c] = Idle] \/ req' = [req EXCEPT ![c] = n]
        /\ UNCHANGED <<tables, history>>
    BY <1>14 DEF Publish, PublishUnanswered, Continue
  <2> HIDE DEF n
  <2>7. /\ req' \in [Clients -> Request]
        /\ \A d \in Clients : req'[d] # Idle => req'[d].order \in DOMAIN orders'
    BY <1>1, <1>2, <2>1, <2>5, <2>6
  <2> QED
    BY <2>4, <2>6, <2>7 DEF TypeOK
<1>15. ASSUME NEW c \in Clients, Fail(c) PROVE TypeOK'
  <2>1. req[c].order \in Orders
    BY <1>0, <1>15, RequestFields DEF Fail
  <2> QED
    BY <1>1, <1>2, <1>15, <2>1 DEF Fail, Continue, TypeOK
<1>16. CASE UNCHANGED vars
  BY <1>16 DEF vars, TypeOK
<1> QED
  BY <1>4, <1>5, <1>6, <1>7, <1>8, <1>9, <1>10, <1>11, <1>12, <1>13, <1>14, <1>15, <1>16
     DEF Next

\* The tables, the topic and the requests hold values of their types in every
\* state, whatever was lost or left half done and whatever the signs of prices
\* and quantities.
THEOREM OrdersType == Spec => []TypeOK
<1>1. Init => TypeOK
  BY DEF Init, TypeOK, Request
<1> QED
  BY <1>1, TypeStep, PTL DEF Spec

-----------------------------------------------------------------------------
(* An order that was closed or cancelled *)

\* A request at one of these steps has found its order open.
Changes(q) == q.pc \in {"insertItem", "findItem", "deleteItem", "writeTotal", "writeStatus"}

\* At most one request works on the order; it is open while that may change it.
Alone(o) ==
  /\ \A c, d \in Clients : WorksOn(c, o) /\ WorksOn(d, o) => c = d
  /\ \A c \in Clients : WorksOn(c, o) /\ Changes(req[c]) => orders[o].status = "OPEN"

\* The item a request deletes is as it was read, or is deleted already.
KnowsItem(q) ==
  q.pc = "deleteItem" => /\ q.item \in DOMAIN items \cup deleted
                         /\ q.item \in DOMAIN items => /\ items[q.item].order = q.order
                                                       /\ items[q.item].subtotal = q.subtotal

OpenOnly == /\ \A o \in DOMAIN orders \ raced : Alone(o)
            /\ \A c \in Clients : KnowsItem(req[c])

LEMMA OpenOnlyStep == TypeOK /\ OpenOnly /\ [Next]_vars => OpenOnly'
<1> SUFFICES ASSUME TypeOK, OpenOnly, [Next]_vars PROVE OpenOnly'
  OBVIOUS
<1> DEFINE Singles == \A o \in DOMAIN orders \ raced : Alone(o)
           Known == \A c \in Clients : KnowsItem(req[c])
<1>0. /\ \A c \in Clients : req[c] # Idle => req[c].order \in DOMAIN orders
      /\ req \in [Clients -> Request] /\ Singles /\ Known
      /\ Idle.pc = "idle" /\ \A o \in DOMAIN orders : orders[o] \in Row
  BY DEF TypeOK, OpenOnly, Idle
<1>1. Singles' /\ Known' => OpenOnly'
  BY DEF OpenOnly
\* A request goes on, and changes the status of its order only when it is done.
<1>2. ASSUME NEW c \in Clients, NEW q, Continue(c, q), req[c] # Idle, UNCHANGED raced,
             q # Idle => q.order = req[c].order, Changes(q) => Changes(req[c]),
             DOMAIN orders' = DOMAIN orders,
             \A o \in DOMAIN orders : \/ orders'[o].status = orders[o].status
                                      \/ o = req[c].order /\ ~Changes(q)
      PROVE  Singles'
  <2> SUFFICES ASSUME NEW o \in DOMAIN orders \ raced PROVE Alone(o)'
    BY <1>2
  <2>1. \A d \in Clients : req'[d] = IF d = c THEN q ELSE req[d]
    BY <1>0, <1>2 DEF Continue
  <2>2. \A d \in Clients : WorksOn(d, o)' => WorksOn(d, o)
    BY <1>2, <2>1 DEF WorksOn
  <2>3. Alone(o)
    BY <1>0
  <2>4. ASSUME NEW d \in Clients, WorksOn(d, o)', Changes(req'[d])
        PROVE  orders'[o].status = "OPEN"
    <3>1. Changes(req[d]) /\ WorksOn(d, o)
      BY <1>2, <2>1, <2>2, <2>4
    <3>2. orders[o].status = "OPEN"
      BY <2>3, <3>1 DEF Alone
    <3>3. o = req[c].order => d = c
      BY <1>2, <2>3, <3>1 DEF Alone, WorksOn
    <3> QED
      BY <1>2, <2>1, <2>4, <3>2, <3>3
  <2> QED
    BY <2>2, <2>3, <2>4 DEF Alone, Changes
\* A request begins: the order is raced, or it is the only one and found it open.
<1>3. ASSUME NEW c \in Clients, NEW o \in Orders, NEW q, Begin(c, o, q),
             orders[o].status = "OPEN", q.order = o, q.pc # "deleteItem"
      PROVE  OpenOnly'
  <2>1. /\ req[c] = Idle /\ UNCHANGED tables
        /\ raced' = IF \E d \in Clients : WorksOn(d, o) THEN raced \cup {o} ELSE raced
        /\ \A d \in Clients : req'[d] = IF d = c THEN q ELSE req[d]
    BY <1>0, <1>3 DEF Begin
  <2>2. Known'
    BY <1>0, <1>3, <2>1 DEF KnowsItem
  <2>3. ASSUME NEW x \in DOMAIN orders \ raced' PROVE Alone(x)'
    <3>1. Alone(x) /\ UNCHANGED orders
      BY <1>0, <2>1, <2>3
    <3>2. CASE x # o
      <4>1. \A d \in Clients : WorksOn(d, x)' => WorksOn(d, x) /\ req'[d] = req[d]
        BY <1>3, <2>1, <3>2 DEF WorksOn
      <4> QED
        BY <3>1, <4>1 DEF Alone, Changes
    <3>3. CASE x = o
      <4>1. \A d \in Clients : WorksOn(d, x)' => d = c
        BY <2>1, <2>3, <3>3 DEF WorksOn
      <4> QED
        BY <1>3, <3>1, <3>3, <4>1 DEF Alone
    <3> QED
      BY <3>2, <3>3
  <2> QED
    BY <1>1, <2>1, <2>2, <2>3
\* A request that deletes nothing goes on, and the items stay.
<1>4. ASSUME NEW c \in Clients, NEW q, Continue(c, q), KnowsItem(q), UNCHANGED <<items, deleted>>
      PROVE  Known'
  BY <1>0, <1>4 DEF Continue, KnowsItem
<1>5. KnowsItem(Idle) /\ ~Changes(Idle)
  BY <1>0 DEF KnowsItem, Changes
<1>6. ASSUME NEW c \in Clients, NEW o \in Orders, OpenOrder(c, o) PROVE OpenOnly'
  <2> DEFINE q == [pc |-> "refresh", order |-> o, kind |-> "OrderCreated"]
  <2>1. /\ o \notin DOMAIN orders /\ Continue(c, q) /\ UNCHANGED <<items, deleted, raced>>
        /\ DOMAIN orders' = DOMAIN orders \cup {o}
        /\ \A x \in DOMAIN orders : orders'[x] = orders[x]
        /\ \A d \in Clients : req'[d] = IF d = c THEN q ELSE req[d]
    BY <1>0, <1>6 DEF OpenOrder, Continue
  <2>2. Known'
    BY <1>4, <2>1 DEF KnowsItem
  <2>3. \A d \in Clients : WorksOn(d, o)' => d = c
    BY <1>0, <2>1 DEF WorksOn
  <2>4. ~Changes(q)
    BY DEF Changes
  <2>5. ASSUME NEW x \in DOMAIN orders' \ raced PROVE Alone(x)'
    <3>1. CASE x = o
      BY <2>1, <2>3, <2>4, <3>1 DEF Alone, Changes
    <3>2. CASE x # o
      <4>1. \A d \in Clients : WorksOn(d, x)' => WorksOn(d, x) /\ req'[d] = req[d]
        BY <2>1, <3>2 DEF WorksOn
      <4> QED
        BY <1>0, <2>1, <2>5, <3>2, <4>1 DEF Alone, Changes
    <3> QED
      BY <3>1, <3>2
  <2> QED
    BY <1>1, <2>1, <2>2, <2>5
<1>7. ASSUME NEW c \in Clients, NEW o \in Orders, NEW subtotal \in Subtotals,
             ReadToAdd(c, o, subtotal)
      PROVE  OpenOnly'
  BY <1>3, <1>7 DEF ReadToAdd
<1>8. ASSUME NEW c \in Clients, NEW o \in Orders, ReadToRemove(c, o) PROVE OpenOnly'
  BY <1>3, <1>8 DEF ReadToRemove
<1>9. ASSUME NEW c \in Clients, NEW o \in Orders, NEW status \in {"CLOSED", "CANCELLED"},
             ReadToEnd(c, o, status)
      PROVE  OpenOnly'
  BY <1>3, <1>9 DEF ReadToEnd
<1>10. ASSUME NEW c \in Clients, NEW i \in Items, InsertItem(c, i) PROVE OpenOnly'
  <2> DEFINE n == [pc |-> "writeTotal", order |-> req[c].order, total |-> req[c].total,
                   newTotal |-> req[c].total + req[c].subtotal]
  <2>1. /\ req[c].pc = "insertItem" /\ i \notin DOMAIN items \cup deleted /\ Continue(c, n)
        /\ DOMAIN items' = DOMAIN items \cup {i}
        /\ \A x \in DOMAIN items : items'[x] = items[x]
        /\ UNCHANGED <<orders, deleted, raced>>
    BY <1>10 DEF InsertItem
  <2>2. n.order = req[c].order /\ req[c] # Idle /\ Changes(req[c]) /\ KnowsItem(n)
    BY <1>0, <2>1 DEF Changes, KnowsItem
  <2>3. Known'
    BY <1>0, <2>1, <2>2 DEF Continue, KnowsItem
  <2> HIDE DEF n
  <2>4. Singles'
    BY <1>2, <2>1, <2>2
  <2> QED
    BY <1>1, <2>3, <2>4
<1>11. ASSUME NEW c \in Clients, NEW i \in Items, FindItem(c, i) PROVE OpenOnly'
  <2>1. PICK q : /\ Continue(c, q) /\ KnowsItem(q)
                 /\ q # Idle => q.order = req[c].order
    BY <1>5, <1>11 DEF FindItem, KnowsItem
  <2>2. req[c] # Idle /\ Changes(req[c]) /\ UNCHANGED <<orders, items, deleted, raced>>
    BY <1>0, <1>11 DEF FindItem, Changes
  <2> QED
    BY <1>1, <1>2, <1>4, <2>1, <2>2
<1>12. ASSUME NEW c \in Clients, DeleteItem(c) PROVE OpenOnly'
  <2> DEFINE n == [pc |-> "writeTotal", order |-> req[c].order, total |-> req[c].total,
                   newTotal |-> TotalWithout(req[c].total, req[c].subtotal)]
  <2>1. /\ req[c].pc = "deleteItem" /\ Continue(c, n) /\ UNCHANGED <<orders, raced>>
        /\ DOMAIN items' = DOMAIN items \ {req[c].item}
        /\ \A x \in DOMAIN items' : items'[x] = items[x]
        /\ deleted' = deleted \cup {req[c].item}
    BY <1>12 DEF DeleteItem
  <2>2. n.order = req[c].order /\ req[c] # Idle /\ Changes(req[c]) /\ n.pc = "writeTotal"
    BY <1>0, <2>1 DEF Changes
  <2> HIDE DEF n
  <2>3. Known'
    BY <1>0, <2>1, <2>2 DEF Continue, KnowsItem
  <2>4. Singles'
    BY <1>2, <2>1, <2>2
  <2> QED
    BY <1>1, <2>3, <2>4
<1>13. ASSUME NEW c \in Clients, NEW q, Continue(c, q), req[c] # Idle,
              q # Idle => q.order = req[c].order, ~Changes(q),
              UNCHANGED <<items, deleted, raced>>, DOMAIN orders' = DOMAIN orders,
              \A o \in DOMAIN orders : \/ orders'[o].status = orders[o].status
                                       \/ o = req[c].order
       PROVE  OpenOnly'
  <2>1. KnowsItem(q)
    BY <1>13 DEF Changes, KnowsItem
  <2> QED
    BY <1>1, <1>2, <1>4, <1>13, <2>1
<1>14. ASSUME NEW c \in Clients, WriteTotal(c) PROVE OpenOnly'
  <2>1. req[c].order \in DOMAIN orders /\ req[c] # Idle
    BY <1>0, <1>14 DEF WriteTotal
  <2>2. /\ DOMAIN orders' = DOMAIN orders
        /\ \A o \in DOMAIN orders : orders'[o].status = orders[o].status
    BY <1>0, <1>14, <2>1 DEF WriteTotal, Row
  <2>3. \A kind : ~Changes([pc |-> "refresh", order |-> req[c].order, kind |-> kind])
    BY DEF Changes
  <2> QED
    BY <1>13, <1>14, <2>1, <2>2, <2>3 DEF WriteTotal
<1>15. ASSUME NEW c \in Clients, WriteStatus(c) PROVE OpenOnly'
  <2>1. req[c] # Idle
    BY <1>0, <1>15 DEF WriteStatus
  <2>2. /\ DOMAIN orders' = DOMAIN orders
        /\ \A o \in DOMAIN orders : orders'[o].status = orders[o].status \/ o = req[c].order
    BY <1>15 DEF WriteStatus
  <2>3. \A kind : ~Changes([pc |-> "refresh", order |-> req[c].order, kind |-> kind])
    BY DEF Changes
  <2> QED
    BY <1>13, <1>15, <2>1, <2>2, <2>3 DEF WriteStatus
<1>16. ASSUME NEW c \in Clients, Refresh(c) PROVE OpenOnly'
  <2>1. req[c] # Idle /\ UNCHANGED <<orders, items, deleted, raced>>
    BY <1>0, <1>16 DEF Refresh
  <2>2. \A e : ~Changes([pc |-> "publish", order |-> req[c].order, event |-> e, sent |-> 0])
    BY DEF Changes
  <2> QED
    BY <1>13, <1>16, <2>1, <2>2 DEF Refresh
<1>17. ASSUME NEW c \in Clients, Publish(c) \/ Fail(c) PROVE OpenOnly'
  <2>1. /\ req[c] # Idle /\ UNCHANGED <<orders, items, deleted, raced>> /\ Continue(c, Idle)
    BY <1>0, <1>17 DEF Publish, Fail
  <2> QED
    BY <1>5, <1>13, <2>1
<1>18. ASSUME NEW c \in Clients, PublishUnanswered(c) PROVE OpenOnly'
  <2> DEFINE n == [req[c] EXCEPT !.sent = EventId(req[c])]
  <2>1. /\ req[c] # Idle /\ UNCHANGED <<orders, items, deleted, raced>> /\ Continue(c, n)
        /\ n.order = req[c].order /\ n.pc = "publish"
    BY <1>0, <1>18 DEF PublishUnanswered
  <2> HIDE DEF n
  <2> QED
    BY <1>13, <2>1 DEF Changes
<1>19. CASE UNCHANGED vars
  BY <1>0, <1>1, <1>19 DEF vars, Alone, WorksOn, Changes, KnowsItem
<1> QED
  BY <1>6, <1>7, <1>8, <1>9, <1>10, <1>11, <1>12, <1>14, <1>15, <1>16, <1>17, <1>18, <1>19
     DEF Next

\* What one step may do to an order that is not open and that one request at
\* most works on.
LEMMA EndedStep ==
  ASSUME TypeOK, OpenOnly, [Next]_vars, NEW o \in DOMAIN orders \ raced,
         orders[o].status # "OPEN"
  PROVE  orders'[o] = orders[o] /\ ItemsOf(o)' = ItemsOf(o)
<1>1. /\ \A c \in Clients : Changes(req[c]) => req[c] # Idle /\ req[c].order # o
      /\ \A c \in Clients : KnowsItem(req[c])
  BY DEF OpenOnly, Alone, WorksOn, Changes, Idle
<1>2. UNCHANGED items => ItemsOf(o)' = ItemsOf(o)
  BY DEF ItemsOf
<1>3. ASSUME NEW c \in Clients, NEW x \in Orders, OpenOrder(c, x)
      PROVE  orders'[o] = orders[o] /\ UNCHANGED items
  BY <1>3 DEF OpenOrder
<1>4. ASSUME NEW c \in Clients, NEW i \in Items, InsertItem(c, i)
      PROVE  orders'[o] = orders[o] /\ ItemsOf(o)' = ItemsOf(o)
  <2>1. /\ i \notin DOMAIN items /\ UNCHANGED orders /\ req[c].order # o
        /\ items' = [x \in DOMAIN items \cup {i} |->
                       IF x = i THEN [order |-> req[c].order, subtotal |-> req[c].subtotal]
                       ELSE items[x]]
    BY <1>1, <1>4 DEF InsertItem, Changes
  <2> QED
    BY <2>1 DEF ItemsOf
<1>5. ASSUME NEW c \in Clients, DeleteItem(c)
      PROVE  orders'[o] = orders[o] /\ ItemsOf(o)' = ItemsOf(o)
  <2>1. /\ req[c].pc = "deleteItem" /\ req[c].order # o /\ UNCHANGED orders
        /\ items' = [x \in DOMAIN items \ {req[c].item} |-> items[x]]
    BY <1>1, <1>5 DEF DeleteItem, Changes
  <2>2. req[c].item \in DOMAIN items => items[req[c].item].order # o
    BY <1>1, <2>1 DEF KnowsItem
  <2> QED
    BY <2>1, <2>2 DEF ItemsOf
<1>6. ASSUME NEW c \in Clients, WriteTotal(c) \/ WriteStatus(c)
      PROVE  orders'[o] = orders[o] /\ UNCHANGED items
  <2>1. req[c].order # o
    BY <1>1, <1>6 DEF WriteTotal, WriteStatus, Changes
  <2> QED
    BY <1>6, <2>1 DEF WriteTotal, WriteStatus
<1>7. ASSUME NEW c \in Clients,
             \/ \E x \in Orders, subtotal \in Subtotals : ReadToAdd(c, x, subtotal)
             \/ \E x \in Orders : ReadToRemove(c, x)
             \/ \E x \in Orders, status \in {"CLOSED", "CANCELLED"} : ReadToEnd(c, x, status)
             \/ \E i \in Items : FindItem(c, i)
             \/ Refresh(c) \/ Publish(c) \/ PublishUnanswered(c) \/ Fail(c)
      PROVE  UNCHANGED <<orders, items>>
  BY <1>7 DEF ReadToAdd, ReadToRemove, ReadToEnd, Begin, FindItem, Refresh, Publish,
                PublishUnanswered, Fail
<1>8. CASE UNCHANGED vars
  BY <1>2, <1>8 DEF vars
<1> QED
  BY <1>2, <1>3, <1>4, <1>5, <1>6, <1>7, <1>8 DEF Next

\* A closed or cancelled order on which no two requests overlapped keeps its
\* status, its total and its items for ever, whatever happens to other orders.
THEOREM OrdersEndedStaysAsItIs == Spec => EndedStaysAsItIs
<1> DEFINE Step == \A o \in DOMAIN orders \ raced :
                     orders[o].status # "OPEN" => /\ orders'[o] = orders[o]
                                                  /\ ItemsOf(o)' = ItemsOf(o)
<1>1. Init => OpenOnly
  BY DEF Init, OpenOnly, KnowsItem, Idle
<1>2. TypeOK /\ OpenOnly /\ [Next]_vars => Step
  BY EndedStep
<1>3. TypeOK /\ OpenOnly /\ [Next]_vars => [Step]_vars
  BY <1>2
<1> QED
  BY <1>1, <1>3, OpenOnlyStep, OrdersType, PTL DEF Spec, EndedStaysAsItIs

-----------------------------------------------------------------------------
(* Nobody is charged for what was not ordered *)

\* What a request has read, and what it is about to write, is covered by what
\* may be charged; so is what a request will write whose item was deleted, and
\* its amount charged, by another one.
Covered(q) ==
  /\ HoldsTotal(q) => q.total <= chargeable[q.order]
  /\ q.pc = "writeTotal" => q.newTotal <= chargeable[q.order]
  /\ q.pc = "deleteItem" /\ q.item \notin DOMAIN items =>
       q.total - q.subtotal <= chargeable[q.order]

Charges == NeverOvercharged /\ \A c \in Clients : Covered(req[c])

LEMMA ChargesStep == TypeOK /\ OpenOnly /\ Charges /\ [Next]_vars => Charges'
<1> SUFFICES ASSUME TypeOK, OpenOnly, Charges, [Next]_vars PROVE Charges'
  OBVIOUS
<1>0. /\ \A c \in Clients : /\ req[c] \in Request
                            /\ HoldsTotal(req[c]) => /\ req[c].total \in Int
                                                     /\ req[c].order \in DOMAIN orders
                                                     /\ req[c].order \in Orders
                            /\ req[c].pc = "writeTotal" => req[c].newTotal \in Int
                            /\ req[c].pc \in {"insertItem", "deleteItem"} =>
                                 req[c].subtotal \in Int
                            /\ KnowsItem(req[c])
      /\ \A o \in Orders : chargeable[o] \in Nat
      /\ \A o \in DOMAIN orders : o \in Orders /\ orders[o].total \in Int
      /\ req \in [Clients -> Request]
      /\ chargeable \in [Orders -> Nat]
  BY RequestFields, OrdersAssumption DEF TypeOK, OpenOnly, HoldsTotal, Idle, Row
\* A step that charges nothing has its new request covered and its totals kept.
<1>1. ASSUME NEW c \in Clients, NEW q, req' = [req EXCEPT ![c] = q], Covered(q)',
             UNCHANGED <<items, chargeable>>, NeverOvercharged'
      PROVE  Charges'
  BY <1>0, <1>1 DEF Charges, Covered
<1>2. ASSUME NEW q, ~HoldsTotal(q)
      PROVE  Covered(q)'
  BY <1>2 DEF Covered, HoldsTotal
<1>3. ASSUME UNCHANGED <<orders, chargeable>> PROVE NeverOvercharged'
  BY <1>3 DEF Charges, NeverOvercharged
<1>4. ASSUME NEW c \in Clients, NEW q, Continue(c, q), ~HoldsTotal(q),
             UNCHANGED <<items, chargeable>>, NeverOvercharged'
      PROVE  Charges'
  BY <1>1, <1>2, <1>4 DEF Continue
<1>5. ~HoldsTotal(Idle)
  BY DEF HoldsTotal, Idle
<1>6. ASSUME NEW c \in Clients, NEW o \in Orders, OpenOrder(c, o) PROVE Charges'
  <2>1. NeverOvercharged'
    BY <1>0, <1>6 DEF OpenOrder, Charges, NeverOvercharged
  <2> QED
    BY <1>4, <1>6, <2>1 DEF OpenOrder, HoldsTotal
<1>7. ASSUME NEW c \in Clients, NEW o \in Orders, NEW q, Begin(c, o, q),
             HoldsTotal(q) => q.total = orders[o].total, q.order = o,
             q.pc \notin {"writeTotal", "deleteItem"}
      PROVE  Charges'
  <2>1. o \in DOMAIN orders /\ orders[o].total <= chargeable[o]
    BY <1>7 DEF Begin, Charges, NeverOvercharged
  <2>2. /\ UNCHANGED <<items, orders, chargeable>> /\ req' = [req EXCEPT ![c] = q]
    BY <1>7 DEF Begin
  <2>3. Covered(q)'
    BY <1>7, <2>1, <2>2 DEF Covered
  <2> QED
    BY <1>1, <1>3, <2>2, <2>3
<1>8. ASSUME NEW c \in Clients, NEW o \in Orders,
             \/ \E subtotal \in Subtotals : ReadToAdd(c, o, subtotal)
             \/ ReadToRemove(c, o)
             \/ \E status \in {"CLOSED", "CANCELLED"} : ReadToEnd(c, o, status)
      PROVE  Charges'
  BY <1>7, <1>8 DEF ReadToAdd, ReadToRemove, ReadToEnd, HoldsTotal
\* A step that charges the order of its request, whatever it does to the items.
<1>9. ASSUME NEW c \in Clients, NEW n, req' = [req EXCEPT ![c] = n], UNCHANGED orders,
             NEW p \in Orders, NEW more \in Nat,
             chargeable' = [chargeable EXCEPT ![p] = @ + more], Covered(n)',
             \A d \in Clients : req[d].pc = "deleteItem" /\ req[d].item \in DOMAIN items =>
                 \/ req[d].item \in DOMAIN items'
                 \/ req[d].order = p /\ -req[d].subtotal <= more
      PROVE  Charges'
  <2>1. /\ \A o \in Orders : /\ chargeable'[o] >= chargeable[o]
                             /\ chargeable'[o] \in Nat /\ chargeable[o] \in Nat
        /\ chargeable'[p] = chargeable[p] + more
    BY <1>0, <1>9
  <2>2. NeverOvercharged'
    BY <1>0, <1>9, <2>1 DEF Charges, NeverOvercharged
  <2>3. ASSUME NEW d \in Clients PROVE Covered(req[d])'
    <3>1. CASE d = c
      BY <1>0, <1>9, <3>1
    <3>2. CASE d # c /\ HoldsTotal(req[d])
      <4>1. /\ req'[d] = req[d] /\ req[d].order \in Orders /\ req[d].total \in Int
            /\ req[d].pc = "writeTotal" => req[d].newTotal \in Int
            /\ req[d].pc = "deleteItem" => req[d].subtotal \in Int
        BY <1>0, <1>9, <3>2
      <4>2. Covered(req[d])
        BY DEF Charges
      <4>3. req[d].total <= chargeable'[req[d].order]
        BY <2>1, <3>2, <4>1, <4>2 DEF Covered
      <4>4. req[d].pc = "writeTotal" => req[d].newTotal <= chargeable'[req[d].order]
        BY <2>1, <4>1, <4>2 DEF Covered
      <4>5. ASSUME req[d].pc = "deleteItem", req[d].item \notin DOMAIN items'
            PROVE  req[d].total - req[d].subtotal <= chargeable'[req[d].order]
        <5>1. CASE req[d].item \notin DOMAIN items
          BY <2>1, <4>1, <4>2, <4>5, <5>1 DEF Covered
        <5>2. CASE req[d].item \in DOMAIN items
          <6>1. req[d].order = p /\ -req[d].subtotal <= more
            BY <1>9, <4>5, <5>2
          <6>2. req[d].total <= chargeable[p]
            BY <3>2, <4>2, <6>1 DEF Covered
          <6> QED
            BY <2>1, <4>1, <4>5, <6>1, <6>2
        <5> QED
          BY <5>1, <5>2
      <4> QED
        BY <4>1, <4>3, <4>4, <4>5 DEF Covered
    <3>3. CASE d # c /\ ~HoldsTotal(req[d])
      BY <1>0, <1>9, <3>3 DEF Covered, HoldsTotal
    <3> QED
      BY <3>1, <3>2, <3>3
  <2> QED
    BY <2>2, <2>3 DEF Charges
<1>10. ASSUME NEW c \in Clients, NEW i \in Items, InsertItem(c, i) PROVE Charges'
  <2> DEFINE q == req[c]
             n == [pc |-> "writeTotal", order |-> q.order, total |-> q.total,
                   newTotal |-> q.total + q.subtotal]
  <2>1. /\ q.order \in Orders /\ q.total \in Int /\ q.subtotal \in Int
        /\ q.total <= chargeable[q.order] /\ chargeable[q.order] \in Nat
    BY <1>0, <1>10 DEF InsertItem, HoldsTotal, Charges, Covered
  <2>2. Charge(q.subtotal) \in Nat /\ q.subtotal <= Charge(q.subtotal)
    BY <2>1, ChargeType
  <2>3. /\ chargeable' = [chargeable EXCEPT ![q.order] = @ + Charge(q.subtotal)]
        /\ req' = [req EXCEPT ![c] = n] /\ UNCHANGED orders
        /\ DOMAIN items \subseteq DOMAIN items'
    BY <1>10 DEF InsertItem, Continue
  <2>4. chargeable'[q.order] = chargeable[q.order] + Charge(q.subtotal)
    BY <1>0, <2>1, <2>3
  <2>5. /\ q.total <= chargeable'[q.order]
        /\ q.total + q.subtotal <= chargeable'[q.order]
    BY <2>1, <2>2, <2>4
  <2>6. PICK m : m = n
    OBVIOUS
  <2>7. Covered(m)'
    BY <2>5, <2>6 DEF Covered
  <2>8. req' = [req EXCEPT ![c] = m]
    BY <2>3, <2>6
  <2> HIDE DEF n
  <2> QED
    BY <1>9, <2>1, <2>2, <2>3, <2>7, <2>8
<1>11. ASSUME NEW c \in Clients, NEW i \in Items, FindItem(c, i) PROVE Charges'
  <2> DEFINE n == [pc |-> "deleteItem", order |-> req[c].order, total |-> req[c].total,
                   item |-> i, subtotal |-> items[i].subtotal]
  <2>1. UNCHANGED <<orders, items, chargeable>>
    BY <1>11 DEF FindItem
  <2>4. PICK m : m = n
    OBVIOUS
  <2>5. req[c].pc = "findItem" /\ req[c].total <= chargeable[req[c].order]
    BY <1>11 DEF FindItem, HoldsTotal, Charges, Covered
  <2>2. i \in DOMAIN items => Covered(m)'
    BY <2>1, <2>4, <2>5 DEF HoldsTotal, Covered
  <2>3. \/ Continue(c, m) /\ i \in DOMAIN items
        \/ Continue(c, Idle)
    BY <1>11, <2>4 DEF FindItem
  <2> HIDE DEF n
  <2> QED
    BY <1>1, <1>3, <1>4, <1>5, <2>1, <2>2, <2>3 DEF Continue
\* The item is charged when it goes, for every request that is to delete it.
<1>12. ASSUME NEW c \in Clients, DeleteItem(c) PROVE Charges'
  <2> DEFINE q == req[c]
             n == [pc |-> "writeTotal", order |-> q.order, total |-> q.total,
                   newTotal |-> TotalWithout(q.total, q.subtotal)]
             more == IF q.item \in DOMAIN items THEN Charge(-q.subtotal) ELSE 0
  <2>1. /\ q.pc = "deleteItem" /\ q.order \in Orders /\ q.total \in Int /\ q.subtotal \in Int
        /\ q.total <= chargeable[q.order] /\ chargeable[q.order] \in Nat
        /\ q.item \notin DOMAIN items => q.total - q.subtotal <= chargeable[q.order]
    BY <1>0, <1>12 DEF DeleteItem, HoldsTotal, Charges, Covered
  <2>2. -q.subtotal \in Int
    BY <2>1
  <2>3. Charge(-q.subtotal) \in Nat /\ -q.subtotal <= Charge(-q.subtotal)
    BY <2>2, ChargeType
  <2>4. more \in Nat
    BY <2>3
  <2>5. /\ req' = [req EXCEPT ![c] = n] /\ UNCHANGED orders
        /\ DOMAIN items' = DOMAIN items \ {q.item}
    BY <1>12 DEF DeleteItem, Continue
  <2>6. chargeable' = [chargeable EXCEPT ![q.order] = @ + more]
    <3>1. chargeable = [chargeable EXCEPT ![q.order] = @ + 0]
      BY <1>0, <2>1
    <3> QED
      BY <1>12, <3>1 DEF DeleteItem
  <2>7. chargeable'[q.order] = chargeable[q.order] + more /\ chargeable'[q.order] \in Nat
    BY <1>0, <2>1, <2>4, <2>6
  <2>8. q.total <= chargeable'[q.order] /\ q.total - q.subtotal <= chargeable'[q.order]
    BY <2>1, <2>3, <2>7
  <2>9. TotalWithout(q.total, q.subtotal) <= chargeable'[q.order]
    BY <2>1, <2>7, <2>8, TotalWithoutType
  <2>10. PICK m : m = n
    OBVIOUS
  <2>12. Covered(m)'
    BY <2>8, <2>9, <2>10 DEF Covered
  <2>13. req' = [req EXCEPT ![c] = m]
    BY <2>5, <2>10
  <2>11. ASSUME NEW d \in Clients, req[d].pc = "deleteItem", req[d].item \in DOMAIN items,
                req[d].item \notin DOMAIN items'
         PROVE  req[d].order = q.order /\ -req[d].subtotal <= more
    <3>1. req[d].item = q.item
      BY <2>5, <2>11
    <3>2. KnowsItem(req[d]) /\ KnowsItem(q)
      BY <1>0
    <3>3. req[d].order = q.order /\ req[d].subtotal = q.subtotal
      BY <2>1, <2>11, <3>1, <3>2 DEF KnowsItem
    <3> QED
      BY <2>3, <2>11, <3>1, <3>3
  <2> HIDE DEF n, more
  <2> QED
    BY <1>9, <2>1, <2>4, <2>5, <2>6, <2>11, <2>12, <2>13
<1>13. ASSUME NEW c \in Clients, WriteTotal(c) PROVE Charges'
  <2>1. HoldsTotal(req[c]) /\ req[c].newTotal <= chargeable[req[c].order]
    BY <1>13 DEF WriteTotal, HoldsTotal, Charges, Covered
  <2>2. UNCHANGED <<items, chargeable>> /\ DOMAIN orders' = DOMAIN orders
        /\ \A o \in DOMAIN orders :
             \/ orders'[o].total = orders[o].total
             \/ o = req[c].order /\ orders'[o].total = req[c].newTotal
    BY <1>0, <1>13, <2>1 DEF WriteTotal, TypeOK, Row
  <2>3. NeverOvercharged'
    BY <2>1, <2>2 DEF Charges, NeverOvercharged
  <2> QED
    BY <1>4, <1>13, <2>2, <2>3 DEF WriteTotal, HoldsTotal
<1>14. ASSUME NEW c \in Clients, WriteStatus(c) PROVE Charges'
  <2>1. UNCHANGED <<items, chargeable>> /\ DOMAIN orders' = DOMAIN orders
        /\ \A o \in DOMAIN orders : orders'[o].total = orders[o].total
    BY <1>14 DEF WriteStatus, TypeOK, Row
  <2>2. NeverOvercharged'
    BY <2>1 DEF Charges, NeverOvercharged
  <2> QED
    BY <1>4, <1>14, <2>1, <2>2 DEF WriteStatus, HoldsTotal
<1>15. ASSUME NEW c \in Clients,
              Refresh(c) \/ Publish(c) \/ PublishUnanswered(c) \/ Fail(c)
       PROVE  Charges'
  <2>1. UNCHANGED <<orders, items, chargeable>>
    BY <1>15 DEF Refresh, Publish, PublishUnanswered, Fail
  <2>2. PublishUnanswered(c) => ~HoldsTotal([req[c] EXCEPT !.sent = EventId(req[c])])
    BY DEF PublishUnanswered, HoldsTotal
  <2> QED
    BY <1>3, <1>4, <1>5, <1>15, <2>1, <2>2
       DEF Refresh, Publish, PublishUnanswered, Fail, HoldsTotal
<1>16. CASE UNCHANGED vars
  BY <1>16 DEF vars, Charges, NeverOvercharged, Covered
<1> QED
  BY <1>6, <1>8, <1>10, <1>11, <1>12, <1>13, <1>14, <1>15, <1>16 DEF Next

\* However requests overlap, lose each other's updates or fail half way, an
\* order's total never exceeds what its items may have charged: the subtotals of
\* those put on it, less those of the items taken off it that had lowered it.
THEOREM OrdersNeverOvercharged == Spec => []NeverOvercharged
<1>1. Init => OpenOnly /\ Charges
  BY DEF Init, OpenOnly, KnowsItem, Charges, NeverOvercharged, Covered, HoldsTotal, Idle
<1>2. TypeOK /\ OpenOnly /\ Charges /\ [Next]_vars => (OpenOnly /\ Charges)'
  BY OpenOnlyStep, ChargesStep
<1> QED
  BY <1>1, <1>2, OrdersType, PTL DEF Spec, Charges

-----------------------------------------------------------------------------
(* The sum of an order's items *)

\* The table of the items is finite, and each is of an order there is, which an
\* item of negative subtotal has lowered.
ItemRows ==
  /\ IsFiniteSet(DOMAIN items)
  /\ \A i \in DOMAIN items : /\ items[i].order \in DOMAIN orders
                             /\ items[i].subtotal < 0 => items[i].order \in lowered

LEMMA ItemRowsStep == TypeOK /\ ItemRows /\ [Next]_vars => ItemRows'
<1> SUFFICES ASSUME TypeOK, ItemRows, [Next]_vars PROVE ItemRows'
  OBVIOUS
<1>1. DOMAIN orders \subseteq DOMAIN orders'
  BY DEF Next, OpenOrder, ReadToAdd, ReadToRemove, ReadToEnd, Begin, InsertItem, FindItem,
         DeleteItem, WriteTotal, WriteStatus, Refresh, Publish, PublishUnanswered, Fail, vars
<1>2. ASSUME NEW c \in Clients, NEW i \in Items, InsertItem(c, i) PROVE ItemRows'
  <2>1. /\ DOMAIN items' = DOMAIN items \cup {i}
        /\ \A x \in DOMAIN items : items'[x] = items[x] \/ x = i
        /\ items'[i].order = req[c].order /\ items'[i].subtotal = req[c].subtotal
        /\ req[c].order \in DOMAIN orders
        /\ lowered \subseteq lowered'
        /\ req[c].subtotal < 0 => req[c].order \in lowered'
    BY <1>2 DEF InsertItem, TypeOK, Idle
  <2>2. IsFiniteSet(DOMAIN items')
    BY <2>1, FS_AddElement DEF ItemRows
  <2> QED
    BY <1>1, <2>1, <2>2 DEF ItemRows
<1>3. ASSUME NEW c \in Clients, DeleteItem(c) PROVE ItemRows'
  <2>1. /\ DOMAIN items' \subseteq DOMAIN items /\ UNCHANGED lowered
        /\ \A x \in DOMAIN items' : items'[x] = items[x]
    BY <1>3 DEF DeleteItem
  <2>2. IsFiniteSet(DOMAIN items')
    BY <2>1, FS_Subset DEF ItemRows
  <2> QED
    BY <1>1, <2>1, <2>2 DEF ItemRows
<1>4. CASE UNCHANGED <<items, lowered>>
  BY <1>1, <1>4 DEF ItemRows
<1>5. \/ UNCHANGED <<items, lowered>>
      \/ \E c \in Clients : DeleteItem(c) \/ \E i \in Items : InsertItem(c, i)
  <2>1. ASSUME NEW c \in Clients, NEW o \in Orders, NEW q,
               OpenOrder(c, o) \/ Begin(c, o, q)
        PROVE  UNCHANGED <<items, lowered>>
    BY <2>1 DEF OpenOrder, Begin
  <2>2. ASSUME NEW c \in Clients, NEW i \in Items, FindItem(c, i)
        PROVE  UNCHANGED <<items, lowered>>
    BY <2>2 DEF FindItem
  <2>3. ASSUME NEW c \in Clients,
               \/ WriteTotal(c) \/ WriteStatus(c)
               \/ Refresh(c) \/ Publish(c) \/ PublishUnanswered(c) \/ Fail(c)
        PROVE  UNCHANGED <<items, lowered>>
    BY <2>3 DEF WriteTotal, WriteStatus, Refresh, Publish, PublishUnanswered, Fail
  <2>4. UNCHANGED vars => UNCHANGED <<items, lowered>>
    BY DEF vars
  <2> QED
    BY <2>1, <2>2, <2>3, <2>4 DEF Next, ReadToAdd, ReadToRemove, ReadToEnd
<1> QED
  BY <1>2, <1>3, <1>4, <1>5

\* What is summed: integers over a finite set, natural numbers unless one lowered
\* the order.
LEMMA Summands ==
  ASSUME TypeOK, ItemRows, NEW o
  PROVE  /\ IsFiniteSet(ItemsOf(o))
         /\ \A i \in ItemsOf(o) : items[i].subtotal \in Int
         /\ o \notin lowered => \A i \in ItemsOf(o) : items[i].subtotal \in Nat
<1>1. ItemsOf(o) \subseteq DOMAIN items /\ \A i \in ItemsOf(o) : items[i].order = o
  BY DEF ItemsOf
<1>2. IsFiniteSet(ItemsOf(o))
  BY <1>1, FS_Subset DEF ItemRows
<1>3. \A i \in DOMAIN items : items[i].subtotal \in Int
  BY OrdersAssumption DEF TypeOK, Item
<1> QED
  BY <1>1, <1>2, <1>3 DEF ItemRows

LEMMA ItemTotalType ==
  ASSUME TypeOK, ItemRows, NEW o
  PROVE  ItemTotal(o) \in Int
<1> DEFINE S == ItemsOf(o)
           f == [x \in S |-> items[x].subtotal]
<1>1. IsFiniteSet(S) /\ \A x \in S : f[x] \in Int
  BY Summands
<1>2. ItemTotal(o) = SumFunctionOnSet(f, S)
  BY DEF ItemTotal
<1> HIDE DEF S, f
<1> QED
  BY <1>1, <1>2, SumRemove

LEMMA ItemTotalSame ==
  ASSUME NEW o, ItemsOf(o)' = ItemsOf(o), \A i \in ItemsOf(o) : items'[i] = items[i]
  PROVE  ItemTotal(o)' = ItemTotal(o)
<1>1. [i \in ItemsOf(o) |-> items[i].subtotal]' = [i \in ItemsOf(o) |-> items[i].subtotal]
  OBVIOUS
<1> QED
  BY <1>1 DEF ItemTotal

\* One more item adds its subtotal.
LEMMA ItemTotalInsert ==
  ASSUME TypeOK, ItemRows, NEW o, NEW i, i \notin DOMAIN items, NEW subtotal \in Int,
         items' = [x \in DOMAIN items \cup {i} |->
                     IF x = i THEN [order |-> o, subtotal |-> subtotal] ELSE items[x]]
  PROVE  ItemTotal(o)' = ItemTotal(o) + subtotal
<1> DEFINE S == ItemsOf(o)
           f == [x \in S |-> items[x].subtotal]
           g == [x \in S \cup {i} |-> items'[x].subtotal]
<1>1. ItemsOf(o)' = S \cup {i} /\ i \notin S
  BY DEF ItemsOf
<1>2. IsFiniteSet(S) /\ \A x \in S : f[x] \in Int
  BY Summands
<1>3. \A x \in S : x \in DOMAIN items /\ x # i
  BY DEF ItemsOf
<1>4. g[i] = subtotal /\ \A x \in S : g[x] = f[x]
  BY <1>3
<1>5. ItemTotal(o)' = SumFunctionOnSet(g, S \cup {i})
  BY <1>1 DEF ItemTotal
<1>6. ItemTotal(o) = SumFunctionOnSet(f, S)
  BY DEF ItemTotal
<1> HIDE DEF S, f, g
<1>7. SumFunctionOnSet(g, S \cup {i}) = subtotal + SumFunctionOnSet(g, S)
  BY <1>1, <1>2, <1>4, SumAdd
<1>8. SumFunctionOnSet(g, S) = SumFunctionOnSet(f, S) /\ SumFunctionOnSet(f, S) \in Int
  BY <1>2, <1>4, SumSame, SumRemove
<1> QED
  BY <1>5, <1>6, <1>7, <1>8

\* One item less takes its subtotal away, which is no more than the sum unless
\* an item lowered the order.
LEMMA ItemTotalDelete ==
  ASSUME TypeOK, ItemRows, NEW o, NEW i \in ItemsOf(o),
         items' = [x \in DOMAIN items \ {i} |-> items[x]]
  PROVE  /\ items[i].subtotal \in Int
         /\ ItemTotal(o)' = ItemTotal(o) - items[i].subtotal
         /\ o \notin lowered => items[i].subtotal <= ItemTotal(o)
<1> DEFINE S == ItemsOf(o)
           f == [x \in S |-> items[x].subtotal]
           g == [x \in S \ {i} |-> items'[x].subtotal]
<1>1. ItemsOf(o)' = S \ {i}
  BY DEF ItemsOf
<1>2. /\ IsFiniteSet(S) /\ IsFiniteSet(S \ {i}) /\ \A x \in S : f[x] \in Int
      /\ o \notin lowered => \A x \in S : f[x] \in Nat
  BY Summands, FS_RemoveElement
<1>3. \A x \in S \ {i} : x \in DOMAIN items \ {i}
  BY DEF ItemsOf
<1>4. f[i] = items[i].subtotal /\ \A x \in S \ {i} : g[x] = f[x]
  BY <1>3
<1>5. ItemTotal(o)' = SumFunctionOnSet(g, S \ {i})
  BY <1>1 DEF ItemTotal
<1>6. ItemTotal(o) = SumFunctionOnSet(f, S) /\ i \in S
  BY DEF ItemTotal
<1> HIDE DEF S, f, g
<1>7. SumFunctionOnSet(f, S) = f[i] + SumFunctionOnSet(f, S \ {i}) /\ f[i] \in Int
  BY <1>2, <1>6, SumRemove
<1>9. o \notin lowered => f[i] <= SumFunctionOnSet(f, S)
  BY <1>2, <1>6, SumNat
<1>8. /\ SumFunctionOnSet(g, S \ {i}) = SumFunctionOnSet(f, S \ {i})
      /\ SumFunctionOnSet(f, S \ {i}) \in Int
  BY <1>2, <1>4, SumSame, SumRemove
<1> QED
  BY <1>4, <1>5, <1>6, <1>7, <1>8, <1>9

\* What bills an order is what billed it, as long as its items stay.
LEMMA BillsSame ==
  ASSUME NEW o, ItemTotal(o)' = ItemTotal(o), o \in lowered' <=> o \in lowered, NEW total
  PROVE  Bills(o, total) <=> IF o \in lowered' THEN total >= ItemTotal(o)'
                                               ELSE total = ItemTotal(o)'
BY DEF Bills

-----------------------------------------------------------------------------
(* What a step of one request leaves alone *)

\* A step of client c on order p: the other requests, the other orders, their
\* items and what was told of them stay.
Touches(c, p) ==
  /\ req' = [req EXCEPT ![c] = req'[c]]
  /\ req[c] # Idle => req[c].order = p
  /\ req'[c] # Idle => req'[c].order = p
  /\ DOMAIN orders' = DOMAIN orders \cup {p}
  /\ \A o \in DOMAIN orders \ {p} :
       /\ orders'[o] = orders[o] /\ ItemsOf(o)' = ItemsOf(o)
       /\ \A i \in ItemsOf(o) : items'[i] = items[i]
       /\ Ends(o)' = Ends(o)
       /\ o \in lowered' <=> o \in lowered
  /\ \A n \in DOMAIN events : n \in DOMAIN events' /\ events'[n] = events[n]
  /\ raced \subseteq raced' /\ broken \subseteq broken'

\* The step of Touches for a request that keeps the tables and the topic.
LEMMA TouchesRequest ==
  ASSUME TypeOK, NEW c \in Clients, NEW p \in DOMAIN orders,
         req' = [req EXCEPT ![c] = req'[c]],
         req[c] # Idle => req[c].order = p, req'[c] # Idle => req'[c].order = p,
         UNCHANGED <<tables, events, lowered>>, raced \subseteq raced', broken \subseteq broken'
  PROVE  Touches(c, p)
BY DEF Touches, ItemsOf, Ends

\* What a request publishes is about its own order.
OwnEvent(q) == q.pc = "publish" => q.event.order = q.order

LEMMA TouchesOrder ==
  ASSUME TypeOK, OpenOnly, NEW c \in Clients, OwnEvent(req[c])
  PROVE  /\ \A p \in Orders :
              \/ OpenOrder(c, p)
              \/ \E subtotal \in Subtotals : ReadToAdd(c, p, subtotal)
              \/ ReadToRemove(c, p)
              \/ \E status \in {"CLOSED", "CANCELLED"} : ReadToEnd(c, p, status)
              => Touches(c, p)
         /\ \/ \E i \in Items : InsertItem(c, i) \/ FindItem(c, i)
            \/ DeleteItem(c) \/ WriteTotal(c) \/ WriteStatus(c)
            \/ Refresh(c) \/ Publish(c) \/ PublishUnanswered(c) \/ Fail(c)
            => /\ req[c] # Idle /\ req[c].order \in DOMAIN orders
               /\ Touches(c, req[c].order)
<1> DEFINE p == req[c].order
<1>0. /\ req \in [Clients -> Request] /\ Idle.pc = "idle"
      /\ req[c] # Idle => p \in DOMAIN orders
      /\ \A q : [req EXCEPT ![c] = q][c] = q
      /\ \A o \in DOMAIN orders : orders[o] \in Row
      /\ KnowsItem(req[c])
  BY DEF TypeOK, Idle, OpenOnly
<1>1. ASSUME NEW o \in Orders, OpenOrder(c, o) PROVE Touches(c, o)
  BY <1>0, <1>1 DEF OpenOrder, Continue, Touches, ItemsOf, Ends
<1>2. ASSUME NEW o \in Orders, NEW q, Begin(c, o, q), q.order = o PROVE Touches(c, o)
  <2>1. /\ req'[c] = q /\ req[c] = Idle /\ o \in DOMAIN orders
        /\ UNCHANGED <<tables, events, sums, broken>> /\ raced \subseteq raced'
        /\ req' = [req EXCEPT ![c] = q]
    BY <1>0, <1>2 DEF Begin
  <2> QED
    BY <1>2, <2>1, TouchesRequest
<1>3. ASSUME NEW o \in Orders,
             \/ \E subtotal \in Subtotals : ReadToAdd(c, o, subtotal)
             \/ ReadToRemove(c, o)
             \/ \E status \in {"CLOSED", "CANCELLED"} : ReadToEnd(c, o, status)
      PROVE  Touches(c, o)
  BY <1>2, <1>3 DEF ReadToAdd, ReadToRemove, ReadToEnd
<1>4. ASSUME NEW i \in Items, InsertItem(c, i)
      PROVE  req[c] # Idle /\ p \in DOMAIN orders /\ Touches(c, p)
  <2> DEFINE n == [pc |-> "writeTotal", order |-> p, total |-> req[c].total,
                   newTotal |-> req[c].total + req[c].subtotal]
  <2>1. /\ req[c] # Idle /\ i \notin DOMAIN items
        /\ items' = [x \in DOMAIN items \cup {i} |->
                       IF x = i THEN [order |-> p, subtotal |-> req[c].subtotal] ELSE items[x]]
        /\ req' = [req EXCEPT ![c] = n] /\ n.order = p
        /\ lowered' = IF req[c].subtotal < 0 THEN lowered \cup {p} ELSE lowered
        /\ UNCHANGED <<orders, events, raced, broken>>
    BY <1>0, <1>4 DEF InsertItem, Continue
  <2>2. \A o \in DOMAIN orders \ {p} : /\ ItemsOf(o)' = ItemsOf(o)
                                       /\ \A j \in ItemsOf(o) : items'[j] = items[j]
    BY <2>1 DEF ItemsOf
  <2>3. Ends(p)' = Ends(p) /\ \A o : Ends(o)' = Ends(o)
    BY <2>1 DEF Ends
  <2> HIDE DEF n
  <2> QED
    BY <1>0, <2>1, <2>2, <2>3 DEF Touches
<1>5. ASSUME NEW i \in Items, FindItem(c, i)
      PROVE  req[c] # Idle /\ p \in DOMAIN orders /\ Touches(c, p)
  <2>1. PICK q : /\ req' = [req EXCEPT ![c] = q]
                 /\ q # Idle => q.order = p
                 /\ req[c] # Idle /\ UNCHANGED <<tables, events, sums, raced, broken>>
    BY <1>0, <1>5 DEF FindItem, Continue
  <2> QED
    BY <1>0, <2>1, TouchesRequest
<1>6. ASSUME DeleteItem(c)
      PROVE  req[c] # Idle /\ p \in DOMAIN orders /\ Touches(c, p)
  <2> DEFINE n == [pc |-> "writeTotal", order |-> p, total |-> req[c].total,
                   newTotal |-> TotalWithout(req[c].total, req[c].subtotal)]
  <2>1. /\ req[c] # Idle /\ req[c].pc = "deleteItem"
        /\ items' = [x \in DOMAIN items \ {req[c].item} |-> items[x]]
        /\ req' = [req EXCEPT ![c] = n] /\ n.order = p
        /\ UNCHANGED <<orders, events, lowered, raced, broken>>
    BY <1>0, <1>6 DEF DeleteItem, Continue
  <2>2. req[c].item \in DOMAIN items => items[req[c].item].order = p
    BY <1>0, <2>1 DEF KnowsItem
  <2>3. \A o \in DOMAIN orders \ {p} : /\ ItemsOf(o)' = ItemsOf(o)
                                       /\ \A j \in ItemsOf(o) : items'[j] = items[j]
    BY <2>1, <2>2 DEF ItemsOf
  <2>4. Ends(p)' = Ends(p) /\ \A o : Ends(o)' = Ends(o)
    BY <2>1 DEF Ends
  <2> HIDE DEF n
  <2> QED
    BY <1>0, <2>1, <2>3, <2>4 DEF Touches
<1>7. ASSUME WriteTotal(c) \/ WriteStatus(c)
      PROVE  req[c] # Idle /\ p \in DOMAIN orders /\ Touches(c, p)
  <2>1. PICK kind : /\ req' = [req EXCEPT ![c] = [pc |-> "refresh", order |-> p, kind |-> kind]]
                    /\ req[c] # Idle /\ UNCHANGED <<items, deleted, events, sums, raced, broken>>
                    /\ DOMAIN orders' = DOMAIN orders
                    /\ \A o \in DOMAIN orders \ {p} : orders'[o] = orders[o]
    BY <1>0, <1>7 DEF WriteTotal, WriteStatus, Continue
  <2>2. \A o : Ends(o)' = Ends(o) /\ ItemsOf(o)' = ItemsOf(o)
    BY <2>1 DEF Ends, ItemsOf
  <2> QED
    BY <1>0, <2>1, <2>2 DEF Touches
<1>8. ASSUME Refresh(c)
      PROVE  req[c] # Idle /\ p \in DOMAIN orders /\ Touches(c, p)
  <2>1. PICK e : /\ req' = [req EXCEPT ![c] = [pc |-> "publish", order |-> p, event |-> e,
                                            sent |-> 0]]
                 /\ req[c] # Idle /\ UNCHANGED <<tables, events, sums, raced, broken>>
    BY <1>0, <1>8 DEF Refresh, Continue
  <2> QED
    BY <1>0, <2>1, TouchesRequest
<1>9. ASSUME Fail(c)
      PROVE  req[c] # Idle /\ p \in DOMAIN orders /\ Touches(c, p)
  <2>1. /\ req' = [req EXCEPT ![c] = Idle] /\ broken \subseteq broken'
        /\ req[c] # Idle /\ UNCHANGED <<tables, events, sums, raced>>
    BY <1>9 DEF Fail, Continue
  <2> QED
    BY <1>0, <2>1, TouchesRequest
<1>10. ASSUME Publish(c) \/ PublishUnanswered(c)
       PROVE  req[c] # Idle /\ p \in DOMAIN orders /\ Touches(c, p)
  <2> DEFINE e == [id |-> EventId(req[c]), told |-> req[c].event]
             n == [req[c] EXCEPT !.sent = EventId(req[c])]
  <2>0. e.told.order = p /\ n.order = p
    BY <1>10 DEF Publish, PublishUnanswered, OwnEvent
  <2>1. /\ req' = [req EXCEPT ![c] = Idle] \/ req' = [req EXCEPT ![c] = n]
        /\ events' = Append(events, e)
        /\ req[c] # Idle /\ UNCHANGED <<tables, sums, raced, broken>>
    BY <1>0, <1>10 DEF Publish, PublishUnanswered, Send, Continue
  <2> HIDE DEF n, e
  <2>2. /\ DOMAIN events' = DOMAIN events \cup {Len(events) + 1}
        /\ events'[Len(events) + 1] = e
        /\ \A k \in DOMAIN events : events'[k] = events[k]
    BY <2>1 DEF TypeOK
  <2>3. \A o \in DOMAIN orders \ {p} : Ends(o)' = Ends(o)
    BY <2>0, <2>2 DEF Ends
  <2>4. \A o : ItemsOf(o)' = ItemsOf(o)
    BY <2>1 DEF ItemsOf
  <2> QED
    BY <1>0, <2>0, <2>1, <2>2, <2>3, <2>4 DEF Touches
<1> QED
  BY <1>1, <1>3, <1>4, <1>5, <1>6, <1>7, <1>8, <1>9, <1>10

\* Nobody else works on the order of a request, unless they raced.
LEMMA Sole ==
  ASSUME TypeOK, OpenOnly, NEW c \in Clients, NEW p \in DOMAIN orders \ raced,
         req[c] # Idle, req[c].order = p, Touches(c, p)
  PROVE  \A d \in Clients : WorksOn(d, p)' => d = c
<1>1. \A d \in Clients : d # c => req'[d] = req[d]
  BY DEF Touches, TypeOK
<1>2. Alone(p)
  BY DEF OpenOnly
<1> QED
  BY <1>1, <1>2 DEF Alone, WorksOn

-----------------------------------------------------------------------------
(* The total is the sum of the items *)

\* What a request knows of its order: the total it has read is the one stored;
\* the total bills the items, except after the request's item and before its
\* total, when it is about to write one that does; the item it deletes is as read.
Fits(q, o) ==
  /\ Bills(o, IF q.pc = "writeTotal" THEN q.newTotal ELSE orders[o].total)
  /\ HoldsTotal(q) => q.total = orders[o].total
  /\ q.pc = "deleteItem" => /\ q.item \in ItemsOf(o)
                            /\ items[q.item].subtotal = q.subtotal

Matches(o) ==
  /\ ~InWork(o) => Bills(o, orders[o].total)
  /\ \A c \in Clients : WorksOn(c, o) => Fits(req[c], o)

MatchesAll == \A o \in DOMAIN orders \ (raced \cup broken) : Matches(o)

\* It suffices to look at the order the step touches, and at the request that
\* took it.
LEMMA MatchesTouched ==
  ASSUME TypeOK, MatchesAll, NEW c \in Clients, NEW p \in Orders, Touches(c, p),
         p \notin raced' \cup broken' => /\ \A d \in Clients : WorksOn(d, p)' => d = c
                                         /\ Fits(req[c], p)'
  PROVE  MatchesAll'
<1> SUFFICES ASSUME NEW o \in DOMAIN orders', o \notin raced' \cup broken' PROVE Matches(o)'
  BY DEF MatchesAll
<1>1. CASE o = p
  <2>1. (\A d \in Clients : WorksOn(d, p)' => d = c) /\ Fits(req[c], p)'
    BY <1>1
  <2>2. ~WorksOn(c, p)' => req'[c] = Idle
    BY DEF WorksOn, Touches
  <2>3. ~InWork(p)' => req'[c] = Idle
    BY <2>2 DEF InWork
  <2>4. req'[c] = Idle => Bills(p, orders[p].total)'
    BY <2>1 DEF Fits, Idle
  <2> QED
    BY <1>1, <2>1, <2>3, <2>4 DEF Matches
<1>2. CASE o # p
  <2>1. /\ o \in DOMAIN orders \ (raced \cup broken)
        /\ orders'[o] = orders[o] /\ ItemsOf(o)' = ItemsOf(o)
        /\ \A i \in ItemsOf(o) : items'[i] = items[i]
        /\ o \in lowered' <=> o \in lowered
    BY <1>2 DEF Touches
  <2>2. ItemTotal(o)' = ItemTotal(o)
    BY <2>1, ItemTotalSame
  <2>3. \A d \in Clients : /\ WorksOn(d, o)' => WorksOn(d, o) /\ req'[d] = req[d]
                           /\ WorksOn(d, o) => WorksOn(d, o)'
    BY <1>2 DEF Touches, WorksOn, TypeOK
  <2>4. Matches(o)
    BY <2>1 DEF MatchesAll
  <2>5. InWork(o)' <=> InWork(o)
    BY <2>3 DEF InWork
  <2>6. \A total : Bills(o, total) <=> IF o \in lowered' THEN total >= ItemTotal(o)'
                                                          ELSE total = ItemTotal(o)'
    BY <2>1, <2>2, BillsSame
  <2>7. \A q : Fits(q, o) => /\ Bills(o, IF q.pc = "writeTotal" THEN q.newTotal
                                         ELSE orders'[o].total)
                             /\ (HoldsTotal(q) => q.total = orders'[o].total)
                             /\ (q.pc = "deleteItem" => /\ q.item \in ItemsOf(o)'
                                                        /\ items'[q.item].subtotal = q.subtotal)
    BY <2>1 DEF Fits
  <2>8. \A d \in Clients : WorksOn(d, o)' => Fits(req[d], o)'
    BY <2>3, <2>4, <2>6, <2>7 DEF Matches, Fits, HoldsTotal, Bills
  <2> QED
    BY <2>1, <2>4, <2>5, <2>6, <2>8 DEF Matches, Bills
<1> QED
  BY <1>1, <1>2

\* A request that goes on with an order nobody else works on.
LEMMA MatchesContinued ==
  ASSUME TypeOK, OpenOnly, MatchesAll, NEW c \in Clients, NEW p \in DOMAIN orders,
         req[c] # Idle, req[c].order = p, Touches(c, p),
         p \notin raced' \cup broken' /\ Fits(req[c], p) => Fits(req[c], p)'
  PROVE  MatchesAll'
<1>1. p \notin raced' \cup broken' => p \notin raced \cup broken
  BY DEF Touches
<1>2. WorksOn(c, p) /\ p \in Orders
  BY DEF WorksOn, TypeOK
<1>3. p \notin raced \cup broken => Fits(req[c], p)
  BY <1>2 DEF MatchesAll, Matches
<1>4. p \notin raced => \A d \in Clients : WorksOn(d, p)' => d = c
  BY Sole
<1> QED
  BY <1>1, <1>2, <1>3, <1>4, MatchesTouched

LEMMA MatchesStep ==
  TypeOK /\ OpenOnly /\ ItemRows /\ MatchesAll /\ (\A c \in Clients : OwnEvent(req[c]))
    /\ [Next]_vars => MatchesAll'
<1> SUFFICES ASSUME TypeOK, OpenOnly, ItemRows, MatchesAll,
                    \A c \in Clients : OwnEvent(req[c]), [Next]_vars
             PROVE  MatchesAll'
  OBVIOUS
<1>0. /\ req \in [Clients -> Request] /\ Idle.pc = "idle"
      /\ \A c \in Clients : req[c] # Idle => req[c].order \in DOMAIN orders
      /\ \A o \in DOMAIN orders : o \in Orders /\ orders[o] \in Row /\ orders[o].total \in Int
      /\ \A c \in Clients : \A q : [req EXCEPT ![c] = q][c] = q
      /\ ~HoldsTotal(Idle)
  BY DEF TypeOK, Idle, Row, HoldsTotal
<1>1. ASSUME NEW c \in Clients, NEW o \in Orders, OpenOrder(c, o) PROVE MatchesAll'
  <2> DEFINE n == [pc |-> "refresh", order |-> o, kind |-> "OrderCreated"]
  <2>1. /\ o \notin DOMAIN orders /\ req' = [req EXCEPT ![c] = n] /\ n.order = o
        /\ orders'[o] = [status |-> "OPEN", total |-> 0] /\ UNCHANGED <<items, deleted, lowered>>
    BY <1>1 DEF OpenOrder, Continue
  <2>2. Touches(c, o)
    BY <1>0, <1>1, TouchesOrder
  <2>3. ItemsOf(o)' = {} /\ ItemTotal(o)' = 0
    BY <2>1, SumEmpty DEF ItemRows, ItemsOf, ItemTotal
  <2>4. req'[c] = n /\ Fits(req[c], o)'
    BY <1>0, <2>1, <2>3 DEF Fits, HoldsTotal, Bills
  <2>5. \A d \in Clients : WorksOn(d, o)' => d = c
    BY <1>0, <2>1 DEF WorksOn
  <2> QED
    BY <2>2, <2>4, <2>5, MatchesTouched
\* A request begins and reads the total; if nobody works on the order, that is
\* the sum of its items.
<1>2. ASSUME NEW c \in Clients, NEW o \in Orders, NEW q, Begin(c, o, q), q.order = o,
             q.pc \notin {"writeTotal", "deleteItem"},
             HoldsTotal(q) => q.total = orders[o].total,
             Touches(c, o)
      PROVE  MatchesAll'
  <2>1. /\ o \in DOMAIN orders /\ req' = [req EXCEPT ![c] = q] /\ UNCHANGED <<tables, lowered, broken>>
        /\ req[c] = Idle
        /\ raced' = IF \E d \in Clients : WorksOn(d, o) THEN raced \cup {o} ELSE raced
    BY <1>2 DEF Begin
  <2>2. ASSUME o \notin raced' \cup broken'
        PROVE  (\A d \in Clients : WorksOn(d, o)' => d = c) /\ Fits(req[c], o)'
    <3>1. ~InWork(o) /\ o \notin raced \cup broken
      BY <2>1, <2>2 DEF InWork
    <3>2. Bills(o, orders[o].total)
      BY <2>1, <3>1 DEF MatchesAll, Matches
    <3>3. orders'[o] = orders[o] /\ ItemTotal(o)' = ItemTotal(o)
      BY <2>1, ItemTotalSame DEF ItemsOf
    <3>4. \A d \in Clients : WorksOn(d, o)' => d = c
      BY <1>0, <2>1, <3>1 DEF InWork, WorksOn
    <3>5. req'[c] = q
      BY <1>0, <2>1
    <3>6. Fits(req[c], o)'
      BY <1>2, <2>1, <3>2, <3>3, <3>5 DEF Fits, HoldsTotal, Bills
    <3> QED
      BY <3>4, <3>6
  <2> QED
    BY <1>2, <2>2, MatchesTouched
<1>3. ASSUME NEW c \in Clients, NEW o \in Orders,
             \/ \E subtotal \in Subtotals : ReadToAdd(c, o, subtotal)
             \/ ReadToRemove(c, o)
             \/ \E status \in {"CLOSED", "CANCELLED"} : ReadToEnd(c, o, status)
      PROVE  MatchesAll'
  <2>1. Touches(c, o)
    BY <1>0, <1>3, TouchesOrder
  <2> QED
    BY <1>2, <1>3, <2>1 DEF ReadToAdd, ReadToRemove, ReadToEnd, HoldsTotal
<1>4. ASSUME NEW c \in Clients,
             \/ \E i \in Items : InsertItem(c, i) \/ FindItem(c, i)
             \/ DeleteItem(c) \/ WriteTotal(c) \/ WriteStatus(c)
             \/ Refresh(c) \/ Publish(c) \/ PublishUnanswered(c) \/ Fail(c)
      PROVE  MatchesAll'
  <2> DEFINE p == req[c].order
  <2>1. req[c] # Idle /\ p \in DOMAIN orders /\ Touches(c, p)
    BY <1>4, TouchesOrder
  <2>2. PICK o \in DOMAIN orders : o = p
    BY <2>1
  <2>3. /\ o \in Orders /\ req[c].order = o /\ Touches(c, o) /\ req[c] # Idle
    BY <1>0, <2>1, <2>2
  <2> HIDE DEF p
  <2>4. SUFFICES ASSUME o \notin raced' \cup broken', Fits(req[c], o) PROVE Fits(req[c], o)'
    BY <2>3, MatchesContinued
  <2>5. ASSUME NEW i \in Items, InsertItem(c, i) PROVE Fits(req[c], o)'
    <3>1. /\ req[c].pc = "insertItem" /\ i \notin DOMAIN items /\ UNCHANGED orders
          /\ items' = [x \in DOMAIN items \cup {i} |->
                         IF x = i THEN [order |-> o, subtotal |-> req[c].subtotal] ELSE items[x]]
          /\ lowered \subseteq lowered'
          /\ req'[c] = [pc |-> "writeTotal", order |-> o, total |-> req[c].total,
                        newTotal |-> req[c].total + req[c].subtotal]
      BY <1>0, <2>3, <2>5 DEF InsertItem, Continue
    <3>2. req[c].subtotal \in Int
      BY <1>0, <3>1, RequestFields, OrdersAssumption
    <3>3. ItemTotal(o)' = ItemTotal(o) + req[c].subtotal
      BY <3>1, <3>2, ItemTotalInsert
    <3>4. Bills(o, req[c].total) /\ req[c].total = orders[o].total
      BY <2>4, <3>1 DEF Fits, HoldsTotal
    <3>5. req[c].total \in Int /\ ItemTotal(o) \in Int
      BY <1>0, <3>4, ItemTotalType
    <3>6. Bills(o, req[c].newTotal)'
      BY <3>1, <3>2, <3>3, <3>4, <3>5 DEF Bills
    <3>7. req'[c].pc = "writeTotal" /\ req'[c].total = orders'[o].total
      BY <3>1, <3>4
    <3> QED
      BY <3>6, <3>7 DEF Fits
  <2>6. ASSUME NEW i \in Items, FindItem(c, i) PROVE Fits(req[c], o)'
    <3>1. /\ req[c].pc = "findItem" /\ UNCHANGED <<orders, items, lowered>>
          /\ \/ /\ i \in ItemsOf(o)
                /\ req'[c] = [pc |-> "deleteItem", order |-> o, total |-> req[c].total,
                              item |-> i, subtotal |-> items[i].subtotal]
             \/ req'[c] = Idle
      BY <1>0, <2>3, <2>6 DEF FindItem, Continue, ItemsOf
    <3>2. req[c].total = orders[o].total /\ Bills(o, orders[o].total)
      BY <2>4, <3>1 DEF Fits, HoldsTotal
    <3>3. ItemsOf(o)' = ItemsOf(o) /\ ItemTotal(o)' = ItemTotal(o)
      BY <3>1, ItemTotalSame DEF ItemsOf
    <3> QED
      BY <1>0, <3>1, <3>2, <3>3 DEF Fits, HoldsTotal, Bills
  <2>7. ASSUME DeleteItem(c) PROVE Fits(req[c], o)'
    <3>1. /\ req[c].pc = "deleteItem" /\ UNCHANGED <<orders, lowered>>
          /\ items' = [x \in DOMAIN items \ {req[c].item} |-> items[x]]
          /\ req'[c] = [pc |-> "writeTotal", order |-> o, total |-> req[c].total,
                        newTotal |-> TotalWithout(req[c].total, req[c].subtotal)]
      BY <1>0, <2>3, <2>7 DEF DeleteItem, Continue
    <3>2. /\ req[c].total = orders[o].total /\ Bills(o, orders[o].total)
          /\ req[c].item \in ItemsOf(o) /\ items[req[c].item].subtotal = req[c].subtotal
      BY <2>4, <3>1 DEF Fits, HoldsTotal
    <3>3. /\ req[c].subtotal \in Int
          /\ ItemTotal(o)' = ItemTotal(o) - req[c].subtotal
          /\ o \notin lowered => req[c].subtotal <= ItemTotal(o)
      BY <3>1, <3>2, ItemTotalDelete
    <3>4. req[c].total \in Int /\ ItemTotal(o) \in Int
      BY <1>0, <3>2, ItemTotalType
    <3>5. ASSUME NEW t, t = TotalWithout(req[c].total, req[c].subtotal)
          PROVE  IF o \in lowered THEN t >= ItemTotal(o)' ELSE t = ItemTotal(o)'
      <4>1. /\ t \in Int /\ t >= req[c].total - req[c].subtotal
            /\ req[c].subtotal <= req[c].total => t = req[c].total - req[c].subtotal
        BY <3>3, <3>4, <3>5, TotalWithoutType
      <4> QED
        BY <3>2, <3>3, <3>4, <4>1 DEF Bills
    <3>6. req'[c].pc = "writeTotal" /\ req'[c].total = orders'[o].total
      BY <3>1, <3>2
    <3> QED
      BY <3>1, <3>5, <3>6 DEF Fits, Bills
  <2>8. ASSUME UNCHANGED <<items, lowered>>, req'[c].pc \notin {"writeTotal", "deleteItem"},
               ~HoldsTotal(req'[c]), Bills(o, orders'[o].total)
        PROVE  Fits(req[c], o)'
    <3>1. ItemTotal(o)' = ItemTotal(o)
      BY <2>8, ItemTotalSame DEF ItemsOf
    <3> QED
      BY <2>8, <3>1 DEF Fits, Bills
  <2>9. ASSUME WriteTotal(c) PROVE Fits(req[c], o)'
    <3>1. /\ req[c].pc = "writeTotal" /\ UNCHANGED <<items, lowered>>
          /\ orders' = IF req[c].newTotal = req[c].total THEN orders
                       ELSE [orders EXCEPT ![o].total = req[c].newTotal]
          /\ req'[c] = [pc |-> "refresh", order |-> o, kind |-> "OrderUpdated"]
      BY <1>0, <2>3, <2>9 DEF WriteTotal, Continue
    <3>2. req[c].total = orders[o].total /\ Bills(o, req[c].newTotal)
      BY <2>4, <3>1 DEF Fits, HoldsTotal
    <3>3. orders'[o].total = req[c].newTotal
      BY <1>0, <3>1, <3>2 DEF Row
    <3> QED
      BY <2>8, <3>1, <3>2, <3>3 DEF HoldsTotal
  <2>10. ASSUME WriteStatus(c) \/ Refresh(c) \/ Publish(c) \/ PublishUnanswered(c) \/ Fail(c)
         PROVE  Fits(req[c], o)'
    <3>1. /\ UNCHANGED <<items, lowered>> /\ orders'[o].total = orders[o].total
          /\ req[c].pc # "writeTotal"
      BY <1>0, <2>3, <2>4, <2>10 DEF WriteStatus, Refresh, Publish, PublishUnanswered, Fail, Row
    <3>2. req'[c].pc \in {"refresh", "publish", "idle"}
      <4>1. WriteStatus(c) \/ Refresh(c) => req'[c].pc \in {"refresh", "publish"}
        BY <1>0 DEF WriteStatus, Refresh, Continue
      <4>2. Publish(c) \/ Fail(c) => req'[c].pc = "idle"
        BY <1>0 DEF Publish, Fail, Continue
      <4>3. PublishUnanswered(c) => req'[c].pc = "publish"
        BY <1>0 DEF PublishUnanswered, Continue
      <4> QED
        BY <2>10, <4>1, <4>2, <4>3
    <3> QED
      BY <2>4, <2>8, <3>1, <3>2 DEF Fits, HoldsTotal
  <2> QED
    BY <1>4, <2>5, <2>6, <2>7, <2>9, <2>10
<1>5. CASE UNCHANGED vars
  <2>1. \A o : ItemTotal(o)' = ItemTotal(o) /\ ItemsOf(o)' = ItemsOf(o)
    BY <1>5, ItemTotalSame DEF vars, ItemsOf
  <2> QED
    BY <1>5, <2>1 DEF vars, MatchesAll, Matches, InWork, WorksOn, Fits, Bills
<1> QED
  BY <1>1, <1>3, <1>4, <1>5 DEF Next

-----------------------------------------------------------------------------
(* What is told of an order that ends *)

\* The request has committed the end of its order and is to tell.
Ending(q) ==
  \/ q.pc = "refresh" /\ q.kind \in EndKinds
  \/ q.pc = "publish" /\ q.event.kind \in EndKinds

Truthful(o, e) ==
  e.kind = "OrderCompleted" => e.status = "CLOSED" /\ e.total = orders[o].total

\* The end has been told by one event at most, of an order that is not open.
Billed(o) ==
  /\ \A n, m \in Ends(o) : events[n] = events[m]
  /\ Ends(o) # {} => orders[o].status # "OPEN"
  /\ \A n \in Ends(o) : Truthful(o, events[n].told)

\* A request that is to tell the end is the first, or has told it without an
\* answer; and it has the order as it is.
Tells(q, o) ==
  /\ Ending(q) => orders[o].status # "OPEN"
  /\ Ending(q) => \/ Ends(o) = {}
                  \/ /\ q.pc = "publish" /\ q.sent # 0
                     /\ \A n \in Ends(o) : events[n] = [id |-> q.sent, told |-> q.event]
  /\ q.pc = "refresh" /\ q.kind = "OrderCompleted" => orders[o].status = "CLOSED"
  /\ q.pc = "publish" => Truthful(o, q.event)

Told ==
  /\ \A n \in DOMAIN events : events[n].told.order \in DOMAIN orders
  /\ \A c \in Clients : OwnEvent(req[c])
  /\ \A o \in DOMAIN orders \ raced :
       Billed(o) /\ \A c \in Clients : WorksOn(c, o) => Tells(req[c], o)

LEMMA ToldTouched ==
  ASSUME TypeOK, Told, NEW c \in Clients, NEW p \in Orders, Touches(c, p),
         \A n \in DOMAIN events' \ DOMAIN events : events'[n].told.order = p,
         OwnEvent(req[c])',
         p \notin raced' => /\ \A d \in Clients : WorksOn(d, p)' => d = c
                            /\ Billed(p)' /\ Tells(req[c], p)'
  PROVE  Told'
<1>1. \A d \in Clients : d # c => req'[d] = req[d]
  BY DEF Touches, TypeOK
<1>2. \A n \in DOMAIN events' : events'[n].told.order \in DOMAIN orders'
  BY DEF Touches, Told
<1>3. \A d \in Clients : OwnEvent(req[d])'
  BY <1>1 DEF Told, OwnEvent
<1>4. ASSUME NEW o \in DOMAIN orders' \ raced'
      PROVE  Billed(o)' /\ \A d \in Clients : WorksOn(d, o)' => Tells(req[d], o)'
  <2>1. CASE o = p
    BY <1>4, <2>1
  <2>2. CASE o # p
    <3>1. /\ o \in DOMAIN orders \ raced /\ orders'[o] = orders[o] /\ Ends(o)' = Ends(o)
          /\ \A n \in DOMAIN events : events'[n] = events[n]
      BY <1>4, <2>2 DEF Touches
    <3>2. \A d \in Clients : WorksOn(d, o)' => WorksOn(d, o) /\ req'[d] = req[d]
      BY <1>1, <2>2 DEF Touches, WorksOn
    <3>3. Billed(o) /\ \A d \in Clients : WorksOn(d, o) => Tells(req[d], o)
      BY <3>1 DEF Told
    <3>4. \A n \in Ends(o) : n \in DOMAIN events
      BY DEF Ends
    <3>6. \A n \in Ends(o) : events'[n] = events[n]
      BY <3>1, <3>4
    <3>5. Billed(o)'
      BY <3>1, <3>3, <3>4 DEF Billed, Truthful
    <3> QED
      BY <3>1, <3>2, <3>3, <3>5, <3>6 DEF Tells, Ending, Truthful
  <2> QED
    BY <2>1, <2>2
<1> QED
  BY <1>2, <1>3, <1>4 DEF Told

LEMMA ToldStep == TypeOK /\ OpenOnly /\ Told /\ [Next]_vars => Told'
<1> SUFFICES ASSUME TypeOK, OpenOnly, Told, [Next]_vars PROVE Told'
  OBVIOUS
<1>0. /\ req \in [Clients -> Request] /\ Idle.pc = "idle"
      /\ \A c \in Clients : req[c] # Idle => req[c].order \in DOMAIN orders
      /\ \A o \in DOMAIN orders : o \in Orders /\ orders[o] \in Row
      /\ \A c \in Clients : \A q : [req EXCEPT ![c] = q][c] = q
      /\ \A c \in Clients : OwnEvent(req[c])
  BY DEF TypeOK, Idle, Told
\* A request that has not got to the end.
<1>1. ASSUME NEW q, q.pc \notin {"refresh", "publish"}
      PROVE  OwnEvent(q) /\ \A o : Tells(q, o)
  BY <1>1 DEF OwnEvent, Tells, Ending
<1>2. ASSUME UNCHANGED <<orders, events>>
      PROVE  \A o \in DOMAIN orders \ raced : Billed(o)'
  BY <1>2 DEF Told, Billed, Ends, Truthful
<1>3. ASSUME NEW c \in Clients, NEW o \in Orders, OpenOrder(c, o) PROVE Told'
  <2> DEFINE n == [pc |-> "refresh", order |-> o, kind |-> "OrderCreated"]
  <2>1. /\ o \notin DOMAIN orders /\ req'[c] = n /\ UNCHANGED <<events, raced>>
        /\ req' = [req EXCEPT ![c] = n]
    BY <1>0, <1>3 DEF OpenOrder, Continue
  <2>2. Touches(c, o)
    BY <1>0, <1>3, TouchesOrder
  <2>3. Ends(o)' = {}
    BY <2>1 DEF Ends, Told
  <2>4. \A d \in Clients : WorksOn(d, o)' => d = c
    BY <1>0, <2>1 DEF WorksOn
  <2>5. Billed(o)' /\ Tells(req[c], o)' /\ OwnEvent(req[c])'
    BY <2>1, <2>3 DEF Billed, Tells, Ending, EndKinds, OwnEvent
  <2> QED
    BY <2>1, <2>2, <2>4, <2>5, ToldTouched
<1>4. ASSUME NEW c \in Clients, NEW o \in Orders, NEW q, Begin(c, o, q),
             q.pc \notin {"refresh", "publish"}, Touches(c, o)
      PROVE  Told'
  <2>1. /\ o \in DOMAIN orders /\ req'[c] = q /\ UNCHANGED <<orders, events>>
        /\ req' = [req EXCEPT ![c] = q]
        /\ raced' = IF \E d \in Clients : WorksOn(d, o) THEN raced \cup {o} ELSE raced
    BY <1>0, <1>4 DEF Begin
  <2>2. OwnEvent(req[c])' /\ Tells(req[c], o)'
    BY <1>4, <2>1 DEF OwnEvent, Tells, Ending
  <2>3. o \notin raced' => o \notin raced /\ \A d \in Clients : WorksOn(d, o)' => d = c
    BY <1>0, <2>1 DEF WorksOn
  <2>4. o \notin raced' => Billed(o)'
    BY <1>2, <2>1, <2>3
  <2> QED
    BY <1>4, <2>1, <2>2, <2>3, <2>4, ToldTouched
<1>5. ASSUME NEW c \in Clients, NEW o \in Orders,
             \/ \E subtotal \in Subtotals : ReadToAdd(c, o, subtotal)
             \/ ReadToRemove(c, o)
             \/ \E status \in {"CLOSED", "CANCELLED"} : ReadToEnd(c, o, status)
      PROVE  Told'
  <2>1. Touches(c, o)
    BY <1>0, <1>5, TouchesOrder
  <2> QED
    BY <1>4, <1>5, <2>1 DEF ReadToAdd, ReadToRemove, ReadToEnd
<1>6. ASSUME NEW c \in Clients,
             \/ \E i \in Items : InsertItem(c, i) \/ FindItem(c, i)
             \/ DeleteItem(c) \/ WriteTotal(c) \/ WriteStatus(c)
             \/ Refresh(c) \/ Publish(c) \/ PublishUnanswered(c) \/ Fail(c)
      PROVE  Told'
  <2>1. req[c] # Idle /\ req[c].order \in DOMAIN orders /\ Touches(c, req[c].order)
    BY <1>0, <1>6, TouchesOrder
  <2>2. PICK o \in DOMAIN orders : o = req[c].order
    BY <2>1
  <2>3. o \in Orders /\ req[c].order = o /\ Touches(c, o) /\ req[c] # Idle
    BY <1>0, <2>1, <2>2
  <2>4. raced' = raced
    BY <1>6 DEF InsertItem, FindItem, DeleteItem, WriteTotal, WriteStatus, Refresh, Publish,
                PublishUnanswered, Fail
  <2>5. o \notin raced => \A d \in Clients : WorksOn(d, o)' => d = c
    BY <2>3, Sole
  <2>6. o \notin raced => Billed(o) /\ Tells(req[c], o)
    BY <2>3 DEF Told, WorksOn
  <2>7. o \notin raced /\ Changes(req[c]) => orders[o].status = "OPEN" /\ Ends(o) = {}
    BY <2>3, <2>6 DEF OpenOnly, Alone, WorksOn, Billed
  <2>8. SUFFICES ASSUME TRUE
                 PROVE  /\ \A n \in DOMAIN events' \ DOMAIN events : events'[n].told.order = o
                        /\ OwnEvent(req[c])'
                        /\ o \notin raced => Billed(o)' /\ Tells(req[c], o)'
    BY <2>3, <2>4, <2>5, ToldTouched
  <2>9. CASE \/ \E i \in Items : InsertItem(c, i) \/ FindItem(c, i)
             \/ DeleteItem(c) \/ Fail(c)
    <3>1. UNCHANGED <<orders, events>> /\ req'[c].pc \in {"writeTotal", "deleteItem", "idle"}
      <4>1. UNCHANGED <<orders, events>>
        BY <2>9 DEF InsertItem, FindItem, DeleteItem, Fail
      <4>2. \A q : Continue(c, q) => req'[c] = q
        BY <1>0 DEF Continue
      <4>3. ASSUME NEW i \in Items, FindItem(c, i) PROVE req'[c].pc \in {"deleteItem", "idle"}
        BY <1>0, <4>2, <4>3 DEF FindItem
      <4>4. ASSUME NEW i \in Items, InsertItem(c, i) PROVE req'[c].pc = "writeTotal"
        BY <4>2, <4>4 DEF InsertItem
      <4>5. DeleteItem(c) => req'[c].pc = "writeTotal"
        BY <4>2 DEF DeleteItem
      <4>6. Fail(c) => req'[c].pc = "idle"
        BY <1>0, <4>2 DEF Fail
      <4> QED
        BY <2>9, <4>1, <4>3, <4>4, <4>5, <4>6
    <3>2. OwnEvent(req[c])' /\ Tells(req[c], o)'
      BY <3>1 DEF OwnEvent, Tells, Ending
    <3> QED
      BY <1>2, <3>1, <3>2
  <2>10. CASE WriteTotal(c)
    <3>1. /\ req[c].pc = "writeTotal" /\ UNCHANGED events
          /\ orders'[o].status = orders[o].status
          /\ req'[c] = [pc |-> "refresh", order |-> o, kind |-> "OrderUpdated"]
      BY <1>0, <2>3, <2>10 DEF WriteTotal, Continue, Row
    <3>2. o \notin raced => Ends(o)' = {}
      BY <2>7, <3>1 DEF Changes, Ends
    <3> QED
      BY <3>1, <3>2 DEF OwnEvent, Billed, Tells, Ending, EndKinds
  <2>11. CASE WriteStatus(c)
    <3>1. /\ req[c].pc = "writeStatus" /\ UNCHANGED events
          /\ orders'[o].status = req[c].status
          /\ req'[c] = [pc |-> "refresh", order |-> o,
                        kind |-> IF req[c].status = "CLOSED" THEN "OrderCompleted"
                                 ELSE "OrderCancelled"]
      BY <1>0, <2>3, <2>11 DEF WriteStatus, Continue, Row
    <3>2. o \notin raced => Ends(o)' = {}
      BY <2>7, <3>1 DEF Changes, Ends
    <3>3. req[c].status # "OPEN"
      BY <1>0, <3>1, RequestFields
    <3> QED
      BY <3>1, <3>2, <3>3 DEF OwnEvent, Billed, Tells, Ending, EndKinds
  <2>12. CASE Refresh(c)
    <3>1. /\ req[c].pc = "refresh" /\ UNCHANGED <<orders, events>>
          /\ req'[c] = [pc |-> "publish", order |-> o, event |-> EventOf(o, req[c].kind),
                        sent |-> 0]
      BY <1>0, <2>3, <2>12 DEF Refresh, Continue
    <3> DEFINE e == EventOf(o, req[c].kind)
    <3>2. /\ e.order = o /\ e.kind = req[c].kind /\ e.status = orders[o].status
          /\ e.kind = "OrderCompleted" => e.total = orders[o].total
      BY DEF EventOf
    <3>3. req'[c].pc = "publish" /\ req'[c].order = o /\ req'[c].event = e
      BY <3>1
    <3> HIDE DEF e
    <3>4. OwnEvent(req[c])'
      BY <3>2, <3>3 DEF OwnEvent
    <3>5. o \notin raced => Tells(req[c], o)'
      BY <2>6, <3>1, <3>2, <3>3 DEF Tells, Ending, Truthful, Ends
    <3> QED
      BY <1>2, <3>1, <3>4, <3>5
  <2>13. CASE Publish(c) \/ PublishUnanswered(c)
    <3> DEFINE id == EventId(req[c])
               e == [id |-> id, told |-> req[c].event]
               k == Len(events) + 1
    <3>1. /\ req[c].pc = "publish" /\ UNCHANGED orders
          /\ events' = Append(events, e) /\ events \in Seq(Sent)
          /\ req'[c] = Idle \/ req'[c] = [req[c] EXCEPT !.sent = id]
      BY <1>0, <2>13 DEF Publish, PublishUnanswered, Send, Continue, TypeOK
    <3>2. /\ DOMAIN events' = DOMAIN events \cup {k} /\ events'[k] = e /\ k \notin DOMAIN events
          /\ \A n \in DOMAIN events : events'[n] = events[n]
      BY <3>1
    <3>3. e.told.order = o
      BY <1>0, <2>3, <3>1 DEF OwnEvent
    <3>4. Ends(o)' = IF Ending(req[c]) THEN Ends(o) \cup {k} ELSE Ends(o)
      BY <3>1, <3>2, <3>3 DEF Ends, Ending
    <3>5. \A n \in Ends(o) : n \in DOMAIN events
      BY DEF Ends
    <3>6. id # 0 /\ (req[c].sent # 0 => id = req[c].sent)
      BY <3>1 DEF EventId
    <3>7. e.told = req[c].event /\ e = [id |-> id, told |-> req[c].event]
      OBVIOUS
    <3> HIDE DEF e, k, id
    <3>8. ASSUME o \notin raced, Ending(req[c])
          PROVE  /\ orders[o].status # "OPEN"
                 /\ \A n \in Ends(o)' : events'[n] = e
      <4>1. \A n \in Ends(o) : events[n] = e
        BY <2>6, <3>6, <3>7, <3>8 DEF Tells
      <4>2. \A n \in Ends(o) : events'[n] = e
        BY <3>2, <3>5, <4>1
      <4> QED
        BY <2>6, <3>2, <3>4, <3>8, <4>2 DEF Tells
    <3>9. ASSUME o \notin raced PROVE Billed(o)'
      <4>1. Truthful(o, e.told)
        BY <2>6, <3>1, <3>7, <3>9 DEF Tells
      <4>2. CASE Ending(req[c])
        <5>1. orders[o].status # "OPEN" /\ \A n \in Ends(o)' : events'[n] = e
          BY <3>8, <3>9, <4>2
        <5> QED
          BY <3>1, <4>1, <5>1 DEF Billed, Truthful
      <4>3. CASE ~Ending(req[c])
        <5>1. Ends(o)' = Ends(o) /\ \A n \in Ends(o) : events'[n] = events[n]
          BY <3>2, <3>4, <3>5, <4>3
        <5>2. Billed(o) /\ UNCHANGED orders
          BY <2>6, <3>1, <3>9
        <5> HIDE DEF Ends
        <5> QED
          BY <5>1, <5>2 DEF Billed, Truthful
      <4> QED
        BY <4>2, <4>3
    <3>10. CASE req'[c] = Idle
      <4>1. OwnEvent(req[c])' /\ Tells(req[c], o)'
        BY <1>0, <3>10 DEF OwnEvent, Tells, Ending
      <4> QED
        BY <3>2, <3>3, <3>9, <4>1
    <3>11. CASE req'[c] = [req[c] EXCEPT !.sent = id]
      <4>1. /\ req'[c].pc = "publish" /\ req'[c].event = req[c].event /\ req'[c].order = o
            /\ req[c].pc = "publish"
        BY <2>3, <3>1, <3>11
      <4>2. OwnEvent(req[c])'
        BY <1>0, <2>3, <4>1 DEF OwnEvent
      <4>3. Ending(req'[c]) <=> Ending(req[c])
        BY <4>1 DEF Ending
      <4>4. req'[c].sent = id
        <5>1. req[c] \in Request /\ req[c] # Idle
          BY <2>3 DEF TypeOK
        <5>2. "sent" \in DOMAIN req[c]
          BY <3>1, <5>1 DEF Request, Idle
        <5> QED
          BY <3>11, <5>2
      <4>5. ASSUME o \notin raced PROVE Tells(req[c], o)'
        <5>1. Ending(req[c]) => /\ orders'[o].status # "OPEN"
                                /\ \A n \in Ends(o)' : events'[n] = e
          BY <3>1, <3>8, <4>5
        <5>2. Truthful(o, req[c].event)'
          BY <2>6, <3>1, <4>1, <4>5 DEF Tells, Truthful
        <5>3. e = [id |-> req'[c].sent, told |-> req'[c].event]
          BY <3>7, <4>1, <4>4
        <5> QED
          BY <3>6, <4>1, <4>3, <4>4, <5>1, <5>2, <5>3 DEF Tells, Ending, Truthful
      <4> QED
        BY <3>2, <3>3, <3>9, <4>2, <4>5
    <3> QED
      BY <3>1, <3>10, <3>11
  <2> QED
    BY <1>6, <2>9, <2>10, <2>11, <2>12, <2>13
<1>7. CASE UNCHANGED vars
  BY <1>7 DEF vars, Told, OwnEvent, Billed, Tells, Ends, Ending, Truthful, WorksOn
<1> QED
  BY <1>3, <1>5, <1>6, <1>7 DEF Next

-----------------------------------------------------------------------------
(* The bill *)

BillInv == OpenOnly /\ ItemRows /\ MatchesAll /\ Told

LEMMA BillInvariant == Spec => []BillInv
<1>1. Init => BillInv
  <2> SUFFICES ASSUME Init PROVE BillInv
    OBVIOUS
  <2>1. OpenOnly /\ MatchesAll /\ Told
    BY DEF Init, OpenOnly, KnowsItem, Idle, MatchesAll, Told, OwnEvent
  <2>2. ItemRows
    BY FS_EmptySet DEF Init, ItemRows
  <2> QED
    BY <2>1, <2>2 DEF BillInv
<1>2. TypeOK /\ BillInv /\ [Next]_vars => BillInv'
  BY OpenOnlyStep, ItemRowsStep, MatchesStep, ToldStep DEF BillInv, Told
<1> QED
  BY <1>1, <1>2, OrdersType, PTL DEF Spec

\* An order on which no two requests overlapped, and no request failed between
\* its item and its total, has for total the sum of its items whenever no request
\* is at work on it; at least that sum if an item of negative subtotal was ever
\* put on it.
THEOREM OrdersTotalMatchesItems == Spec => []TotalMatchesItems
<1>1. BillInv => TotalMatchesItems
  BY DEF BillInv, MatchesAll, Matches, TotalMatchesItems
<1> QED
  BY <1>1, BillInvariant, PTL

\* The end of an order on which no two requests overlapped is told by one event
\* at most, however often that is sent, and an OrderCompleted bills the items
\* there are, now and ever after.
THEOREM OrdersBilledOnce == Spec => []BilledOnce
<1>1. ASSUME BillInv PROVE BilledOnce
  <2> SUFFICES ASSUME NEW o \in DOMAIN orders \ raced
               PROVE  /\ \A n, m \in Ends(o) : events[n] = events[m]
                      /\ \A n \in Ends(o) : events[n].told.kind = "OrderCompleted" =>
                           /\ events[n].told.status = "CLOSED"
                           /\ o \in broken \/ Bills(o, events[n].told.total)
    BY DEF BilledOnce
  <2>1. Billed(o) /\ Alone(o)
    BY <1>1 DEF BillInv, Told, OpenOnly
  <2>2. ASSUME NEW n \in Ends(o), events[n].told.kind = "OrderCompleted", o \notin broken
        PROVE  Bills(o, events[n].told.total)
    <3>1. events[n].told.total = orders[o].total /\ orders[o].status # "OPEN"
      BY <2>1, <2>2 DEF Billed, Truthful
    <3>2. \A c \in Clients : WorksOn(c, o) => req[c].pc # "writeTotal"
      BY <2>1, <3>1 DEF Alone, Changes
    <3>3. Matches(o)
      BY <1>1, <2>2 DEF BillInv, MatchesAll
    <3>4. Bills(o, orders[o].total)
      BY <3>2, <3>3 DEF Matches, InWork, Fits
    <3> QED
      BY <3>1, <3>4
  <2> QED
    BY <2>1, <2>2 DEF Billed, Truthful
<1> QED
  BY <1>1, BillInvariant, PTL
=============================================================================
