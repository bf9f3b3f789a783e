--------------------------- MODULE ServicesProofs ---------------------------
(***************************************************************************)
(* Theorems of Payments, Records and Reviews, and of the services side by  *)
(* side, for any number of concurrent requests and of rows.                *)
(***************************************************************************)
EXTENDS PricingProofs, SequenceTheorems, TLAPS

-----------------------------------------------------------------------------
(* Payments *)

\* What the fields of a request hold, by its step.
LEMMA PaymentFields ==
  ASSUME NEW q \in Request
  PROVE  /\ q # Idle => q.payment \in Ids
         /\ q.pc = "publish" => q.kind \in Kinds /\ q.sent \in Nat
         /\ q = Idle <=> q.pc = "idle"
         /\ q.pc = "publish" =>
              q = [pc |-> "publish", payment |-> q.payment, kind |-> q.kind, sent |-> q.sent]
         /\ q.pc = "refund" => q = [pc |-> "refund", payment |-> q.payment]
BY DEF Request, Idle, Kinds

\* A request about to announce a commit.
LEMMA Announcing ==
  ASSUME NEW p \in Ids, NEW kind \in Kinds
  PROVE  [pc |-> "publish", payment |-> p, kind |-> kind, sent |-> 0] \in Request
BY DEF Request

\* What one attempt to send appends.
LEMMA Sending ==
  ASSUME TypeOK, NEW c \in Clients, req[c].pc = "publish", Send(req[c])
  PROVE  /\ req[c].payment \in Ids /\ req[c].kind \in Kinds /\ req[c].sent \in Nat
         /\ EventId(req[c]) \in Nat \ {0}
         /\ req[c].sent = 0 => EventId(req[c]) = Len(events[req[c].payment]) + 1
         /\ req[c].sent # 0 => EventId(req[c]) = req[c].sent
         /\ [id |-> EventId(req[c]), kind |-> req[c].kind] \in Event
         /\ events[req[c].payment] \in Seq(Event)
         /\ events' \in [Ids -> Seq(Event)]
         /\ events'[req[c].payment] =
              Append(events[req[c].payment], [id |-> EventId(req[c]), kind |-> req[c].kind])
         /\ \A p \in Ids : p # req[c].payment => events'[p] = events[p]
<1>1. /\ req[c] \in Request /\ req[c] # Idle
      /\ events \in [Ids -> Seq(Event)]
  BY DEF TypeOK, Idle
<1>2. req[c].payment \in Ids /\ req[c].kind \in Kinds /\ req[c].sent \in Nat
  BY <1>1, PaymentFields
<1>3. Len(events[req[c].payment]) \in Nat /\ events[req[c].payment] \in Seq(Event)
  BY <1>1, <1>2
<1>4. /\ EventId(req[c]) \in Nat \ {0}
      /\ req[c].sent = 0 => EventId(req[c]) = Len(events[req[c].payment]) + 1
      /\ req[c].sent # 0 => EventId(req[c]) = req[c].sent
  BY <1>2, <1>3 DEF EventId
<1>5. [id |-> EventId(req[c]), kind |-> req[c].kind] \in Event
  BY <1>2, <1>4 DEF Event
<1> QED
  BY <1>1, <1>2, <1>3, <1>4, <1>5 DEF Send

\* What the request of an unanswered attempt goes on with.
LEMMA Resending ==
  ASSUME TypeOK, NEW c \in Clients, PublishUnanswered(c)
  PROVE  /\ req[c].pc = "publish" /\ Send(req[c]) /\ req[c].sent = 0
         /\ req' = [req EXCEPT ![c] =
              [pc |-> "publish", payment |-> req[c].payment, kind |-> req[c].kind,
               sent |-> Len(events[req[c].payment]) + 1]]
         /\ [pc |-> "publish", payment |-> req[c].payment, kind |-> req[c].kind,
             sent |-> Len(events[req[c].payment]) + 1] \in Request
<1>1. req[c].pc = "publish" /\ Send(req[c]) /\ req[c].sent = 0 /\ req[c] \in Request
  BY DEF PublishUnanswered, TypeOK
<1>2. req[c] = [pc |-> "publish", payment |-> req[c].payment, kind |-> req[c].kind,
                sent |-> req[c].sent]
  BY <1>1, PaymentFields
<1>3. EventId(req[c]) = Len(events[req[c].payment]) + 1
  BY <1>1, Sending
<1>4. [req[c] EXCEPT !.sent = EventId(req[c])]
        = [pc |-> "publish", payment |-> req[c].payment, kind |-> req[c].kind,
           sent |-> Len(events[req[c].payment]) + 1]
  BY <1>2, <1>3
<1>5. Len(events[req[c].payment]) + 1 \in Nat
  BY <1>1, <1>3, Sending
<1> QED
  BY <1>1, <1>4, <1>5, Sending DEF PublishUnanswered, Continue, Request

LEMMA PaymentsTypeStep == TypeOK /\ [Next]_vars => TypeOK'
<1> SUFFICES ASSUME TypeOK, [Next]_vars PROVE TypeOK'
  OBVIOUS
<1>0. /\ \A c \in Clients : req[c] \in Request
      /\ Idle \in Request
      /\ "PaymentCompleted" \in Kinds /\ "RefundIssued" \in Kinds
  BY DEF TypeOK, Request, Kinds
<1>1. ASSUME NEW c \in Clients, NEW p \in Ids, CreatePayment(c, p) PROVE TypeOK'
  <2>1. [pc |-> "publish", payment |-> p, kind |-> "PaymentCompleted", sent |-> 0] \in Request
    BY <1>0, Announcing
  <2> QED
    BY <1>1, <2>1 DEF CreatePayment, Announce, Continue, TypeOK
<1>2. ASSUME NEW c \in Clients, NEW p \in Ids, ReadToRefund(c, p) PROVE TypeOK'
  <2>1. [pc |-> "refund", payment |-> p] \in Request
    BY DEF Request
  <2> QED
    BY <1>2, <2>1 DEF ReadToRefund, Continue, TypeOK
<1>3. ASSUME NEW c \in Clients, WriteRefund(c) PROVE TypeOK'
  <2>1. req[c] # Idle /\ req[c].payment \in Ids /\ status[req[c].payment] # "none"
    BY <1>0, <1>3, PaymentFields DEF WriteRefund, TypeOK, Idle
  <2>2. [pc |-> "publish", payment |-> req[c].payment, kind |-> "RefundIssued", sent |-> 0]
          \in Request
    BY <1>0, <2>1, Announcing
  <2> QED
    BY <1>3, <2>1, <2>2 DEF WriteRefund, Announce, Continue, TypeOK
<1>4. ASSUME NEW c \in Clients, PublishUnanswered(c) PROVE TypeOK'
  <2>1. events' \in [Ids -> Seq(Event)]
    BY <1>4, Sending DEF PublishUnanswered
  <2>2. status[req[c].payment] # "none"
    BY <1>0, <1>4, PaymentFields DEF PublishUnanswered, TypeOK, Idle
  <2>3. PICK q \in Request : q.payment = req[c].payment /\ req' = [req EXCEPT ![c] = q]
    BY <1>4, Resending
  <2>4. req' \in [Clients -> Request]
    BY <2>3 DEF TypeOK
  <2>5. \A d \in Clients : req'[d] # Idle => status[req'[d].payment] # "none"
    BY <2>2, <2>3 DEF TypeOK
  <2> QED
    BY <1>4, <2>1, <2>4, <2>5 DEF PublishUnanswered, TypeOK
<1>5. ASSUME NEW c \in Clients, Publish(c) PROVE TypeOK'
  <2>1. events' \in [Ids -> Seq(Event)]
    BY <1>5, Sending DEF Publish
  <2> QED
    BY <1>0, <1>5, <2>1 DEF Publish, Continue, TypeOK
<1>6. ASSUME NEW c \in Clients, Fail(c) PROVE TypeOK'
  <2>1. Unheard(req[c]) \subseteq Ids
    BY <1>0, <1>6, PaymentFields DEF Fail, Unheard
  <2> QED
    BY <1>0, <1>6, <2>1 DEF Fail, Continue, TypeOK
<1>7. CASE UNCHANGED vars
  BY <1>7 DEF vars, TypeOK
<1> QED
  BY <1>1, <1>2, <1>3, <1>4, <1>5, <1>6, <1>7 DEF Next

LEMMA PaymentsTypeInit == Init => TypeOK
BY DEF Init, TypeOK, Request, Kinds

\* Every row, request and event of the payments is of its kind: the type
\* invariant of services/payment.py's table, requests and topic.
THEOREM PaymentsType == Spec => []TypeOK
<1>1. TypeOK /\ [Next]_vars => TypeOK'
  BY PaymentsTypeStep
<1> QED
  BY PaymentsTypeInit, <1>1, PTL DEF Spec
-----------------------------------------------------------------------------
(* The event a request sends again *)

\* What a request has sent already is on the topic, under the id it will have
\* again.
OnTopic(c) ==
  req[c].pc = "publish" /\ req[c].sent # 0 =>
    /\ req[c].sent \in DOMAIN events[req[c].payment]
    /\ events[req[c].payment][req[c].sent] = [id |-> req[c].sent, kind |-> req[c].kind]

AllOnTopic == \A c \in Clients : OnTopic(c)

\* An attempt leaves what the topic holds where it is.
LEMMA TopicGrows ==
  ASSUME TypeOK, NEW c \in Clients, req[c].pc = "publish", Send(req[c]), NEW p \in Ids
  PROVE  \A n \in DOMAIN events[p] : n \in DOMAIN events'[p] /\ events'[p][n] = events[p][n]
<1>1. CASE p = req[c].payment
  <2>1. PICK e \in Event : events'[p] = Append(events[p], e)
    BY <1>1, Sending
  <2>2. events[p] \in Seq(Event)
    BY <1>1, Sending
  <2> QED
    BY <2>1, <2>2
<1>2. CASE p # req[c].payment
  BY <1>2, Sending
<1> QED
  BY <1>1, <1>2

LEMMA OnTopicStep == TypeOK /\ AllOnTopic /\ [Next]_vars => AllOnTopic'
<1> SUFFICES ASSUME TypeOK, AllOnTopic, [Next]_vars, NEW d \in Clients PROVE OnTopic(d)'
  BY DEF AllOnTopic
<1>0. /\ req \in [Clients -> Request] /\ req[d] \in Request
      /\ OnTopic(d)
      /\ req[d].pc = "publish" => req[d].payment \in Ids /\ req[d].sent \in Nat
  <2>1. req \in [Clients -> Request] /\ req[d] \in Request /\ OnTopic(d)
    BY DEF TypeOK, AllOnTopic
  <2> QED
    BY <2>1, PaymentFields DEF Idle
<1>1. ASSUME NEW c \in Clients, NEW q, Continue(c, q), events' = events,
             q.pc = "publish" => q.sent = 0
      PROVE  OnTopic(d)'
  <2>1. req' = [req EXCEPT ![c] = q]
    BY <1>1 DEF Continue
  <2> QED
    BY <1>0, <1>1, <2>1 DEF OnTopic
<1>2. ASSUME NEW c \in Clients, NEW p \in Ids, CreatePayment(c, p) PROVE OnTopic(d)'
  BY <1>1, <1>2 DEF CreatePayment, Announce
<1>3. ASSUME NEW c \in Clients, NEW p \in Ids, ReadToRefund(c, p) PROVE OnTopic(d)'
  BY <1>1, <1>3 DEF ReadToRefund
<1>4. ASSUME NEW c \in Clients, WriteRefund(c) PROVE OnTopic(d)'
  BY <1>1, <1>4 DEF WriteRefund, Announce
<1>5. ASSUME NEW c \in Clients, Fail(c) PROVE OnTopic(d)'
  BY <1>1, <1>5 DEF Fail, Idle
<1>6. ASSUME NEW c \in Clients, PublishUnanswered(c) PROVE OnTopic(d)'
  <2>1. /\ req[c].pc = "publish" /\ Send(req[c])
        /\ req' = [req EXCEPT ![c] =
             [pc |-> "publish", payment |-> req[c].payment, kind |-> req[c].kind,
              sent |-> Len(events[req[c].payment]) + 1]]
    BY <1>6, Resending
  <2>2. CASE d = c
    <3>1. /\ req'[d].payment = req[c].payment /\ req'[d].kind = req[c].kind
          /\ req'[d].sent = Len(events[req[c].payment]) + 1
      BY <1>0, <2>1, <2>2
    <3>2. /\ events[req[c].payment] \in Seq(Event)
          /\ events'[req[c].payment] = Append(events[req[c].payment],
               [id |-> Len(events[req[c].payment]) + 1, kind |-> req[c].kind])
          /\ [id |-> Len(events[req[c].payment]) + 1, kind |-> req[c].kind] \in Event
      BY <1>6, <2>1, Resending, Sending
    <3>3. /\ Len(events[req[c].payment]) + 1 \in DOMAIN events'[req[c].payment]
          /\ events'[req[c].payment][Len(events[req[c].payment]) + 1]
               = [id |-> Len(events[req[c].payment]) + 1, kind |-> req[c].kind]
      BY <3>2
    <3> QED
      BY <3>1, <3>3 DEF OnTopic
  <2>3. CASE d # c
    <3>1. req'[d] = req[d]
      BY <1>0, <2>1, <2>3
    <3> QED
      BY <1>0, <2>1, <3>1, TopicGrows DEF OnTopic
  <2> QED
    BY <2>2, <2>3
<1>7. ASSUME NEW c \in Clients, Publish(c) PROVE OnTopic(d)'
  <2>1. /\ req[c].pc = "publish" /\ Send(req[c])
        /\ req' = [req EXCEPT ![c] = Idle]
    BY <1>7 DEF Publish, Continue
  <2>2. CASE d = c
    BY <1>0, <2>1, <2>2 DEF OnTopic, Idle
  <2>3. CASE d # c
    <3>1. req'[d] = req[d]
      BY <1>0, <2>1, <2>3
    <3> QED
      BY <1>0, <2>1, <3>1, TopicGrows DEF OnTopic
  <2> QED
    BY <2>2, <2>3
<1>8. CASE UNCHANGED vars
  BY <1>0, <1>8 DEF vars, OnTopic
<1> QED
  BY <1>2, <1>3, <1>4, <1>5, <1>6, <1>7, <1>8 DEF Next

LEMMA OnTopicInit == Init => AllOnTopic
BY DEF Init, AllOnTopic, OnTopic, Idle
-----------------------------------------------------------------------------
(* The table and the topic *)

\* A step that sends nothing leaves what is told, but for what its request stops
\* or starts to announce.
LEMMA ToldMore ==
  ASSUME TypeOK, NEW c \in Clients, NEW q \in Request, Continue(c, q), events' = events,
         req[c].pc # "publish", NEW p \in Ids, NEW kind \in Kinds
  PROVE  Told(p, kind)' <=>
           Told(p, kind) \/ (q.pc = "publish" /\ q.payment = p /\ q.kind = kind)
BY DEF TypeOK, Continue, Told, Announces

\* An attempt to send tells of nothing but what its request announces.
LEMMA ToldStill ==
  ASSUME TypeOK, NEW c \in Clients, req[c].pc = "publish", Send(req[c]),
         NEW q \in Request, req' = [req EXCEPT ![c] = q],
         q.pc = "publish" => q.payment = req[c].payment /\ q.kind = req[c].kind,
         NEW p \in Ids, NEW kind \in Kinds
  PROVE  Told(p, kind)' <=> Told(p, kind)
<1>1. /\ req \in [Clients -> Request] /\ req'[c] = q
      /\ \A d \in Clients : d # c => req'[d] = req[d]
  BY DEF TypeOK
<1>2. Announces(c, p, kind)' => Announces(c, p, kind)
  BY <1>1 DEF Announces
<1>3. \A d \in Clients : d # c => (Announces(d, p, kind)' <=> Announces(d, p, kind))
  BY <1>1 DEF Announces
<1>4. CASE p = req[c].payment
  <2>1. PICK e \in Event : e.kind = req[c].kind /\ events'[p] = Append(events[p], e)
    BY <1>4, Sending
  <2>2. events[p] \in Seq(Event)
    BY <1>4, Sending
  <2>3. (\E n \in DOMAIN events'[p] : events'[p][n].kind = kind) <=>
          (\E n \in DOMAIN events[p] : events[p][n].kind = kind) \/ req[c].kind = kind
    BY <2>1, <2>2
  <2>4. Announces(c, p, kind) <=> req[c].kind = kind
    BY <1>4 DEF Announces
  <2> QED
    BY <1>2, <1>3, <2>3, <2>4 DEF Told
<1>5. CASE p # req[c].payment
  <2>1. events'[p] = events[p]
    BY <1>5, Sending
  <2>2. ~Announces(c, p, kind)
    BY <1>5 DEF Announces
  <2> QED
    BY <1>2, <1>3, <2>1, <2>2 DEF Told
<1> QED
  BY <1>4, <1>5

\* A failure takes nothing back but what nobody has heard of.
LEMMA ToldByOthers ==
  ASSUME TypeOK, AllOnTopic, NEW c \in Clients, Fail(c), NEW p \in Ids, NEW kind \in Kinds
  PROVE  /\ Told(p, kind)' => Told(p, kind)
         /\ Told(p, kind) => Told(p, kind)' \/ p \in broken'
<1>1. /\ req \in [Clients -> Request] /\ events' = events
      /\ req'[c] = Idle /\ \A d \in Clients : d # c => req'[d] = req[d]
  BY DEF TypeOK, Fail, Continue
<1>2. /\ ~Announces(c, p, kind)'
      /\ \A d \in Clients : d # c => (Announces(d, p, kind)' <=> Announces(d, p, kind))
  BY <1>1 DEF Announces, Idle
<1>3. Told(p, kind)' => Told(p, kind)
  BY <1>1, <1>2 DEF Told
<1>4. ASSUME Announces(c, p, kind) PROVE Told(p, kind)' \/ p \in broken'
  <2>1. CASE req[c].sent = 0
    BY <1>4, <2>1 DEF Announces, Fail, Unheard
  <2>2. CASE req[c].sent # 0
    <3>0. req[c].pc = "publish" /\ req[c].payment = p /\ req[c].kind = kind
      BY <1>4 DEF Announces
    <3>1. /\ req[c].sent \in DOMAIN events[p]
          /\ events[p][req[c].sent].kind = kind
      <4>1. OnTopic(c)
        BY DEF AllOnTopic
      <4>2. /\ req[c].sent \in DOMAIN events[p]
            /\ events[p][req[c].sent] = [id |-> req[c].sent, kind |-> kind]
        BY <2>2, <3>0, <4>1 DEF OnTopic
      <4> QED
        BY <4>2
    <3>2. \E n \in DOMAIN events[p] : events[p][n].kind = kind
      BY <3>1
    <3>3. events' = events
      BY <1>1
    <3> QED
      BY <3>2, <3>3 DEF Told
  <2> QED
    BY <2>1, <2>2
<1>5. Told(p, kind) => Told(p, kind)' \/ p \in broken'
  BY <1>1, <1>2, <1>4 DEF Told
<1> QED
  BY <1>3, <1>5

LEMMA AnnouncedStep ==
  TypeOK /\ AllOnTopic /\ AnnouncedAsCommitted /\ [Next]_vars => AnnouncedAsCommitted'
<1> SUFFICES ASSUME TypeOK, AllOnTopic, AnnouncedAsCommitted, [Next]_vars,
                    NEW p \in Ids
             PROVE  Agree(p)'
  BY DEF AnnouncedAsCommitted
<1>0. /\ "PaymentCompleted" \in Kinds /\ "RefundIssued" \in Kinds
      /\ "PaymentCompleted" # "RefundIssued"
      /\ status \in [Ids -> {"none", "COMPLETED", "REFUNDED"}]
      /\ \A c \in Clients : req[c] \in Request
      /\ Idle \in Request /\ Idle.pc = "idle"
  BY DEF Kinds, TypeOK, Request, Idle
<1>a. Agree(p)
  BY DEF AnnouncedAsCommitted
<1>1. ASSUME NEW c \in Clients, NEW x \in Ids, CreatePayment(c, x)
      PROVE  Agree(p)'
  <2> DEFINE q == [pc |-> "publish", payment |-> x, kind |-> "PaymentCompleted", sent |-> 0]
  <2>1. /\ q \in Request /\ Continue(c, q) /\ events' = events /\ broken' = broken
        /\ req[c].pc # "publish"
    BY <1>0, <1>1, Announcing DEF CreatePayment, Announce, Idle
  <2>2. /\ Told(p, "PaymentCompleted")' <=> Told(p, "PaymentCompleted") \/ p = x
        /\ Told(p, "RefundIssued")' <=> Told(p, "RefundIssued")
    BY <1>0, <2>1, ToldMore
  <2> QED
    BY <1>0, <1>a, <1>1, <2>1, <2>2 DEF CreatePayment, Agree
<1>2. ASSUME NEW c \in Clients, NEW x \in Ids, ReadToRefund(c, x)
      PROVE  Agree(p)'
  <2> DEFINE q == [pc |-> "refund", payment |-> x]
  <2>1. /\ q \in Request /\ Continue(c, q) /\ events' = events /\ broken' = broken
        /\ req[c].pc # "publish" /\ status' = status
    BY <1>0, <1>2 DEF ReadToRefund, Request, Idle
  <2>2. /\ Told(p, "PaymentCompleted")' <=> Told(p, "PaymentCompleted")
        /\ Told(p, "RefundIssued")' <=> Told(p, "RefundIssued")
    BY <1>0, <2>1, ToldMore
  <2> QED
    BY <1>a, <2>1, <2>2 DEF Agree
<1>3. ASSUME NEW c \in Clients, WriteRefund(c)
      PROVE  Agree(p)'
  <2> DEFINE x == req[c].payment
             q == [pc |-> "publish", payment |-> x, kind |-> "RefundIssued", sent |-> 0]
  <2>0. req[c] # Idle /\ x \in Ids /\ status[x] # "none"
    BY <1>0, <1>3, PaymentFields DEF WriteRefund, TypeOK
  <2>1. /\ q \in Request /\ Continue(c, q) /\ events' = events /\ broken' = broken
        /\ req[c].pc # "publish"
    BY <1>0, <1>3, <2>0, Announcing DEF WriteRefund, Announce
  <2>2. /\ Told(p, "PaymentCompleted")' <=> Told(p, "PaymentCompleted")
        /\ Told(p, "RefundIssued")' <=> Told(p, "RefundIssued") \/ p = x
    BY <1>0, <2>1, ToldMore
  <2>3. status' = [status EXCEPT ![x] = "REFUNDED"]
    BY <1>3 DEF WriteRefund
  <2> HIDE DEF x
  <2> QED
    BY <1>0, <1>a, <2>0, <2>1, <2>2, <2>3 DEF Agree
<1>4. ASSUME NEW c \in Clients, Publish(c)
      PROVE  Agree(p)'
  <2>1. /\ status' = status /\ broken' = broken
        /\ req[c].pc = "publish" /\ Send(req[c]) /\ req' = [req EXCEPT ![c] = Idle]
    BY <1>4 DEF Publish, Continue
  <2>2. \A kind \in Kinds : Told(p, kind)' <=> Told(p, kind)
    BY <1>0, <2>1, ToldStill
  <2> QED
    BY <1>0, <1>a, <2>1, <2>2 DEF Agree
<1>5. ASSUME NEW c \in Clients, PublishUnanswered(c)
      PROVE  Agree(p)'
  <2>1. status' = status /\ broken' = broken
    BY <1>5 DEF PublishUnanswered
  <2>2. PICK q \in Request :
          /\ req' = [req EXCEPT ![c] = q]
          /\ q.payment = req[c].payment /\ q.kind = req[c].kind
    BY <1>5, Resending
  <2>3. \A kind \in Kinds : Told(p, kind)' <=> Told(p, kind)
    BY <1>5, <2>2, Resending, ToldStill
  <2> QED
    BY <1>0, <1>a, <2>1, <2>3 DEF Agree
<1>6. ASSUME NEW c \in Clients, Fail(c)
      PROVE  Agree(p)'
  <2>1. status' = status /\ broken \subseteq broken'
    BY <1>6 DEF Fail
  <2> QED
    BY <1>0, <1>a, <1>6, <2>1, ToldByOthers DEF Agree
<1>7. CASE UNCHANGED vars
  BY <1>a, <1>7 DEF vars, Told, Announces, Agree
<1> QED
  BY <1>1, <1>2, <1>3, <1>4, <1>5, <1>6, <1>7 DEF Next

LEMMA AnnouncedInit == Init => AnnouncedAsCommitted
BY DEF Init, AnnouncedAsCommitted, Agree, Told, Announces, Idle

\* However requests overlap and fail, payment.events and the table agree: what
\* is announced was committed, and what was committed is announced, about to be,
\* or was broken off between the commit and the publish.
THEOREM PaymentsAnnouncedAsCommitted == Spec => []AnnouncedAsCommitted
<1>1. TypeOK /\ AllOnTopic /\ AnnouncedAsCommitted /\ [Next]_vars
        => TypeOK' /\ AllOnTopic' /\ AnnouncedAsCommitted'
  BY PaymentsTypeStep, OnTopicStep, AnnouncedStep
<1> QED
  BY PaymentsTypeInit, OnTopicInit, AnnouncedInit, <1>1, PTL DEF Spec
-----------------------------------------------------------------------------
(* Refunds of a payment no two requests worked on *)

Sole(p) == \A c, d \in Clients : WorksOn(c, p) /\ WorksOn(d, p) => c = d

\* Two events of a payment, in the order of the topic.
Succeeds(e, f) == e = f \/ (e.kind = "PaymentCompleted" /\ f.kind = "RefundIssued")

AllOfKind(p, kind) == \A n \in DOMAIN events[p] : events[p][n].kind = kind

\* What the topic holds of such a payment, by what its request is about to do.
InOrder(p) ==
  /\ Sole(p)
  /\ \A n, m \in DOMAIN events[p] : n < m => Succeeds(events[p][n], events[p][m])
  /\ \A c \in Clients :
       /\ Announces(c, p, "PaymentCompleted") => AllOfKind(p, "PaymentCompleted")
       /\ Announces(c, p, "PaymentCompleted") /\ req[c].sent = 0 => events[p] = <<>>
       /\ Announces(c, p, "RefundIssued") /\ req[c].sent = 0
            => AllOfKind(p, "PaymentCompleted")
       /\ req[c].pc = "refund" /\ req[c].payment = p => status[p] = "COMPLETED"

UnracedInOrder == \A p \in Ids \ raced : InOrder(p)

\* What events a payment can have, by its status.
LEMMA EventsByStatus ==
  ASSUME TypeOK, AnnouncedAsCommitted, NEW p \in Ids
  PROVE  /\ status[p] = "none" => events[p] = <<>>
         /\ status[p] = "COMPLETED" => AllOfKind(p, "PaymentCompleted")
<1>1. Agree(p)
  BY DEF AnnouncedAsCommitted
<1>2. events[p] \in Seq(Event) /\ \A n \in DOMAIN events[p] : events[p][n].kind \in Kinds
  <2>1. events[p] \in Seq(Event)
    BY DEF TypeOK
  <2>2. \A n \in DOMAIN events[p] : events[p][n] \in Event
    BY <2>1
  <2> QED
    BY <2>1, <2>2 DEF Event
<1>3. ASSUME status[p] = "none" PROVE events[p] = <<>>
  <2>1. ~Told(p, "PaymentCompleted") /\ ~Told(p, "RefundIssued")
    BY <1>1, <1>3 DEF Agree
  <2>2. DOMAIN events[p] = {}
    BY <1>2, <2>1 DEF Told, Kinds
  <2>3. Len(events[p]) = 0
    <3>1. Len(events[p]) \in Nat /\ DOMAIN events[p] = 1..Len(events[p])
      BY <1>2
    <3>2. 1 \notin 1..Len(events[p])
      BY <2>2, <3>1
    <3> QED
      BY <3>1, <3>2
  <2> QED
    BY <1>2, <2>3
<1>4. ASSUME status[p] = "COMPLETED" PROVE AllOfKind(p, "PaymentCompleted")
  <2>1. ~Told(p, "RefundIssued")
    BY <1>1, <1>4 DEF Agree
  <2> QED
    BY <1>2, <2>1 DEF Told, Kinds, AllOfKind
<1> QED
  BY <1>3, <1>4

\* An event sent again follows whatever its payment's topic holds, as it did.
LEMMA CopyFollows ==
  ASSUME NEW s \in Seq(Event), NEW e \in Event,
         \A n, m \in DOMAIN s : n < m => Succeeds(s[n], s[m]),
         \A n \in DOMAIN s : Succeeds(s[n], e)
  PROVE  \A n, m \in DOMAIN Append(s, e) :
           n < m => Succeeds(Append(s, e)[n], Append(s, e)[m])
<1>1. /\ DOMAIN Append(s, e) = 1..(Len(s) + 1) /\ DOMAIN s = 1..Len(s) /\ Len(s) \in Nat
      /\ \A n \in 1..Len(s) : Append(s, e)[n] = s[n]
      /\ Append(s, e)[Len(s) + 1] = e
  OBVIOUS
<1> QED
  BY <1>1

\* Whatever a request of an unraced payment sends follows what has been sent.
LEMMA SentFollows ==
  ASSUME TypeOK, AllOnTopic, NEW c \in Clients, req[c].pc = "publish",
         NEW p \in Ids, req[c].payment = p, InOrder(p), Send(req[c])
  PROVE  /\ \A n \in DOMAIN events[p] :
              Succeeds(events[p][n], [id |-> EventId(req[c]), kind |-> req[c].kind])
         /\ req[c].kind = "PaymentCompleted" => AllOfKind(p, "PaymentCompleted")
<1>1. req[c].kind \in Kinds /\ req[c].sent \in Nat
      /\ (req[c].sent # 0 => EventId(req[c]) = req[c].sent)
  BY Sending
<1> DEFINE e == [id |-> EventId(req[c]), kind |-> req[c].kind]
<1>2. ASSUME req[c].kind = "PaymentCompleted", NEW n \in DOMAIN events[p]
      PROVE  AllOfKind(p, "PaymentCompleted") /\ Succeeds(events[p][n], e)
  <2>1. Announces(c, p, "PaymentCompleted")
    BY <1>2 DEF Announces
  <2>2. AllOfKind(p, "PaymentCompleted") /\ req[c].sent # 0
    BY <1>2, <2>1 DEF InOrder
  <2>3. req[c].sent \in DOMAIN events[p] /\ events[p][req[c].sent] = e
    BY <1>1, <2>2 DEF AllOnTopic, OnTopic
  <2>4. events[p] \in Seq(Event)
    BY DEF TypeOK
  <2>5. n < req[c].sent \/ n = req[c].sent \/ req[c].sent < n
    BY <1>1, <2>4
  <2>6. Succeeds(events[p][n], e) \/ Succeeds(e, events[p][n])
    BY <2>3, <2>5 DEF InOrder, Succeeds
  <2>7. e.kind = "PaymentCompleted" /\ events[p][n].kind = "PaymentCompleted"
    BY <1>2, <2>2 DEF AllOfKind
  <2> QED
    BY <2>2, <2>6, <2>7 DEF Succeeds
<1>3. ASSUME req[c].kind = "RefundIssued", NEW n \in DOMAIN events[p]
      PROVE  Succeeds(events[p][n], e)
  <2>1. Announces(c, p, "RefundIssued") /\ e.kind = "RefundIssued"
    BY <1>3 DEF Announces
  <2>2. CASE req[c].sent = 0
    BY <2>1, <2>2 DEF InOrder, AllOfKind, Succeeds
  <2>3. CASE req[c].sent # 0
    <3>1. req[c].sent \in DOMAIN events[p] /\ events[p][req[c].sent] = e
      BY <1>1, <2>3 DEF AllOnTopic, OnTopic
    <3>2. events[p] \in Seq(Event)
      BY DEF TypeOK
    <3>3. n < req[c].sent \/ n = req[c].sent \/ req[c].sent < n
      BY <1>1, <3>2
    <3>4. Succeeds(events[p][n], e) \/ Succeeds(e, events[p][n])
      BY <3>1, <3>3 DEF InOrder, Succeeds
    <3> QED
      BY <2>1, <3>4 DEF Succeeds
  <2> QED
    BY <2>2, <2>3
<1>4. req[c].kind = "PaymentCompleted" => AllOfKind(p, "PaymentCompleted")
  BY DEF InOrder, Announces
<1> QED
  BY <1>1, <1>2, <1>3, <1>4 DEF Kinds

LEMMA UnracedStep ==
  TypeOK /\ AllOnTopic /\ AnnouncedAsCommitted /\ UnracedInOrder /\ [Next]_vars
    => UnracedInOrder'
<1> SUFFICES ASSUME TypeOK, AllOnTopic, AnnouncedAsCommitted, UnracedInOrder, [Next]_vars,
                    NEW p \in Ids, p \notin raced'
             PROVE  InOrder(p)'
  BY DEF UnracedInOrder
<1>0. /\ status \in [Ids -> {"none", "COMPLETED", "REFUNDED"}]
      /\ req \in [Clients -> Request]
      /\ \A c \in Clients : req[c] \in Request
      /\ events \in [Ids -> Seq(Event)]
      /\ \A c \in Clients : WorksOn(c, p) => status[p] # "none"
  BY DEF TypeOK, WorksOn
<1>b. /\ \A d \in Clients : (Announces(d, p, "PaymentCompleted") => WorksOn(d, p))
      /\ \A d \in Clients : (Announces(d, p, "RefundIssued") => WorksOn(d, p))
      /\ \A d \in Clients : (req[d].pc = "refund" /\ req[d].payment = p => WorksOn(d, p))
  BY DEF Announces, WorksOn, Idle
<1>1. ASSUME NEW c \in Clients, NEW x \in Ids, CreatePayment(c, x) PROVE InOrder(p)'
  <2>1. p \notin raced /\ InOrder(p)
    BY <1>1 DEF CreatePayment, UnracedInOrder
  <2>2. /\ req' = [req EXCEPT ![c] = [pc |-> "publish", payment |-> x,
                                      kind |-> "PaymentCompleted", sent |-> 0]]
        /\ req[c] = Idle /\ events' = events
        /\ status' = [status EXCEPT ![x] = "COMPLETED"] /\ status[x] = "none"
    BY <1>1 DEF CreatePayment, Announce, Continue
  <2>3. \A d \in Clients : d # c => req'[d] = req[d]
    BY <1>0, <2>2
  <2>4. req'[c] = [pc |-> "publish", payment |-> x, kind |-> "PaymentCompleted", sent |-> 0]
    BY <1>0, <2>2
  <2>5. CASE p # x
    <3>1. ~WorksOn(c, p)' /\ status'[p] = status[p]
      BY <1>0, <2>2, <2>4, <2>5 DEF WorksOn
    <3> QED
      BY <1>0, <2>1, <2>2, <2>3, <2>4, <2>5, <3>1
      DEF InOrder, AllOfKind, Sole, WorksOn, Announces, Idle
  <2>6. CASE p = x
    <3>1. events[p] = <<>>
      BY <2>2, <2>6, EventsByStatus
    <3>2. \A d \in Clients : ~WorksOn(d, p)
      BY <1>0, <2>2, <2>6
    <3>3. \A d \in Clients : WorksOn(d, p)' => d = c
      BY <2>3, <3>2 DEF WorksOn
    <3>4. \A d \in Clients : /\ ~Announces(d, p, "RefundIssued")'
                             /\ ~(req'[d].pc = "refund" /\ req'[d].payment = p)
      BY <2>3, <2>4, <3>2 DEF WorksOn, Announces, Idle
    <3> QED
      BY <2>2, <3>1, <3>3, <3>4 DEF InOrder, AllOfKind, Sole
  <2> QED
    BY <2>5, <2>6
<1>2. ASSUME NEW c \in Clients, NEW x \in Ids, ReadToRefund(c, x) PROVE InOrder(p)'
  <2>1. p \notin raced /\ InOrder(p)
    BY <1>2 DEF ReadToRefund, UnracedInOrder
  <2>2. /\ req' = [req EXCEPT ![c] = [pc |-> "refund", payment |-> x]]
        /\ req[c] = Idle /\ events' = events
        /\ status' = status /\ status[x] = "COMPLETED"
    BY <1>2 DEF ReadToRefund, Continue
  <2>3. \A d \in Clients : d # c => req'[d] = req[d]
    BY <1>0, <2>2
  <2>4. req'[c] = [pc |-> "refund", payment |-> x]
    BY <1>0, <2>2
  <2>5. p = x => \A d \in Clients : ~WorksOn(d, p)
    BY <1>2 DEF ReadToRefund
  <2>6. Sole(p)'
    BY <2>1, <2>3, <2>4, <2>5 DEF InOrder, Sole, WorksOn
  <2> QED
    BY <2>1, <2>2, <2>3, <2>4, <2>6 DEF InOrder, AllOfKind, Announces
<1>3. ASSUME NEW c \in Clients, WriteRefund(c) PROVE InOrder(p)'
  <2>0. PICK x : x = req[c].payment
    OBVIOUS
  <2>1. p \notin raced /\ InOrder(p)
    BY <1>3 DEF WriteRefund, UnracedInOrder
  <2>2. /\ req' = [req EXCEPT ![c] = [pc |-> "publish", payment |-> x,
                                      kind |-> "RefundIssued", sent |-> 0]]
        /\ events' = events /\ status' = [status EXCEPT ![x] = "REFUNDED"]
        /\ req[c] = [pc |-> "refund", payment |-> x] /\ x \in Ids
    BY <1>0, <1>3, <2>0, PaymentFields DEF WriteRefund, Announce, Continue, Idle
  <2>3. \A d \in Clients : d # c => req'[d] = req[d]
    BY <1>0, <2>2
  <2>4. req'[c] = [pc |-> "publish", payment |-> x, kind |-> "RefundIssued", sent |-> 0]
    BY <1>0, <2>2
  <2>5. /\ WorksOn(c, x) /\ WorksOn(c, x)' /\ (WorksOn(c, p)' => p = x)
        /\ (WorksOn(c, p) => p = x)
    BY <2>2, <2>4 DEF WorksOn, Idle
  <2>6. \A d \in Clients : WorksOn(d, p)' <=> WorksOn(d, p)
    BY <2>3, <2>5 DEF WorksOn
  <2>7. CASE p # x
    <3>1. status'[p] = status[p]
      BY <1>0, <2>2, <2>7
    <3> QED
      BY <2>1, <2>2, <2>3, <2>4, <2>6, <2>7, <3>1
      DEF InOrder, AllOfKind, Sole, Announces
  <2>8. CASE p = x
    <3>1. AllOfKind(p, "PaymentCompleted")
      BY <2>1, <2>2, <2>8, EventsByStatus DEF InOrder
    <3>2. \A d \in Clients : WorksOn(d, p)' => d = c
      BY <2>1, <2>5, <2>6, <2>8 DEF InOrder, Sole
    <3>3. \A d \in Clients : /\ ~Announces(d, p, "PaymentCompleted")'
                             /\ ~(req'[d].pc = "refund" /\ req'[d].payment = p)
      BY <2>4, <3>2 DEF WorksOn, Announces, Idle
    <3>4. AllOfKind(p, "PaymentCompleted")'
      BY <2>2, <3>1 DEF AllOfKind
    <3> QED
      BY <2>1, <2>2, <3>2, <3>3, <3>4 DEF InOrder, Sole
  <2> QED
    BY <2>7, <2>8
<1>4. ASSUME NEW c \in Clients, req[c].pc = "publish", Send(req[c]),
             NEW q \in Request, req' = [req EXCEPT ![c] = q],
             \/ q = Idle
             \/ /\ q.pc = "publish" /\ q.payment = req[c].payment
                /\ q.kind = req[c].kind /\ q.sent # 0,
             status' = status, raced' = raced
      PROVE  InOrder(p)'
  <2>1. p \notin raced /\ InOrder(p)
    BY <1>4 DEF UnracedInOrder
  <2>2. /\ \A d \in Clients : d # c => req'[d] = req[d]
        /\ req'[c] = q
    BY <1>0, <1>4
  <2>3. \A d \in Clients : WorksOn(d, p)' => WorksOn(d, p)
    BY <1>4, <2>2 DEF WorksOn, Idle
  <2>4. /\ Sole(p)'
        /\ \A d \in Clients : req'[d].pc = "refund" /\ req'[d].payment = p
             => status'[p] = "COMPLETED"
    BY <1>4, <2>1, <2>2, <2>3 DEF InOrder, Sole, Idle
  <2>5. CASE p # req[c].payment
    <3>1. events'[p] = events[p]
      BY <1>4, <2>5, Sending
    <3>2. ~WorksOn(c, p)'
      BY <2>5, <1>4, <2>2 DEF WorksOn
    <3>3. /\ ~Announces(c, p, "PaymentCompleted")' /\ ~Announces(c, p, "RefundIssued")'
      BY <1>4, <2>2, <2>5 DEF Announces, Idle
    <3> QED
      BY <2>1, <2>2, <2>4, <3>1, <3>3 DEF InOrder, AllOfKind, Announces
  <2>6. CASE p = req[c].payment
    <3>1. PICK e \in Event :
            /\ e = [id |-> EventId(req[c]), kind |-> req[c].kind]
            /\ events'[p] = Append(events[p], e)
      BY <1>4, <2>6, Sending
    <3>2. events[p] \in Seq(Event)
      BY <1>0
    <3>3. /\ \A n \in DOMAIN events[p] : Succeeds(events[p][n], e)
          /\ req[c].kind = "PaymentCompleted" => AllOfKind(p, "PaymentCompleted")
      BY <1>4, <2>1, <2>6, <3>1, SentFollows
    <3>4. \A n, m \in DOMAIN events'[p] : n < m => Succeeds(events'[p][n], events'[p][m])
      BY <2>1, <3>1, <3>2, <3>3, CopyFollows DEF InOrder
    <3>5. \A d \in Clients : WorksOn(d, p)' => d = c
      BY <1>4, <2>1, <2>3, <2>6 DEF InOrder, Sole, WorksOn, Idle
    <3>6. /\ \A d \in Clients : (Announces(d, p, "PaymentCompleted")' =>
               d = c /\ req[c].kind = "PaymentCompleted" /\ req'[c].sent # 0)
          /\ \A d \in Clients : (Announces(d, p, "RefundIssued")' =>
               d = c /\ req'[c].sent # 0)
      BY <1>4, <2>2, <3>5 DEF Announces, WorksOn, Idle
    <3>7. ASSUME req[c].kind = "PaymentCompleted"
          PROVE  AllOfKind(p, "PaymentCompleted")'
      <4>1. \A n \in DOMAIN events'[p] : events'[p][n].kind = "PaymentCompleted"
        BY <3>1, <3>2, <3>3, <3>7 DEF AllOfKind
      <4> QED
        BY <4>1 DEF AllOfKind
    <3> QED
      BY <2>4, <3>4, <3>6, <3>7 DEF InOrder
  <2> QED
    BY <2>5, <2>6
<1>5. ASSUME NEW c \in Clients, Publish(c) PROVE InOrder(p)'
  <2>1. Idle \in Request
    BY DEF Request
  <2> QED
    BY <1>4, <1>5, <2>1 DEF Publish, Continue
<1>6. ASSUME NEW c \in Clients, PublishUnanswered(c) PROVE InOrder(p)'
  <2>1. /\ req[c].pc = "publish" /\ Send(req[c]) /\ status' = status /\ raced' = raced
        /\ Len(events[req[c].payment]) + 1 # 0
    <3>1. req[c].pc = "publish" /\ Send(req[c])
      BY <1>6 DEF PublishUnanswered
    <3> QED
      BY <1>6, <3>1, Sending DEF PublishUnanswered
  <2>2. PICK q \in Request :
          /\ req' = [req EXCEPT ![c] = q]
          /\ q.pc = "publish" /\ q.payment = req[c].payment /\ q.kind = req[c].kind
          /\ q.sent # 0
    BY <1>6, <2>1, Resending
  <2> QED
    BY <1>4, <2>1, <2>2
<1>7. ASSUME NEW c \in Clients, Fail(c) PROVE InOrder(p)'
  <2>1. p \notin raced /\ InOrder(p)
    BY <1>7 DEF Fail, UnracedInOrder
  <2>2. /\ req' = [req EXCEPT ![c] = Idle] /\ status' = status /\ events' = events
    BY <1>7 DEF Fail, Continue
  <2>3. \A d \in Clients : d # c => req'[d] = req[d]
    BY <1>0, <2>2
  <2>4. req'[c] = Idle
    BY <1>0, <2>2
  <2> QED
    BY <2>1, <2>2, <2>3, <2>4 DEF InOrder, AllOfKind, Sole, WorksOn, Announces, Idle
<1>8. CASE UNCHANGED vars
  <2>1. p \notin raced /\ InOrder(p)
    BY <1>8 DEF vars, UnracedInOrder
  <2> QED
    BY <1>8, <2>1 DEF vars, InOrder, AllOfKind, Sole, WorksOn, Announces
<1> QED
  BY <1>1, <1>2, <1>3, <1>5, <1>6, <1>7, <1>8 DEF Next

LEMMA UnracedInit == Init => UnracedInOrder
BY DEF Init, UnracedInOrder, InOrder, AllOfKind, Sole, WorksOn, Announces, Idle

\* "Only completed payments can be refunded" (services/payment.py): however the
\* requests of other payments overlap, one no two requests worked on at once is
\* announced by one event and refunded by one event, in that order, though the
\* producer may send either again.
THEOREM PaymentsRefundedOnce == Spec => []RefundedOnce
<1> DEFINE IInv == TypeOK /\ AllOnTopic /\ AnnouncedAsCommitted /\ UnracedInOrder
<1>1. Init => IInv
  BY PaymentsTypeInit, OnTopicInit, AnnouncedInit, UnracedInit
<1>2. IInv /\ [Next]_vars => IInv'
  BY PaymentsTypeStep, OnTopicStep, AnnouncedStep, UnracedStep
<1>3. IInv => RefundedOnce
  BY DEF UnracedInOrder, InOrder, Succeeds, RefundedOnce
<1> QED
  BY <1>1, <1>2, <1>3, PTL DEF Spec
-----------------------------------------------------------------------------
(* Payments implements Ledger *)

\* A payment about to be announced has not been, but by the attempts of the one
\* request that is to do it.
Fresh(p) ==
  \A c, d \in Clients : Announces(c, p, "PaymentCompleted") =>
    /\ req[c].sent = 0 => \A n \in DOMAIN events[p] : events[p][n].kind # "PaymentCompleted"
    /\ Announces(d, p, "PaymentCompleted") => c = d

AllFresh == \A p \in Ids : Fresh(p)

LEMMA FreshStep ==
  TypeOK /\ AnnouncedAsCommitted /\ AllFresh /\ [Next]_vars => AllFresh'
<1> SUFFICES ASSUME TypeOK, AnnouncedAsCommitted, AllFresh, [Next]_vars, NEW p \in Ids
             PROVE  Fresh(p)'
  BY DEF AllFresh
<1>0. /\ req \in [Clients -> Request] /\ events \in [Ids -> Seq(Event)]
      /\ \A c \in Clients : req[c] \in Request
      /\ Fresh(p)
  BY DEF TypeOK, AllFresh
<1>1. ASSUME NEW c \in Clients, NEW x \in Ids, CreatePayment(c, x) PROVE Fresh(p)'
  <2>1. /\ req' = [req EXCEPT ![c] = [pc |-> "publish", payment |-> x,
                                      kind |-> "PaymentCompleted", sent |-> 0]]
        /\ events' = events /\ status[x] = "none"
    BY <1>1 DEF CreatePayment, Announce, Continue
  <2>2. ~Told(x, "PaymentCompleted")
    BY <2>1 DEF AnnouncedAsCommitted, Agree
  <2>3. /\ \A d \in Clients : d # c => req'[d] = req[d]
        /\ req'[c].payment = x
    BY <1>0, <2>1
  <2>4. CASE p = x
    <3>1. /\ \A d \in Clients : Announces(d, p, "PaymentCompleted")' => d = c
          /\ \A n \in DOMAIN events[p] : events[p][n].kind # "PaymentCompleted"
      BY <2>2, <2>3, <2>4 DEF Told, Announces
    <3> QED
      BY <2>1, <3>1 DEF Fresh
  <2>5. CASE p # x
    <3>1. \A d \in Clients : Announces(d, p, "PaymentCompleted")' =>
            Announces(d, p, "PaymentCompleted") /\ req'[d] = req[d]
      BY <2>3, <2>5 DEF Announces
    <3> QED
      BY <1>0, <2>1, <3>1 DEF Fresh
  <2> QED
    BY <2>4, <2>5
<1>2. ASSUME NEW c \in Clients, NEW q, Continue(c, q), events' = events,
             q.pc # "publish" \/ q.kind = "RefundIssued"
      PROVE  Fresh(p)'
  <2>1. req' = [req EXCEPT ![c] = q] /\ ~Announces(c, p, "PaymentCompleted")'
    BY <1>0, <1>2 DEF Continue, Announces
  <2>2. \A d \in Clients : Announces(d, p, "PaymentCompleted")' =>
          Announces(d, p, "PaymentCompleted") /\ req'[d] = req[d]
    BY <1>0, <2>1 DEF Announces
  <2> QED
    BY <1>0, <1>2, <2>2 DEF Fresh
<1>3. ASSUME NEW c \in Clients, NEW x \in Ids, ReadToRefund(c, x) PROVE Fresh(p)'
  BY <1>2, <1>3 DEF ReadToRefund
<1>4. ASSUME NEW c \in Clients, WriteRefund(c) PROVE Fresh(p)'
  BY <1>2, <1>4 DEF WriteRefund, Announce
<1>5. ASSUME NEW c \in Clients, Fail(c) PROVE Fresh(p)'
  BY <1>2, <1>5 DEF Fail, Idle
<1>6. ASSUME NEW c \in Clients, req[c].pc = "publish", Send(req[c]),
             NEW q, req' = [req EXCEPT ![c] = q],
             \/ q = Idle
             \/ /\ q.pc = "publish" /\ q.payment = req[c].payment
                /\ q.kind = req[c].kind /\ q.sent # 0
      PROVE  Fresh(p)'
  <2>1. /\ \A d \in Clients : d # c => req'[d] = req[d]
        /\ req'[c] = q
    BY <1>0, <1>6
  <2>2. CASE p # req[c].payment
    <3>1. events'[p] = events[p]
      BY <1>6, <2>2, Sending
    <3>2. \A d \in Clients : Announces(d, p, "PaymentCompleted")' =>
            Announces(d, p, "PaymentCompleted") /\ req'[d] = req[d]
      BY <1>6, <2>1, <2>2 DEF Announces, Idle
    <3> QED
      BY <1>0, <3>1, <3>2 DEF Fresh
  <2>3. CASE p = req[c].payment /\ req[c].kind = "PaymentCompleted"
    <3>1. Announces(c, p, "PaymentCompleted")
      BY <1>6, <2>3 DEF Announces
    <3>2. \A d \in Clients : d # c => ~Announces(d, p, "PaymentCompleted")'
      BY <1>0, <2>1, <3>1 DEF Fresh, Announces
    <3>3. Announces(c, p, "PaymentCompleted")' => req'[c].sent # 0
      BY <1>6, <2>1 DEF Announces, Idle
    <3> QED
      BY <3>2, <3>3 DEF Fresh
  <2>4. CASE p = req[c].payment /\ req[c].kind = "RefundIssued"
    <3>1. PICK e \in Event : e.kind = "RefundIssued" /\ events'[p] = Append(events[p], e)
      BY <1>6, <2>4, Sending
    <3>2. (\A n \in DOMAIN events[p] : events[p][n].kind # "PaymentCompleted")
            => \A n \in DOMAIN events'[p] : events'[p][n].kind # "PaymentCompleted"
      <4>1. events[p] \in Seq(Event)
        BY <1>0
      <4> QED
        BY <3>1, <4>1
    <3>3. ~Announces(c, p, "PaymentCompleted")'
      BY <1>6, <2>1, <2>4 DEF Announces, Idle
    <3>4. \A d \in Clients : d # c =>
            (Announces(d, p, "PaymentCompleted")' <=> Announces(d, p, "PaymentCompleted"))
      BY <2>1 DEF Announces
    <3> QED
      BY <1>0, <2>1, <3>2, <3>3, <3>4 DEF Fresh
  <2> QED
    BY <1>6, <2>2, <2>3, <2>4, Sending DEF Kinds
<1>7. ASSUME NEW c \in Clients, Publish(c) PROVE Fresh(p)'
  BY <1>6, <1>7 DEF Publish, Continue
<1>8. ASSUME NEW c \in Clients, PublishUnanswered(c) PROVE Fresh(p)'
  <2>1. /\ req[c].pc = "publish" /\ Send(req[c])
        /\ Len(events[req[c].payment]) + 1 # 0
    <3>1. req[c].pc = "publish" /\ Send(req[c])
      BY <1>8 DEF PublishUnanswered
    <3> QED
      BY <3>1, Sending
  <2>2. PICK q \in Request :
          /\ req' = [req EXCEPT ![c] = q]
          /\ q.pc = "publish" /\ q.payment = req[c].payment /\ q.kind = req[c].kind
          /\ q.sent # 0
    BY <1>8, <2>1, Resending
  <2> QED
    BY <1>6, <2>1, <2>2
<1>9. CASE UNCHANGED vars
  BY <1>0, <1>9 DEF vars, Fresh, Announces
<1> QED
  BY <1>1, <1>3, <1>4, <1>5, <1>7, <1>8, <1>9 DEF Next

LEMMA FreshInit == Init => AllFresh
BY DEF Init, AllFresh, Fresh, Announces, Idle

AsEntry(e) ==
  [id |-> e.id, kind |-> IF e.kind = "PaymentCompleted" THEN "add" ELSE "remove"]

\* An event more on the topic is an entry more in the log.
LEMMA EntryMore ==
  ASSUME NEW s \in Seq(Event), NEW e \in Event
  PROVE  [n \in DOMAIN Append(s, e) |-> AsEntry(Append(s, e)[n])]
           = Append([n \in DOMAIN s |-> AsEntry(s[n])], AsEntry(e))
<1> DEFINE old == [n \in DOMAIN s |-> AsEntry(s[n])]
           new == [n \in DOMAIN Append(s, e) |-> AsEntry(Append(s, e)[n])]
           Entry == [id : Nat, kind : {"add", "remove"}]
<1>1. /\ Len(s) \in Nat /\ DOMAIN s = 1..Len(s)
      /\ DOMAIN Append(s, e) = 1..(Len(s) + 1)
      /\ \A n \in 1..Len(s) : Append(s, e)[n] = s[n]
      /\ Append(s, e)[Len(s) + 1] = e
      /\ \A n \in 1..Len(s) : s[n] \in Event
  OBVIOUS
<1>2. \A f \in Event : AsEntry(f) \in Entry
  BY DEF AsEntry, Event
<1>3. old \in Seq(Entry) /\ Len(old) = Len(s)
  <2>1. old \in [1..Len(s) -> Entry]
    BY <1>1, <1>2
  <2> QED
    BY <1>1, <2>1
<1>4. new \in Seq(Entry) /\ Len(new) = Len(s) + 1
  <2>1. \A n \in 1..(Len(s) + 1) : Append(s, e)[n] \in Event
    BY <1>1
  <2>2. new \in [1..(Len(s) + 1) -> Entry]
    BY <1>1, <1>2, <2>1
  <2> QED
    BY <1>1, <2>2
<1>5. /\ Append(old, AsEntry(e)) \in Seq(Entry)
      /\ Len(Append(old, AsEntry(e))) = Len(s) + 1
      /\ \A n \in 1..Len(s) : Append(old, AsEntry(e))[n] = old[n]
      /\ Append(old, AsEntry(e))[Len(s) + 1] = AsEntry(e)
  <2> HIDE DEF old
  <2>1. AsEntry(e) \in Entry
    BY <1>2
  <2> QED
    BY <2>1, <1>3
<1>6. \A n \in 1..(Len(s) + 1) : new[n] = Append(old, AsEntry(e))[n]
  BY <1>1, <1>5
<1> HIDE DEF old, new
<1>7. new = Append(old, AsEntry(e))
  BY <1>3, <1>4, <1>5, <1>6, SeqEqual
<1> QED
  BY <1>7 DEF old, new

LEMMA EntriesAre ==
  /\ Entries = [p \in Ids |-> [n \in DOMAIN events[p] |-> AsEntry(events[p][n])]]
  /\ Entries' = [p \in Ids |-> [n \in DOMAIN events'[p] |-> AsEntry(events'[p][n])]]
BY DEF Entries, AsEntry

LEMMA LedgerInit == Init => Abstract!Init
<1> SUFFICES ASSUME Init PROVE Entries = [p \in Ids |-> <<>>]
  BY DEF Abstract!Init
<1>1. \A p \in Ids : events[p] = <<>>
  BY DEF Init
<1>2. \A p \in Ids : [n \in DOMAIN events[p] |-> AsEntry(events[p][n])] = <<>>
  <2> TAKE p \in Ids
  <2>1. DOMAIN events[p] = {} /\ DOMAIN <<>> = {}
    BY <1>1
  <2>2. [n \in DOMAIN events[p] |-> AsEntry(events[p][n])] \in Seq({"add", "remove"})
    <3>1. [n \in DOMAIN events[p] |-> AsEntry(events[p][n])] \in [1..0 -> {"add", "remove"}]
      BY <2>1
    <3> QED
      BY <3>1
  <2>3. Len([n \in DOMAIN events[p] |-> AsEntry(events[p][n])]) = 0
    BY <2>1, <2>2
  <2> QED
    BY <2>2, <2>3
<1> QED
  BY <1>2, EntriesAre

\* An attempt to send is a step of the ledger: a new entry, or one it has already.
LEMMA SendIsEntry ==
  ASSUME TypeOK, AllOnTopic, AllFresh, NEW c \in Clients, req[c].pc = "publish", Send(req[c])
  PROVE  Abstract!Next
<1>1. PICK x, kind : x = req[c].payment /\ kind = req[c].kind
  OBVIOUS
<1>2. PICK e \in Event :
        /\ e = [id |-> EventId(req[c]), kind |-> kind]
        /\ events'[x] = Append(events[x], e)
  BY <1>1, Sending
<1>3. /\ x \in Ids /\ kind \in Kinds /\ Announces(c, x, kind)
      /\ events[x] \in Seq(Event)
      /\ \A p \in Ids : p # x => events'[p] = events[p]
  BY <1>1, Sending DEF Announces
<1>4. Entries'[x] = Append(Entries[x], AsEntry(e))
  BY <1>2, <1>3, EntriesAre, EntryMore
<1>5. \A p \in Ids : p # x => Entries'[p] = Entries[p]
  BY <1>3, EntriesAre
<1>6. Entries' = [Entries EXCEPT ![x] = Append(@, AsEntry(e))]
  BY <1>3, <1>4, <1>5, EntriesAre
<1>7. DOMAIN Entries[x] = DOMAIN events[x] /\ \A n \in DOMAIN events[x] :
        Entries[x][n] = AsEntry(events[x][n])
  BY <1>3, EntriesAre
<1>8. CASE req[c].sent # 0
  <2>1. /\ req[c].sent \in DOMAIN events[x]
        /\ events[x][req[c].sent] = e
    BY <1>1, <1>2, <1>8, Sending DEF AllOnTopic, OnTopic
  <2>2. req[c].sent \in DOMAIN Entries[x] /\ Entries[x][req[c].sent] = AsEntry(e)
    BY <1>7, <2>1
  <2>3. Abstract!Repeat(x)
    BY <1>6, <2>2 DEF Abstract!Repeat
  <2> QED
    BY <1>3, <2>3 DEF Abstract!Next
<1>9. CASE req[c].sent = 0
  <2>1. e.id = Len(events[x]) + 1 /\ e.kind = kind
    BY <1>1, <1>2, <1>9, Sending
  <2>2. Len(Entries[x]) = Len(events[x])
    <3>1. Len(events[x]) \in Nat /\ DOMAIN Entries[x] = 1..Len(events[x])
      BY <1>3, <1>7
    <3>2. Entries[x] = [n \in 1..Len(events[x]) |-> AsEntry(events[x][n])]
      BY <1>3, EntriesAre
    <3>3. \A n \in 1..Len(events[x]) :
            AsEntry(events[x][n]) \in [id : Nat, kind : {"add", "remove"}]
      <4>1. \A n \in 1..Len(events[x]) : events[x][n] \in Event
        BY <1>3
      <4> QED
        BY <4>1 DEF AsEntry, Event
    <3>4. Entries[x] \in Seq([id : Nat, kind : {"add", "remove"}])
      BY <3>1, <3>2, <3>3
    <3> QED
      BY <3>1, <3>4
  <2>3. CASE kind = "PaymentCompleted"
    <3>1. \A n \in DOMAIN events[x] : events[x][n].kind # "PaymentCompleted"
      BY <1>3, <1>9, <2>3 DEF AllFresh, Fresh
    <3>2. \A n \in DOMAIN Entries[x] : Entries[x][n].kind # "add"
      <4>1. \A f : f.kind # "PaymentCompleted" => AsEntry(f).kind = "remove"
        BY DEF AsEntry
      <4> QED
        BY <1>7, <3>1, <4>1
    <3>3. AsEntry(e) = [id |-> Len(Entries[x]) + 1, kind |-> "add"]
      BY <2>1, <2>2, <2>3 DEF AsEntry
    <3>4. Abstract!Add(x)
      BY <1>6, <3>2, <3>3 DEF Abstract!Add, Abstract!NewEntry
    <3> QED
      BY <1>3, <3>4 DEF Abstract!Next
  <2>4. CASE kind # "PaymentCompleted"
    <3>1. AsEntry(e) = [id |-> Len(Entries[x]) + 1, kind |-> "remove"]
      BY <2>1, <2>2, <2>4 DEF AsEntry
    <3>2. Abstract!Remove(x)
      BY <1>6, <3>1 DEF Abstract!Remove, Abstract!NewEntry
    <3> QED
      BY <1>3, <3>2 DEF Abstract!Next
  <2> QED
    BY <2>3, <2>4
<1> QED
  BY <1>8, <1>9

LEMMA LedgerStep ==
  TypeOK /\ AllOnTopic /\ AllFresh /\ [Next]_vars => [Abstract!Next]_Entries
<1> SUFFICES ASSUME TypeOK, AllOnTopic, AllFresh, [Next]_vars
             PROVE  Abstract!Next \/ Entries' = Entries
  OBVIOUS
<1>1. ASSUME NEW c \in Clients, Publish(c) \/ PublishUnanswered(c) PROVE Abstract!Next
  BY <1>1, SendIsEntry DEF Publish, PublishUnanswered
<1>2. CASE events' = events
  BY <1>2 DEF Entries
<1>3. ASSUME NEW c \in Clients, NEW p \in Ids, CreatePayment(c, p) \/ ReadToRefund(c, p)
      PROVE  events' = events
  BY <1>3 DEF CreatePayment, ReadToRefund
<1>4. ASSUME NEW c \in Clients, WriteRefund(c) \/ Fail(c) PROVE events' = events
  BY <1>4 DEF WriteRefund, Fail
<1>5. CASE UNCHANGED vars
  BY <1>2, <1>5 DEF vars
<1> QED
  BY <1>1, <1>2, <1>3, <1>4, <1>5 DEF Next

\* Payments implements Ledger: however requests overlap and fail and the producer
\* sends again, a payment is added to what consumers count by one event at most,
\* which may be on the topic twice and bears one event_id.
THEOREM PaymentsLedger == Spec => Ledger
<1> DEFINE IInv == TypeOK /\ AllOnTopic /\ AnnouncedAsCommitted /\ AllFresh
<1>1. Init => IInv
  BY PaymentsTypeInit, OnTopicInit, AnnouncedInit, FreshInit
<1>2. IInv /\ [Next]_vars => IInv'
  BY PaymentsTypeStep, OnTopicStep, AnnouncedStep, FreshStep
<1>3. Init => Abstract!Init
  BY LedgerInit
<1>4. IInv /\ [Next]_vars => [Abstract!Next]_Entries
  BY LedgerStep
<1> QED
  BY <1>1, <1>2, <1>3, <1>4, PTL DEF Spec, Ledger, Abstract!Spec
-----------------------------------------------------------------------------
(* Catalogue, staff, menu and guest rows *)

\* TypeOK for one row and for one request.
RowOK(id) ==
  \E table \in Rw!Tables : rows[id] \in Rw!Row(table) /\ last[id] \in [Rw!Changeable(table) -> Rw!Cells]

RequestOK(c) ==
  rowReq[c] # Rw!Idle =>
    /\ \E table \in Rw!Tables : \E cols \in SUBSET Rw!Changeable(table) :
         rowReq[c] \in Rw!Request(table, cols) /\ rows[rowReq[c].row].table = table
    /\ rowReq[c].row \in DOMAIN rows

Parts ==
  /\ DOMAIN rows \subseteq RowIds /\ DOMAIN last = DOMAIN rows
  /\ \A id \in DOMAIN rows : RowOK(id)
  /\ DOMAIN rowReq = Clients
  /\ \A c \in Clients : RequestOK(c)
  /\ rowRaced \subseteq RowIds \X Columns

LEMMA TypeParts == (Rw!TypeOK <=> Parts) /\ (Rw!TypeOK' <=> Parts')
BY DEF Rw!TypeOK, Parts, RowOK, RequestOK

LEMMA CreateTypes ==
  ASSUME Rw!TypeOK, NEW id \in RowIds, NEW table \in Rw!Tables, NEW v \in Values,
         Rw!Create(id, table, v)
  PROVE  Rw!TypeOK'
<1> DEFINE value == [col \in Rw!Changeable(table) |->
                       CASE col = "is_active" -> TRUE
                         [] col = "status" -> Available
                         [] col = "clock_out" -> Null
                         [] OTHER -> v]
           row == [table |-> table, value |-> value]
<1>1. /\ id \notin DOMAIN rows /\ UNCHANGED <<rowReq, rowRaced>>
      /\ rows' = [i \in DOMAIN rows \cup {id} |-> IF i = id THEN row ELSE rows[i]]
      /\ last' = [i \in DOMAIN rows \cup {id} |-> IF i = id THEN row.value ELSE last[i]]
  BY DEF Rw!Create
<1>2. value \in [Rw!Changeable(table) -> Rw!Cells]
  BY ServicesAssumption DEF Rw!Cells
<1> HIDE DEF value
<1>3. row \in Rw!Row(table) /\ row.value = value
  BY <1>2 DEF Rw!Row
<1> HIDE DEF row
<1>4. RowOK(id)'
  BY <1>1, <1>2, <1>3 DEF RowOK
<1>5. \A i \in DOMAIN rows : RowOK(i)'
  BY <1>1, TypeParts DEF Parts, RowOK
<1>6. \A c \in Clients : RequestOK(c)'
  BY <1>1, TypeParts DEF Parts, RequestOK
<1> QED
  BY <1>1, <1>4, <1>5, <1>6, TypeParts DEF Parts

LEMMA ReadTypes ==
  ASSUME Rw!TypeOK, NEW c \in Clients, NEW id \in RowIds, NEW table \in Rw!Tables,
         NEW cols \in SUBSET Rw!Changeable(table), NEW changes \in [cols -> Rw!Cells],
         Rw!Read(c, id, table, changes)
  PROVE  Rw!TypeOK'
<1> DEFINE q == [pc |-> "write", row |-> id, changes |-> changes, seen |-> rows[id]]
<1>1. /\ id \in DOMAIN rows /\ rows[id].table = table
      /\ rowReq' = [rowReq EXCEPT ![c] = q] /\ UNCHANGED <<rows, last>>
  BY DEF Rw!Read
<1>2. rows[id] \in Rw!Row(table)
  BY <1>1, TypeParts DEF Parts, RowOK, Rw!Row
<1>3. q \in Rw!Request(table, cols)
  BY <1>2 DEF Rw!Request
<1>4. q.row = id
  OBVIOUS
<1> HIDE DEF q
<1>5. \A d \in Clients : RequestOK(d)'
  BY <1>1, <1>3, <1>4, TypeParts DEF Parts, RequestOK
<1>6. \A i \in DOMAIN rows : RowOK(i)'
  BY <1>1, TypeParts DEF Parts, RowOK
<1>7. cols \subseteq Columns
  BY DEF Rw!Changeable
<1>8. rowRaced' \subseteq RowIds \X Columns
  BY <1>7, TypeParts DEF Parts, Rw!Read
<1> QED
  BY <1>1, <1>5, <1>6, <1>8, TypeParts DEF Parts

LEMMA WriteTypes ==
  ASSUME Rw!TypeOK, NEW c \in Clients, Rw!Write(c)
  PROVE  Rw!TypeOK'
<1>1. PICK q : q = rowReq[c]
  OBVIOUS
<1>2. PICK table \in Rw!Tables : \E cols \in SUBSET Rw!Changeable(table) :
        /\ q \in Rw!Request(table, cols) /\ rows[q.row].table = table
        /\ q.row \in DOMAIN rows
  BY <1>1, TypeParts DEF Parts, RequestOK, Rw!Write, Rw!Idle
<1>a. PICK cols \in SUBSET Rw!Changeable(table) : q \in Rw!Request(table, cols)
  BY <1>2
<1>3. /\ rows' = [rows EXCEPT ![q.row].value = Rw!Written(q, @)]
      /\ last' = [last EXCEPT ![q.row] =
                    [col \in DOMAIN @ |-> IF col \in DOMAIN q.changes THEN q.changes[col]
                                          ELSE @[col]]]
      /\ rowReq' = [rowReq EXCEPT ![c] = Rw!Idle] /\ UNCHANGED rowRaced
  BY <1>1 DEF Rw!Write
<1>4. /\ rows[q.row] \in Rw!Row(table) /\ last[q.row] \in [Rw!Changeable(table) -> Rw!Cells]
      /\ q.changes \in [cols -> Rw!Cells]
  BY <1>2, <1>a, TypeParts DEF Parts, RowOK, Rw!Row, Rw!Request
<1>5. Rw!Written(q, rows[q.row].value) \in [Rw!Changeable(table) -> Rw!Cells]
  BY <1>4 DEF Rw!Written, Rw!Row
<1>6. /\ DOMAIN rows' = DOMAIN rows /\ DOMAIN last' = DOMAIN rows
      /\ rows'[q.row] = [rows[q.row] EXCEPT !.value = Rw!Written(q, rows[q.row].value)]
      /\ last'[q.row] = [col \in DOMAIN last[q.row] |->
                           IF col \in DOMAIN q.changes THEN q.changes[col]
                           ELSE last[q.row][col]]
      /\ \A i \in DOMAIN rows : i # q.row => rows'[i] = rows[i] /\ last'[i] = last[i]
  BY <1>2, <1>3, TypeParts DEF Parts
<1>7. rows'[q.row] \in Rw!Row(table) /\ last'[q.row] \in [Rw!Changeable(table) -> Rw!Cells]
  BY <1>4, <1>5, <1>6 DEF Rw!Row
<1>8. \A i \in DOMAIN rows : RowOK(i)' /\ rows'[i].table = rows[i].table
  BY <1>4, <1>6, <1>7, TypeParts DEF Parts, RowOK, Rw!Row
<1>9. ASSUME NEW d \in Clients PROVE RequestOK(d)'
  <2>1. rowReq'[d] = IF d = c THEN Rw!Idle ELSE rowReq[d]
    BY <1>3, TypeParts DEF Parts
  <2>2. DOMAIN rows' = DOMAIN rows /\ \A i \in DOMAIN rows : rows'[i].table = rows[i].table
    BY <1>6, <1>8
  <2>3. RequestOK(d)
    BY TypeParts DEF Parts
  <2> QED
    BY <2>1, <2>2, <2>3 DEF RequestOK
<1>10. DOMAIN rowReq' = Clients /\ rowRaced' \subseteq RowIds \X Columns
  BY <1>3, TypeParts DEF Parts
<1>11. DOMAIN rows' \subseteq RowIds /\ DOMAIN last' = DOMAIN rows'
  BY <1>6, TypeParts DEF Parts
<1> QED
  BY <1>6, <1>8, <1>9, <1>10, <1>11, TypeParts DEF Parts

\* Which columns which table has.
LEMMA Schemas ==
  /\ Rw!Changeable("hotels") = Columns \cap (Rw!HotelUpdate \cup {"is_active"})
  /\ Rw!Changeable("branches") = Columns \cap Rw!BranchUpdate
  /\ Rw!Changeable("room_types") = Columns \cap Rw!RoomTypeUpdate
  /\ Rw!Changeable("employees") = Columns \cap (Rw!EmployeeUpdate \cup {"is_active"})
  /\ Rw!Changeable("menu_items") = Columns \cap Rw!MenuItemUpdate
  /\ Rw!Changeable("guests") = Columns \cap Rw!GuestUpdate
  /\ Rw!Changeable("rooms") = Columns \cap {"status"}
  /\ Rw!Changeable("restaurant_tables") = Columns \cap {"status"}
  /\ Rw!Changeable("attendance") = Columns \cap {"clock_out"}
BY DEF Rw!Changeable

LEMMA TableNames ==
  /\ {"hotels", "branches", "room_types", "floors", "rooms"} \subseteq Rw!Tables
  /\ {"departments", "employees", "schedules", "attendance"} \subseteq Rw!Tables
  /\ {"food_categories", "menu_items", "restaurant_tables", "guests"} \subseteq Rw!Tables
BY DEF Rw!Tables, Rw!HotelTables, Rw!StaffTables, Rw!RestaurantTables

\* Every insert is a Create, every update a Read of the columns of its table.
LEMMA CreatesAndReads ==
  ASSUME Rw!TypeOK, NEW c \in Clients, NEW id \in RowIds,
         Rw!Catalogue(c, id) \/ Rw!Staff(c, id) \/ Rw!Restaurant(c, id) \/ Rw!Guests(c, id)
  PROVE  \/ \E table \in Rw!Tables, v \in Values : Rw!Create(id, table, v)
         \/ \E table \in Rw!Tables : \E cols \in SUBSET Rw!Changeable(table) :
              \E changes \in [cols -> Rw!Cells] :
                /\ Rw!Read(c, id, table, changes)
                /\ table = "attendance" => rows[id].value["clock_out"] = Null
<1> USE TableNames
<1> DEFINE Reads == \E table \in Rw!Tables : \E cols \in SUBSET Rw!Changeable(table) :
                      \E changes \in [cols -> Rw!Cells] :
                        /\ Rw!Read(c, id, table, changes)
                        /\ table = "attendance" => rows[id].value["clock_out"] = Null
           Creates == \E table \in Rw!Tables, v \in Values : Rw!Create(id, table, v)
<1>1. ASSUME NEW table \in Rw!Tables, NEW columns, table # "attendance",
             Columns \cap columns \subseteq Rw!Changeable(table), Rw!Put(c, id, table, columns)
      PROVE  Reads
  <2>1. PICK cols \in SUBSET (Columns \cap columns) :
          \E changes \in [cols -> Values] : Rw!Read(c, id, table, changes)
    BY <1>1 DEF Rw!Put
  <2>2. PICK changes \in [cols -> Values] : Rw!Read(c, id, table, changes)
    BY <2>1
  <2>3. cols \in SUBSET Rw!Changeable(table) /\ changes \in [cols -> Rw!Cells]
    BY <1>1, <2>1, <2>2 DEF Rw!Cells
  <2> QED
    BY <1>1, <2>2, <2>3
<1>2. ASSUME NEW table \in Rw!Tables, NEW col, NEW v \in Rw!Cells,
             Columns \cap {col} \subseteq Rw!Changeable(table), Rw!SetColumn(c, id, table, col, v),
             table = "attendance" => rows[id].value["clock_out"] = Null
      PROVE  Reads
  <2>1. [x \in {col} \cap Columns |-> v] \in [{col} \cap Columns -> Rw!Cells]
    OBVIOUS
  <2>2. Rw!Read(c, id, table, [x \in {col} \cap Columns |-> v])
    BY <1>2 DEF Rw!SetColumn
  <2> QED
    BY <1>2, <2>1, <2>2
<1>3. FALSE \in Rw!Cells /\ Statuses \subseteq Rw!Cells /\ Values \subseteq Rw!Cells
  BY DEF Rw!Cells
<1> HIDE DEF Reads
<1>4. CASE Rw!Catalogue(c, id)
  <2>1. ASSUME NEW v \in Values,
               \/ Rw!CreateHotel(id, v) \/ Rw!CreateBranch(id, v) \/ Rw!CreateRoomType(id, v)
               \/ Rw!CreateFloor(id, v) \/ Rw!CreateRoom(id, v)
        PROVE  Creates
    BY <2>1 DEF Rw!CreateHotel, Rw!CreateBranch, Rw!CreateRoomType, Rw!CreateFloor, Rw!CreateRoom
  <2>2. ASSUME Rw!UpdateHotel(c, id) PROVE Reads
    BY <1>1, <2>2, Schemas DEF Rw!UpdateHotel
  <2>3. ASSUME Rw!UpdateBranch(c, id) PROVE Reads
    BY <1>1, <2>3, Schemas DEF Rw!UpdateBranch
  <2>4. ASSUME Rw!UpdateRoomType(c, id) PROVE Reads
    BY <1>1, <2>4, Schemas DEF Rw!UpdateRoomType
  <2>5. ASSUME Rw!DeactivateHotel(c, id) PROVE Reads
    BY <1>2, <1>3, <2>5, Schemas DEF Rw!DeactivateHotel
  <2>6. ASSUME NEW st \in Statuses, Rw!UpdateRoomStatus(c, id, st) PROVE Reads
    BY <1>2, <1>3, <2>6, Schemas DEF Rw!UpdateRoomStatus
  <2> QED
    BY <1>4, <2>1, <2>2, <2>3, <2>4, <2>5, <2>6 DEF Rw!Catalogue, Reads
<1>5. CASE Rw!Staff(c, id)
  <2>1. ASSUME NEW v \in Values,
               \/ Rw!CreateDepartment(id, v) \/ Rw!CreateEmployee(id, v)
               \/ Rw!CreateSchedule(id, v) \/ Rw!ClockIn(id, v)
        PROVE  Creates
    BY <2>1 DEF Rw!CreateDepartment, Rw!CreateEmployee, Rw!CreateSchedule, Rw!ClockIn
  <2>2. ASSUME Rw!UpdateEmployee(c, id) PROVE Reads
    BY <1>1, <2>2, Schemas DEF Rw!UpdateEmployee
  <2>3. ASSUME Rw!DeactivateEmployee(c, id) PROVE Reads
    BY <1>2, <1>3, <2>3, Schemas DEF Rw!DeactivateEmployee
  <2>4. ASSUME NEW time \in Values, Rw!ClockOut(c, id, time) PROVE Reads
    <3>1. Rw!SetColumn(c, id, "attendance", "clock_out", time)
          /\ rows[id].value["clock_out"] = Null
      BY <2>4 DEF Rw!ClockOut
    <3> QED
      BY <1>2, <1>3, <3>1, Schemas
  <2> QED
    BY <1>5, <2>1, <2>2, <2>3, <2>4 DEF Rw!Staff, Reads
<1>6. CASE Rw!Restaurant(c, id)
  <2>1. ASSUME NEW v \in Values,
               Rw!CreateCategory(id, v) \/ Rw!CreateMenuItem(id, v) \/ Rw!CreateTable(id, v)
        PROVE  Creates
    BY <2>1 DEF Rw!CreateCategory, Rw!CreateMenuItem, Rw!CreateTable
  <2>2. ASSUME Rw!UpdateMenuItem(c, id) PROVE Reads
    BY <1>1, <2>2, Schemas DEF Rw!UpdateMenuItem
  <2>3. ASSUME NEW st \in Statuses, Rw!UpdateTableStatus(c, id, st) PROVE Reads
    BY <1>2, <1>3, <2>3, Schemas DEF Rw!UpdateTableStatus
  <2> QED
    BY <1>6, <2>1, <2>2, <2>3 DEF Rw!Restaurant, Reads
<1>7. CASE Rw!Guests(c, id)
  <2>1. ASSUME NEW v \in Values, Rw!CreateGuest(id, v) PROVE Creates
    BY <2>1 DEF Rw!CreateGuest
  <2>2. ASSUME Rw!UpdateGuest(c, id) PROVE Reads
    BY <1>1, <2>2, Schemas DEF Rw!UpdateGuest
  <2> QED
    BY <1>7, <2>1, <2>2 DEF Rw!Guests, Reads
<1> QED
  BY <1>4, <1>5, <1>6, <1>7

LEMMA RecordsTypeStep == Rw!TypeOK /\ [Rw!Next]_(Rw!vars) => Rw!TypeOK'
<1> SUFFICES ASSUME Rw!TypeOK, [Rw!Next]_(Rw!vars) PROVE Rw!TypeOK'
  OBVIOUS
<1>1. ASSUME NEW c \in Clients, NEW id \in RowIds,
             Rw!Catalogue(c, id) \/ Rw!Staff(c, id) \/ Rw!Restaurant(c, id) \/ Rw!Guests(c, id)
      PROVE  Rw!TypeOK'
  <2>1. ASSUME NEW table \in Rw!Tables, NEW v \in Values, Rw!Create(id, table, v) PROVE Rw!TypeOK'
    BY <2>1, CreateTypes
  <2>2. ASSUME NEW table \in Rw!Tables, NEW cols \in SUBSET Rw!Changeable(table),
               NEW changes \in [cols -> Rw!Cells], Rw!Read(c, id, table, changes)
        PROVE  Rw!TypeOK'
    BY <2>2, ReadTypes
  <2> QED
    BY <1>1, <2>1, <2>2, CreatesAndReads
<1>2. ASSUME NEW c \in Clients, Rw!Write(c) PROVE Rw!TypeOK'
  BY <1>2, WriteTypes
<1>3. ASSUME NEW c \in Clients, Rw!Fail(c) PROVE Rw!TypeOK'
  <2>1. \A d \in Clients : RequestOK(d)'
    <3> SUFFICES ASSUME NEW d \in Clients PROVE RequestOK(d)'
      OBVIOUS
    <3>1. rowReq'[d] = IF d = c THEN Rw!Idle ELSE rowReq[d]
      BY <1>3, TypeParts DEF Rw!Fail, Parts
    <3>2. RequestOK(d) /\ rows' = rows
      BY <1>3, TypeParts DEF Rw!Fail, Parts
    <3> QED
      BY <3>1, <3>2 DEF RequestOK
  <2>2. \A i \in DOMAIN rows : RowOK(i)'
    BY <1>3, TypeParts DEF Rw!Fail, Parts, RowOK
  <2> QED
    BY <1>3, <2>1, <2>2, TypeParts DEF Rw!Fail, Parts
<1>4. CASE UNCHANGED Rw!vars
  BY <1>4 DEF Rw!vars, Rw!TypeOK
<1> QED
  BY <1>1, <1>2, <1>3, <1>4 DEF Rw!Next

LEMMA RecordsTypeInit == Rw!Init => Rw!TypeOK
BY DEF Rw!Init, Rw!TypeOK

\* Every row of the catalogue, the staff, the restaurant and the guests keeps the
\* columns of its table, and a request is about a row there is.
THEOREM RecordsType == Rw!Spec => []Rw!TypeOK
<1>1. Rw!TypeOK /\ [Rw!Next]_(Rw!vars) => Rw!TypeOK'
  BY RecordsTypeStep
<1> QED
  BY RecordsTypeInit, <1>1, PTL DEF Rw!Spec
-----------------------------------------------------------------------------
(* Columns of a row *)

\* What holds of a column no two requests set at once: it holds what was last
\* asked, one request at most is about to set it, and that one has seen its value;
\* one that is about to clock somebody out has seen nobody clocked out.
Kept(id, col) ==
  /\ rows[id].value[col] = last[id][col]
  /\ \A c, d \in Clients : Rw!Setting(c, id, col) /\ Rw!Setting(d, id, col) => c = d
  /\ \A c \in Clients : Rw!Setting(c, id, col) =>
       /\ rowReq[c].seen.value[col] = rows[id].value[col]
       /\ rows[id].table = "attendance" /\ col = "clock_out" =>
            rows[id].value[col] = Null

AllKept ==
  \A id \in DOMAIN rows : \A col \in DOMAIN rows[id].value :
    <<id, col>> \notin rowRaced => Kept(id, col)

\* What Parts says of a request under way.
LEMMA RowRequestFields ==
  ASSUME Rw!TypeOK, NEW c \in Clients, rowReq[c] # Rw!Idle
  PROVE  /\ rowReq[c].pc = "write" /\ rowReq[c].row \in DOMAIN rows
         /\ rows[rowReq[c].row].table = rowReq[c].seen.table
         /\ DOMAIN rowReq[c].changes \subseteq DOMAIN rows[rowReq[c].row].value
         /\ DOMAIN rowReq[c].seen.value = DOMAIN rows[rowReq[c].row].value
         /\ DOMAIN last[rowReq[c].row] = DOMAIN rows[rowReq[c].row].value
<1>1. rowReq[c].row \in DOMAIN rows /\ RowOK(rowReq[c].row)
  BY TypeParts DEF Parts, RequestOK
<1>2. PICK table \in Rw!Tables : \E cols \in SUBSET Rw!Changeable(table) :
        rowReq[c] \in Rw!Request(table, cols) /\ rows[rowReq[c].row].table = table
  BY TypeParts DEF Parts, RequestOK
<1>3. PICK other \in Rw!Tables :
        /\ rows[rowReq[c].row] \in Rw!Row(other)
        /\ last[rowReq[c].row] \in [Rw!Changeable(other) -> Rw!Cells]
  BY <1>1 DEF RowOK
<1>4. other = table
  BY <1>2, <1>3 DEF Rw!Row
<1> QED
  BY <1>1, <1>2, <1>3, <1>4 DEF Rw!Request, Rw!Row

LEMMA CreateKeeps ==
  ASSUME Rw!TypeOK, AllKept, NEW id \in RowIds, NEW table \in Rw!Tables, NEW v \in Values,
         Rw!Create(id, table, v)
  PROVE  AllKept'
<1>1. /\ id \notin DOMAIN rows /\ DOMAIN last = DOMAIN rows /\ UNCHANGED <<rowReq, rowRaced>>
      /\ DOMAIN rows' = DOMAIN rows \cup {id} /\ last'[id] = rows'[id].value
      /\ \A i \in DOMAIN rows : rows'[i] = rows[i] /\ last'[i] = last[i]
  BY TypeParts DEF Rw!Create, Parts
<1>2. \A c \in Clients : \A col : ~Rw!Setting(c, id, col)
  BY <1>1, RowRequestFields DEF Rw!Setting
<1>3. \A c \in Clients : \A i, col : Rw!Setting(c, i, col)' = Rw!Setting(c, i, col)
  BY <1>1 DEF Rw!Setting
<1>4. ASSUME NEW col PROVE Kept(id, col)'
  BY <1>1, <1>2, <1>3 DEF Kept
<1>5. ASSUME NEW i \in DOMAIN rows, NEW col \in DOMAIN rows[i].value,
             <<i, col>> \notin rowRaced
      PROVE  Kept(i, col)'
  BY <1>1, <1>3, <1>5 DEF AllKept, Kept
<1> QED
  BY <1>1, <1>4, <1>5 DEF AllKept

LEMMA ReadKeeps ==
  ASSUME Rw!TypeOK, AllKept, NEW c \in Clients, NEW id \in RowIds, NEW table \in Rw!Tables,
         NEW cols \in SUBSET Rw!Changeable(table), NEW changes \in [cols -> Rw!Cells],
         Rw!Read(c, id, table, changes),
         table = "attendance" => rows[id].value["clock_out"] = Null
  PROVE  AllKept'
<1> SUFFICES ASSUME NEW i \in DOMAIN rows, NEW col \in DOMAIN rows[i].value,
                    <<i, col>> \notin rowRaced'
             PROVE  Kept(i, col)'
  BY DEF AllKept, Rw!Read
<1> DEFINE q == [pc |-> "write", row |-> id, changes |-> changes, seen |-> rows[id]]
<1>1. /\ rowReq[c] = Rw!Idle /\ rows[id].table = table
      /\ \A d \in Clients : rowReq'[d] = IF d = c THEN q ELSE rowReq[d]
      /\ UNCHANGED <<rows, last>> /\ q # Rw!Idle /\ q.row = id /\ q.changes = changes
      /\ q.seen = rows[id]
  BY TypeParts DEF Rw!Read, Parts, Rw!Idle
<1>2. rowRaced \subseteq rowRaced' /\ (i = id /\ col \in DOMAIN changes =>
                                   \A d \in Clients : ~Rw!Setting(d, id, col))
  BY DEF Rw!Read
<1>3. Kept(i, col)
  BY <1>2 DEF AllKept
<1> HIDE DEF q
<1>4. \A d \in Clients : d # c => Rw!Setting(d, i, col)' = Rw!Setting(d, i, col)
  BY <1>1 DEF Rw!Setting
<1>5. ~Rw!Setting(c, i, col) /\ (Rw!Setting(c, i, col)' => i = id /\ col \in DOMAIN changes)
  BY <1>1 DEF Rw!Setting
<1>6. CASE Rw!Setting(c, i, col)'
  <2>1. /\ i = id /\ rowReq'[c].seen = rows[id] /\ rows' = rows /\ last' = last
        /\ \A d \in Clients : Rw!Setting(d, i, col)' => d = c
    BY <1>1, <1>2, <1>4, <1>5, <1>6
  <2>2. rows[id].table = "attendance" /\ col = "clock_out" => rows[id].value[col] = Null
    BY <1>1
  <2> QED
    BY <1>3, <2>1, <2>2 DEF Kept
<1>7. CASE ~Rw!Setting(c, i, col)'
  <2>1. \A d \in Clients : Rw!Setting(d, i, col)' => Rw!Setting(d, i, col) /\ rowReq'[d] = rowReq[d]
    BY <1>1, <1>4, <1>7
  <2> QED
    BY <1>1, <1>3, <2>1 DEF Kept
<1> QED
  BY <1>6, <1>7

LEMMA WriteKeeps ==
  ASSUME Rw!TypeOK, AllKept, NEW c \in Clients, Rw!Write(c)
  PROVE  AllKept'
<1>1. PICK q : q = rowReq[c]
  OBVIOUS
<1>2. /\ q # Rw!Idle /\ q.row \in DOMAIN rows /\ DOMAIN last = DOMAIN rows
      /\ DOMAIN last[q.row] = DOMAIN rows[q.row].value
      /\ \E table \in Rw!Tables : rows[q.row] \in Rw!Row(table)
  BY <1>1, RowRequestFields, TypeParts DEF Rw!Write, Parts, RowOK, Rw!Idle
<1>3. /\ rows' = [rows EXCEPT ![q.row].value = Rw!Written(q, @)]
      /\ last' = [last EXCEPT ![q.row] =
                    [col \in DOMAIN @ |-> IF col \in DOMAIN q.changes THEN q.changes[col]
                                          ELSE @[col]]]
      /\ rowReq' = [rowReq EXCEPT ![c] = Rw!Idle] /\ UNCHANGED rowRaced
  BY <1>1 DEF Rw!Write
<1>4. /\ DOMAIN rows' = DOMAIN rows
      /\ rows'[q.row] = [rows[q.row] EXCEPT !.value = Rw!Written(q, rows[q.row].value)]
      /\ \A i \in DOMAIN rows : i # q.row => rows'[i] = rows[i] /\ last'[i] = last[i]
      /\ \A col \in DOMAIN last[q.row] :
           last'[q.row][col] = IF col \in DOMAIN q.changes THEN q.changes[col]
                               ELSE last[q.row][col]
  BY <1>2, <1>3
<1>5. /\ rows'[q.row].table = rows[q.row].table
      /\ rows'[q.row].value = Rw!Written(q, rows[q.row].value)
  BY <1>2, <1>4 DEF Rw!Row
<1>6. \A d \in Clients : rowReq'[d] = IF d = c THEN Rw!Idle ELSE rowReq[d]
  BY <1>3, TypeParts DEF Parts
<1>7. \A d \in Clients : \A i, col :
        Rw!Setting(d, i, col)' => d # c /\ Rw!Setting(d, i, col) /\ rowReq'[d] = rowReq[d]
  BY <1>6 DEF Rw!Setting
<1>8. ASSUME NEW i \in DOMAIN rows, NEW col \in DOMAIN rows[i].value,
             <<i, col>> \notin rowRaced
      PROVE  Kept(i, col)'
  <2>1. Kept(i, col)
    BY <1>8 DEF AllKept
  <2>2. CASE i # q.row
    BY <1>4, <1>7, <2>1, <2>2 DEF Kept
  <2>3. CASE i = q.row /\ col \in DOMAIN q.changes
    <3>1. Rw!Setting(c, i, col)
      BY <1>1, <1>2, <2>3 DEF Rw!Setting
    <3>2. q.seen.value[col] = rows[i].value[col]
      BY <1>1, <2>1, <3>1 DEF Kept
    <3>3. rows'[i].value[col] = q.changes[col]
      BY <1>5, <2>3, <3>2 DEF Rw!Written
    <3>4. last'[i][col] = q.changes[col]
      BY <1>2, <1>4, <2>3
    <3>5. \A d \in Clients : ~Rw!Setting(d, i, col)'
      BY <1>7, <2>1, <3>1 DEF Kept
    <3> QED
      BY <3>3, <3>4, <3>5 DEF Kept
  <2>4. CASE i = q.row /\ col \notin DOMAIN q.changes
    <3>1. rows'[i].value[col] = rows[i].value[col] /\ rows'[i].table = rows[i].table
      BY <1>5, <2>4 DEF Rw!Written
    <3>2. last'[i][col] = last[i][col]
      BY <1>2, <1>4, <2>4
    <3> QED
      BY <1>7, <2>1, <3>1, <3>2 DEF Kept
  <2> QED
    BY <2>2, <2>3, <2>4
<1>9. \A i \in DOMAIN rows : DOMAIN rows'[i].value = DOMAIN rows[i].value
  <2>1. DOMAIN rows'[q.row].value = DOMAIN rows[q.row].value
    BY <1>5 DEF Rw!Written
  <2> QED
    BY <1>4, <2>1
<1>10. DOMAIN rows' = DOMAIN rows /\ rowRaced' = rowRaced
  BY <1>3, <1>4
<1> QED
  BY <1>8, <1>9, <1>10 DEF AllKept

LEMMA KeptStep ==
  Rw!TypeOK /\ AllKept /\ [Rw!Next]_(Rw!vars) => AllKept'
<1> SUFFICES ASSUME Rw!TypeOK, AllKept, [Rw!Next]_(Rw!vars) PROVE AllKept'
  OBVIOUS
<1>1. ASSUME NEW c \in Clients, NEW id \in RowIds,
             Rw!Catalogue(c, id) \/ Rw!Staff(c, id) \/ Rw!Restaurant(c, id) \/ Rw!Guests(c, id)
      PROVE  AllKept'
  <2>1. ASSUME NEW table \in Rw!Tables, NEW v \in Values, Rw!Create(id, table, v) PROVE AllKept'
    BY <2>1, CreateKeeps
  <2>2. ASSUME NEW table \in Rw!Tables, NEW cols \in SUBSET Rw!Changeable(table),
               NEW changes \in [cols -> Rw!Cells], Rw!Read(c, id, table, changes),
               table = "attendance" => rows[id].value["clock_out"] = Null
        PROVE  AllKept'
    BY <2>2, ReadKeeps
  <2> QED
    BY <1>1, <2>1, <2>2, CreatesAndReads
<1>2. ASSUME NEW c \in Clients, Rw!Write(c) PROVE AllKept'
  BY <1>2, WriteKeeps
<1>3. ASSUME NEW c \in Clients, Rw!Fail(c) PROVE AllKept'
  <2>1. /\ \A d \in Clients : rowReq'[d] = IF d = c THEN Rw!Idle ELSE rowReq[d]
        /\ UNCHANGED <<rows, last, rowRaced>>
    BY <1>3, TypeParts DEF Rw!Fail, Parts
  <2>2. \A d \in Clients : \A i, col :
          Rw!Setting(d, i, col)' => Rw!Setting(d, i, col) /\ rowReq'[d] = rowReq[d]
    BY <2>1 DEF Rw!Setting
  <2> QED
    BY <2>1, <2>2 DEF AllKept, Kept
<1>4. CASE UNCHANGED Rw!vars
  BY <1>4 DEF Rw!vars, AllKept, Kept, Rw!Setting
<1> QED
  BY <1>1, <1>2, <1>3, <1>4 DEF Rw!Next

LEMMA KeptInit == Rw!Init => AllKept
BY DEF Rw!Init, AllKept

\* BaseRepository.update never undoes what another request wrote to another column
\* of the row, for any tables, columns and number of requests: a column no two
\* requests set at once holds what was last asked of it.
THEOREM RecordsFieldsKept == Rw!Spec => []Rw!FieldsKept
<1> DEFINE IInv == Rw!TypeOK /\ AllKept
<1>1. Rw!Init => IInv
  BY RecordsTypeInit, KeptInit
<1>2. IInv /\ [Rw!Next]_(Rw!vars) => IInv'
  BY RecordsTypeStep, KeptStep
<1>3. IInv => Rw!FieldsKept
  BY DEF AllKept, Kept, Rw!FieldsKept
<1> QED
  BY <1>1, <1>2, <1>3, PTL DEF Rw!Spec

LEMMA ClockedOutStep ==
  ASSUME Rw!TypeOK, AllKept, NEW c \in Clients, Rw!Write(c), NEW id \in DOMAIN rows,
         "clock_out" \in DOMAIN rows[id].value
  PROVE  Rw!StaysClockedOut(id)
<1> SUFFICES ASSUME rows[id].table = "attendance", <<id, "clock_out">> \notin rowRaced',
                    rows[id].value["clock_out"] # Null
             PROVE  rows'[id].value["clock_out"] = rows[id].value["clock_out"]
  BY DEF Rw!StaysClockedOut
<1>1. PICK q : q = rowReq[c]
  OBVIOUS
<1>2. /\ q # Rw!Idle /\ q.row \in DOMAIN rows
      /\ \E table \in Rw!Tables : rows[q.row] \in Rw!Row(table)
  BY <1>1, RowRequestFields, TypeParts DEF Rw!Write, Parts, RowOK, Rw!Idle
<1>3. rows' = [rows EXCEPT ![q.row].value = Rw!Written(q, @)] /\ rowRaced' = rowRaced
  BY <1>1 DEF Rw!Write
<1>4. CASE id # q.row
  BY <1>2, <1>3, <1>4
<1>5. CASE id = q.row
  <2>1. rows'[id].value = Rw!Written(q, rows[id].value)
    BY <1>2, <1>3, <1>5 DEF Rw!Row
  <2>2. ~Rw!Setting(c, id, "clock_out")
    BY <1>3 DEF AllKept, Kept
  <2>3. "clock_out" \notin DOMAIN q.changes
    BY <1>1, <1>2, <1>5, <2>2 DEF Rw!Setting
  <2> QED
    BY <2>1, <2>3 DEF Rw!Written
<1> QED
  BY <1>4, <1>5

\* "Already clocked out": the time of an attendance record that was clocked out
\* once stays, unless two clock-outs overlapped.
THEOREM RecordsClockedOutOnce == Rw!Spec => Rw!ClockedOutOnce
<1> DEFINE IInv == Rw!TypeOK /\ AllKept
           A == \A id \in DOMAIN rows : Rw!StaysClockedOut(id)
<1>1. Rw!Init => IInv
  BY RecordsTypeInit, KeptInit
<1>2. IInv /\ [Rw!Next]_(Rw!vars) => IInv'
  BY RecordsTypeStep, KeptStep
<1>3. IInv /\ [Rw!Next]_(Rw!vars) => [A]_(Rw!vars)
  <2> SUFFICES ASSUME Rw!TypeOK, AllKept, Rw!Next, NEW id \in DOMAIN rows,
                      rows[id].table = "attendance"
               PROVE  Rw!StaysClockedOut(id)
    BY DEF Rw!StaysClockedOut
  <2>1. "clock_out" \in DOMAIN rows[id].value
    <3>1. PICK table \in Rw!Tables : rows[id] \in Rw!Row(table)
      BY TypeParts DEF Parts, RowOK
    <3>2. table = "attendance"
      BY <3>1 DEF Rw!Row
    <3> QED
      BY <3>1, <3>2, Schemas, ServicesAssumption DEF Rw!Row
  <2>2. ASSUME NEW c \in Clients, Rw!Write(c) PROVE Rw!StaysClockedOut(id)
    BY <2>1, <2>2, ClockedOutStep
  <2>3. ASSUME rows'[id] = rows[id] PROVE Rw!StaysClockedOut(id)
    BY <2>3 DEF Rw!StaysClockedOut
  <2>4. ASSUME NEW c \in Clients, NEW i \in RowIds,
               Rw!Catalogue(c, i) \/ Rw!Staff(c, i) \/ Rw!Restaurant(c, i) \/ Rw!Guests(c, i)
        PROVE  rows'[id] = rows[id]
    <3>1. ASSUME NEW table, NEW v, Rw!Create(i, table, v) PROVE rows'[id] = rows[id]
      BY <3>1 DEF Rw!Create
    <3>2. ASSUME NEW table, NEW changes, Rw!Read(c, i, table, changes)
          PROVE  rows'[id] = rows[id]
      BY <3>2 DEF Rw!Read
    <3> QED
      BY <2>4, <3>1, <3>2, CreatesAndReads
  <2>5. ASSUME NEW c \in Clients, Rw!Fail(c) PROVE rows'[id] = rows[id]
    BY <2>5 DEF Rw!Fail
  <2> QED
    BY <2>2, <2>3, <2>4, <2>5 DEF Rw!Next
<1> QED
  BY <1>1, <1>2, <1>3, PTL DEF Rw!Spec, Rw!ClockedOutOnce
-----------------------------------------------------------------------------
(* Reviews *)

\* What the fields of a request hold, by its step.
LEMMA ReviewRequestFields ==
  ASSUME NEW q \in Rev!Request
  PROVE  /\ q # Rev!Idle => q.review \in ReviewIds
         /\ q.pc = "idle" <=> q = Rev!Idle
         /\ q.pc \in {"idle", "created", "score", "announce"}
BY DEF Rev!Request, Rev!Idle

\* Every comment has a label.
LEMMA LabelIsLabel ==
  ASSUME NEW words PROVE Rev!Label(words) \in Rev!Labels
BY DEF Rev!Label, Rev!Labels

LEMMA ReviewsTypeInit == Rev!Init => Rev!TypeOK
<1> SUFFICES ASSUME Rev!Init PROVE Rev!TypeOK
  OBVIOUS
<1>1. comment \in [{} -> Rev!Comment]
  BY DEF Rev!Init
<1>2. \A r \in ReviewIds : <<>> \in Seq(Rev!Event)
  OBVIOUS
<1> QED
  BY <1>1, <1>2 DEF Rev!Init, Rev!TypeOK, Rev!Request, Rev!Idle

\* What a step of request c does to the requests.
LEMMA ReviewRequestKept ==
  ASSUME Rev!TypeOK, NEW c \in Clients, NEW q \in Rev!Request,
         revReq' = [revReq EXCEPT ![c] = q],
         DOMAIN comment \subseteq DOMAIN comment',
         q # Rev!Idle => q.review \in DOMAIN comment'
  PROVE  /\ revReq' \in [Clients -> Rev!Request]
         /\ \A d \in Clients : revReq'[d] # Rev!Idle => revReq'[d].review \in DOMAIN comment'
BY DEF Rev!TypeOK

\* A request sends again: it stays where it is.
LEMMA ReviewSentAgain ==
  ASSUME NEW q \in Rev!Request, q # Rev!Idle
  PROVE  /\ [q EXCEPT !.sent = TRUE] \in Rev!Request
         /\ [q EXCEPT !.sent = TRUE] # Rev!Idle
         /\ [q EXCEPT !.sent = TRUE].review = q.review
         /\ [q EXCEPT !.sent = TRUE].pc = q.pc
BY DEF Rev!Request, Rev!Idle

LEMMA ReviewsTypeStep == Rev!TypeOK /\ [Rev!Next]_(Rev!vars) => Rev!TypeOK'
<1> SUFFICES ASSUME Rev!TypeOK, [Rev!Next]_(Rev!vars) PROVE Rev!TypeOK'
  OBVIOUS
<1>0. /\ \A c \in Clients : revReq[c] \in Rev!Request
      /\ \A r \in DOMAIN comment : r \in ReviewIds /\ comment[r] \in Rev!Comment
      /\ Rev!Idle \in Rev!Request
  BY DEF Rev!TypeOK, Rev!Request
<1>1. ASSUME NEW r \in ReviewIds, NEW event \in Rev!Event, Rev!Publish(r, event)
      PROVE  revEvents' \in [ReviewIds -> Seq(Rev!Event)]
  <2>1. revEvents \in [ReviewIds -> Seq(Rev!Event)] /\ Append(revEvents[r], event) \in Seq(Rev!Event)
    BY DEF Rev!TypeOK
  <2> QED
    BY <1>1, <2>1 DEF Rev!Publish
<1>2. ASSUME NEW c \in Clients, NEW r \in ReviewIds, NEW words \in Rev!Comment,
             Rev!Create(c, r, words)
      PROVE  Rev!TypeOK'
  <2>1. comment' \in [DOMAIN comment \cup {r} -> Rev!Comment]
    BY <1>0, <1>2 DEF Rev!Create
  <2>2. \E ids \in SUBSET ReviewIds : comment' \in [ids -> Rev!Comment]
    BY <1>0, <2>1
  <2>3. PICK q \in Rev!Request : q = [pc |-> "created", review |-> r, sent |-> FALSE]
    BY DEF Rev!Request
  <2>4. revReq' = [revReq EXCEPT ![c] = q]
    BY <1>2, <2>3 DEF Rev!Create, Rev!Continue
  <2>5. /\ revReq' \in [Clients -> Rev!Request]
        /\ \A d \in Clients : revReq'[d] # Rev!Idle => revReq'[d].review \in DOMAIN comment'
    BY <2>1, <2>3, <2>4, ReviewRequestKept
  <2> QED
    BY <1>2, <2>1, <2>2, <2>5 DEF Rev!Create, Rev!TypeOK
<1>3. ASSUME NEW c \in Clients, NEW pc \in {"score", "announce"}, revReq[c] # Rev!Idle,
             Rev!Continue(c, pc, revReq[c].review), comment' = comment
      PROVE  /\ revReq' \in [Clients -> Rev!Request]
             /\ \A d \in Clients : revReq'[d] # Rev!Idle => revReq'[d].review \in DOMAIN comment'
  <2>1. revReq[c].review \in DOMAIN comment
    BY <1>3 DEF Rev!TypeOK
  <2>2. PICK q \in Rev!Request : q = [pc |-> pc, review |-> revReq[c].review, sent |-> FALSE]
    BY <1>0, <2>1 DEF Rev!Request
  <2>3. revReq' = [revReq EXCEPT ![c] = q] /\ q.review \in DOMAIN comment'
    BY <1>3, <2>1, <2>2 DEF Rev!Continue
  <2> QED
    BY <1>3, <2>3, ReviewRequestKept
<1>4. ASSUME NEW c \in Clients, revReq' = [revReq EXCEPT ![c] = Rev!Idle], comment' = comment
      PROVE  /\ revReq' \in [Clients -> Rev!Request]
             /\ \A d \in Clients : revReq'[d] # Rev!Idle => revReq'[d].review \in DOMAIN comment'
  BY <1>0, <1>4, ReviewRequestKept
<1>5. ASSUME NEW c \in Clients, Rev!PublishCreated(c) PROVE Rev!TypeOK'
  <2>1. revReq[c] # Rev!Idle /\ revReq[c].review \in DOMAIN comment
    BY <1>5 DEF Rev!PublishCreated, Rev!TypeOK, Rev!Idle
  <2>2. Rev!Created \in Rev!Event
    BY DEF Rev!Created, Rev!Event
  <2>3. revEvents' \in [ReviewIds -> Seq(Rev!Event)]
    BY <1>0, <1>1, <1>5, <2>1, <2>2 DEF Rev!PublishCreated
  <2> QED
    BY <1>3, <1>5, <2>1, <2>3 DEF Rev!PublishCreated, Rev!TypeOK
<1>6. ASSUME NEW c \in Clients, Rev!WriteSentiment(c) PROVE Rev!TypeOK'
  <2>1. revReq[c] # Rev!Idle /\ revReq[c].review \in DOMAIN comment
    BY <1>6 DEF Rev!WriteSentiment, Rev!TypeOK, Rev!Idle
  <2>2. sentiment' \in [ReviewIds -> Rev!Labels \cup {"none"}]
    BY <1>6, LabelIsLabel DEF Rev!WriteSentiment, Rev!TypeOK
  <2> QED
    BY <1>3, <1>6, <2>1, <2>2 DEF Rev!WriteSentiment, Rev!TypeOK
<1>7. ASSUME NEW c \in Clients, Rev!PublishSentiment(c) PROVE Rev!TypeOK'
  <2>1. revReq[c] # Rev!Idle /\ revReq[c].review \in DOMAIN comment
    BY <1>7 DEF Rev!PublishSentiment, Rev!TypeOK, Rev!Idle
  <2>2. Rev!Scored(Rev!Label(comment[revReq[c].review])) \in Rev!Event
    BY LabelIsLabel DEF Rev!Scored, Rev!Event
  <2>3. revEvents' \in [ReviewIds -> Seq(Rev!Event)]
    BY <1>0, <1>1, <1>7, <2>1, <2>2 DEF Rev!PublishSentiment
  <2> QED
    BY <1>4, <1>7, <2>3 DEF Rev!PublishSentiment, Rev!TypeOK
<1>8. ASSUME NEW c \in Clients, Rev!Fail(c) PROVE Rev!TypeOK'
  BY <1>4, <1>8 DEF Rev!Fail, Rev!TypeOK
<1>10. ASSUME NEW c \in Clients, Rev!PublishUnanswered(c) PROVE Rev!TypeOK'
  <2>1. revReq[c] # Rev!Idle /\ revReq[c].review \in DOMAIN comment
    BY <1>10 DEF Rev!PublishUnanswered, Rev!TypeOK, Rev!Idle
  <2>2. PICK event \in Rev!Event : Rev!Publish(revReq[c].review, event)
    <3>1. Rev!Created \in Rev!Event
      BY DEF Rev!Created, Rev!Event
    <3>2. Rev!Scored(Rev!Label(comment[revReq[c].review])) \in Rev!Event
      BY LabelIsLabel DEF Rev!Scored, Rev!Event
    <3> QED
      BY <1>10, <3>1, <3>2 DEF Rev!PublishUnanswered
  <2>3. revEvents' \in [ReviewIds -> Seq(Rev!Event)]
    BY <1>0, <1>1, <2>1, <2>2
  <2>4. PICK q \in Rev!Request : /\ revReq' = [revReq EXCEPT ![c] = q]
                                 /\ q.review = revReq[c].review
    BY <1>0, <1>10, <2>1, ReviewSentAgain DEF Rev!PublishUnanswered
  <2>5. /\ revReq' \in [Clients -> Rev!Request]
        /\ \A d \in Clients : revReq'[d] # Rev!Idle => revReq'[d].review \in DOMAIN comment'
    BY <1>10, <2>1, <2>4, ReviewRequestKept DEF Rev!PublishUnanswered
  <2> QED
    BY <1>10, <2>3, <2>5 DEF Rev!PublishUnanswered, Rev!TypeOK
<1>9. CASE UNCHANGED Rev!vars
  BY <1>9 DEF Rev!vars, Rev!TypeOK
<1> QED
  BY <1>2, <1>5, <1>6, <1>7, <1>8, <1>9, <1>10 DEF Rev!Next

\* Every row, request and event of the reviews is of its kind, and every comment
\* has one of the three labels.
THEOREM ReviewsType == Rev!Spec => []Rev!TypeOK
BY ReviewsTypeInit, ReviewsTypeStep, PTL DEF Rev!Spec
-----------------------------------------------------------------------------
(* The topic of the reviews *)

OnlyCreated(s) == \A n \in DOMAIN s : s[n] = Rev!Created

\* A topic that tells of its review first and, from some event on, of one label:
\* each of the two perhaps more than once, where the producer sent it again.
Story(s, e) ==
  /\ \A n \in DOMAIN s : s[n] \in {Rev!Created, e}
  /\ s # <<>> => s[1] = Rev!Created
  /\ \A n, m \in DOMAIN s : n < m /\ s[m] = Rev!Created => s[n] = Rev!Created

\* The first part of a story.
LEMMA CreatedMore ==
  ASSUME NEW s \in Seq(Rev!Event), OnlyCreated(s)
  PROVE  /\ OnlyCreated(Append(s, Rev!Created)) /\ Append(s, Rev!Created) # <<>>
         /\ \A e : Story(s, e)
<1>1. /\ DOMAIN Append(s, Rev!Created) = 1..(Len(s) + 1) /\ DOMAIN s = 1..Len(s)
      /\ Len(s) \in Nat
      /\ \A n \in 1..Len(s) : Append(s, Rev!Created)[n] = s[n]
      /\ Append(s, Rev!Created)[Len(s) + 1] = Rev!Created
  <2>1. Rev!Created \in Rev!Event
    BY DEF Rev!Created, Rev!Event
  <2> QED
    BY <2>1
<1>2. OnlyCreated(Append(s, Rev!Created))
  BY <1>1 DEF OnlyCreated
<1>3. Append(s, Rev!Created) # <<>>
  BY <1>1
<1>4. s # <<>> => 1 \in DOMAIN s
  BY <1>1, EmptySeq
<1> QED
  BY <1>2, <1>3, <1>4 DEF OnlyCreated, Story

\* And its second.
LEMMA StoryMore ==
  ASSUME NEW s \in Seq(Rev!Event), NEW e \in Rev!Event, e # Rev!Created,
         Story(s, e), s # <<>>
  PROVE  /\ Story(Append(s, e), e) /\ Append(s, e) # <<>>
         /\ \E n \in DOMAIN Append(s, e) : Append(s, e)[n] = e
<1>1. /\ DOMAIN Append(s, e) = 1..(Len(s) + 1) /\ DOMAIN s = 1..Len(s)
      /\ Len(s) \in Nat
      /\ \A n \in 1..Len(s) : Append(s, e)[n] = s[n]
      /\ Append(s, e)[Len(s) + 1] = e
  OBVIOUS
<1>2. Len(s) # 0
  BY EmptySeq
<1>3. \A n \in DOMAIN Append(s, e) : Append(s, e)[n] \in {Rev!Created, e}
  BY <1>1 DEF Story
<1>4. Append(s, e)[1] = Rev!Created
  BY <1>1, <1>2 DEF Story
<1>5. \A n, m \in DOMAIN Append(s, e) :
        n < m /\ Append(s, e)[m] = Rev!Created => Append(s, e)[n] = Rev!Created
  BY <1>1 DEF Story
<1>6. Len(s) + 1 \in DOMAIN Append(s, e)
  BY <1>1
<1> QED
  BY <1>1, <1>3, <1>4, <1>5, <1>6 DEF Story

LabelEvent(r) == Rev!Scored(Rev!Label(comment[r]))

Labelled(r) == sentiment[r] = Rev!Label(comment[r])

\* How far a review has come: before its row, and by the step of the one request
\* on it; "done" once that request has ended well.
At(r, pc) ==
  \/ pc = "created" /\ sentiment[r] = "none" /\ OnlyCreated(revEvents[r])
  \/ pc = "score" /\ sentiment[r] = "none" /\ OnlyCreated(revEvents[r])
       /\ (connected => revEvents[r] # <<>>)
  \/ pc = "announce" /\ Labelled(r) /\ Story(revEvents[r], LabelEvent(r))
       /\ (connected => revEvents[r] # <<>>)
  \/ pc = "done" /\ Labelled(r) /\ Story(revEvents[r], LabelEvent(r))
       /\ (connected => \E n \in DOMAIN revEvents[r] : revEvents[r][n] = LabelEvent(r))

Unborn(r) == sentiment[r] = "none" /\ revEvents[r] = <<>>

Progress(r) ==
  IF r \notin DOMAIN comment
  THEN Unborn(r)
  ELSE /\ \A c, d \in Clients : Rev!WorksOn(c, r) /\ Rev!WorksOn(d, r) => c = d
       /\ \A c \in Clients : Rev!WorksOn(c, r) => At(r, revReq[c].pc)
       /\ (\A c \in Clients : ~Rev!WorksOn(c, r)) =>
            \/ At(r, "done")
            \/ r \in revBroken /\ \E pc \in {"created", "score", "announce"} : At(r, pc)

AllProgress == \A r \in ReviewIds : Progress(r)

\* Labels and their events are told from the first event.
LEMMA LabelEventIs ==
  ASSUME NEW r PROVE LabelEvent(r) \in Rev!Event /\ LabelEvent(r) # Rev!Created
<1>1. Rev!Label(comment[r]) \in Rev!Labels
  BY LabelIsLabel
<1> QED
  BY <1>1 DEF LabelEvent, Rev!Scored, Rev!Created, Rev!Event

\* A step of the one request on a review takes it to the next place, or leaves it.
LEMMA ReviewOwnStep ==
  ASSUME Rev!TypeOK, NEW r \in DOMAIN comment, Progress(r),
         NEW c \in Clients, Rev!WorksOn(c, r), NEW q \in Rev!Request,
         revReq' = [revReq EXCEPT ![c] = q], DOMAIN comment' = DOMAIN comment,
         q # Rev!Idle => q.review = r /\ At(r, q.pc)',
         q = Rev!Idle =>
           \/ At(r, "done")'
           \/ r \in revBroken' /\ \E pc \in {"created", "score", "announce"} : At(r, pc)'
  PROVE  Progress(r)'
<1>1. /\ \A d \in Clients : revReq'[d] = IF d = c THEN q ELSE revReq[d]
      /\ \A d \in Clients : Rev!WorksOn(d, r) => d = c
  BY DEF Rev!TypeOK, Progress
<1>2. \A d \in Clients : Rev!WorksOn(d, r)' <=> d = c /\ q # Rev!Idle
  BY <1>1 DEF Rev!WorksOn
<1>3. Rev!WorksOn(c, r)' => At(r, revReq[c].pc)'
  <2>1. revReq'[c] = q
    BY <1>1
  <2> QED
    BY <1>2, <2>1 DEF At, Labelled, LabelEvent
<1> QED
  BY <1>2, <1>3 DEF Progress

\* A step of a request on another review leaves this one where it is.
LEMMA ReviewOtherStep ==
  ASSUME Rev!TypeOK, NEW r \in ReviewIds, Progress(r),
         NEW c \in Clients, ~Rev!WorksOn(c, r), NEW q \in Rev!Request,
         revReq' = [revReq EXCEPT ![c] = q], q # Rev!Idle => q.review # r,
         r \in DOMAIN comment' <=> r \in DOMAIN comment,
         comment'[r] = comment[r], sentiment'[r] = sentiment[r],
         revEvents'[r] = revEvents[r], connected' = connected, revBroken \subseteq revBroken'
  PROVE  Progress(r)'
<1>1. \A d \in Clients : revReq'[d] = IF d = c THEN q ELSE revReq[d]
  BY DEF Rev!TypeOK
<1>2. \A d \in Clients : /\ Rev!WorksOn(d, r)' <=> Rev!WorksOn(d, r)
                         /\ Rev!WorksOn(d, r) => revReq'[d] = revReq[d]
  BY <1>1 DEF Rev!WorksOn
<1>3. \A pc : At(r, pc) => At(r, pc)'
  BY DEF At, Labelled, LabelEvent
<1>4. \A d \in Clients : Rev!WorksOn(d, r) => (At(r, revReq[d].pc) => At(r, revReq[d].pc)')
  BY <1>2 DEF At, Labelled, LabelEvent
<1> QED
  BY <1>2, <1>3, <1>4 DEF Progress, Unborn

LEMMA ProgressStep == Rev!TypeOK /\ AllProgress /\ [Rev!Next]_(Rev!vars) => AllProgress'
<1> SUFFICES ASSUME Rev!TypeOK, AllProgress, [Rev!Next]_(Rev!vars), NEW r \in ReviewIds
             PROVE  Progress(r)'
  BY DEF AllProgress
<1>0. /\ Progress(r) /\ Rev!Idle \in Rev!Request
      /\ \A c \in Clients : revReq[c] \in Rev!Request
      /\ \A c \in Clients : revReq[c] # Rev!Idle => revReq[c].review \in DOMAIN comment
      /\ DOMAIN comment \subseteq ReviewIds
      /\ revEvents \in [ReviewIds -> Seq(Rev!Event)]
      /\ sentiment \in [ReviewIds -> Rev!Labels \cup {"none"}]
  BY DEF AllProgress, Rev!TypeOK, Rev!Request
<1>a. ASSUME NEW event, NEW x \in ReviewIds, Rev!Publish(x, event)
      PROVE  revEvents'[x] = IF connected THEN Append(revEvents[x], event) ELSE revEvents[x]
  BY <1>0, <1>a DEF Rev!Publish
<1>c. revEvents[r] \in Seq(Rev!Event)
  BY <1>0
<1>b. ASSUME NEW event, NEW x, Rev!Publish(x, event), x # r
      PROVE  revEvents'[r] = revEvents[r]
  BY <1>0, <1>b DEF Rev!Publish
<1>1. ASSUME NEW c \in Clients, NEW x \in ReviewIds, NEW words \in Rev!Comment,
             Rev!Create(c, x, words)
      PROVE  Progress(r)'
  <2>1. PICK q \in Rev!Request : q = [pc |-> "created", review |-> x, sent |-> FALSE]
    BY DEF Rev!Request
  <2>2. /\ revReq' = [revReq EXCEPT ![c] = q] /\ revReq[c] = Rev!Idle /\ q # Rev!Idle
        /\ DOMAIN comment' = DOMAIN comment \cup {x} /\ x \notin DOMAIN comment
        /\ \A y \in DOMAIN comment : comment'[y] = comment[y]
        /\ UNCHANGED <<sentiment, revEvents, connected, revBroken>>
    BY <1>1, <2>1 DEF Rev!Create, Rev!Continue, Rev!Idle
  <2>3. CASE r = x
    <3>1. /\ \A d \in Clients : revReq'[d] = IF d = c THEN q ELSE revReq[d]
          /\ \A d \in Clients : ~Rev!WorksOn(d, r)
      BY <1>0, <2>2, <2>3 DEF Rev!TypeOK, Rev!WorksOn
    <3>2. /\ revReq'[c].pc = "created"
          /\ \A d \in Clients : Rev!WorksOn(d, r)' <=> d = c
      BY <2>1, <2>2, <2>3, <3>1 DEF Rev!WorksOn
    <3>3. revEvents[r] = <<>> /\ sentiment[r] = "none"
      BY <1>0, <2>2, <2>3 DEF Progress, Unborn
    <3>4. At(r, revReq[c].pc)'
      BY <2>2, <3>2, <3>3 DEF At, OnlyCreated
    <3> QED
      BY <2>2, <2>3, <3>2, <3>4 DEF Progress
  <2>4. CASE r # x /\ r \in DOMAIN comment
    <3>1. ~Rev!WorksOn(c, r)
      BY <2>2 DEF Rev!WorksOn
    <3> QED
      BY <1>0, <2>1, <2>2, <2>4, <3>1, ReviewOtherStep
  <2>5. CASE r # x /\ r \notin DOMAIN comment
    <3>1. Unborn(r)
      BY <1>0, <2>5 DEF Progress
    <3>2. Unborn(r)'
      BY <2>2, <3>1 DEF Unborn
    <3> QED
      BY <2>2, <2>5, <3>2 DEF Progress
  <2> QED
    BY <2>3, <2>4, <2>5
<1>2. ASSUME NEW c \in Clients, NEW x, x = revReq[c].review, NEW q \in Rev!Request,
             revReq' = [revReq EXCEPT ![c] = q], revReq[c] # Rev!Idle,
             q # Rev!Idle => q.review = x,
             UNCHANGED <<comment, connected>>, revBroken \subseteq revBroken',
             r # x => sentiment'[r] = sentiment[r] /\ revEvents'[r] = revEvents[r],
             r = x => \/ q # Rev!Idle /\ At(r, q.pc)'
                      \/ q = Rev!Idle /\
                           \/ At(r, "done")'
                           \/ /\ r \in revBroken'
                              /\ \E pc \in {"created", "score", "announce"} : At(r, pc)'
      PROVE  Progress(r)'
  <2>1. CASE r # x /\ r \in DOMAIN comment
    BY <1>0, <1>2, <2>1, ReviewOtherStep DEF Rev!WorksOn
  <2>2. CASE r # x /\ r \notin DOMAIN comment
    <3>1. Unborn(r)
      BY <1>0, <2>2 DEF Progress
    <3>2. Unborn(r)'
      BY <1>2, <2>2, <3>1 DEF Unborn
    <3> QED
      BY <1>2, <2>2, <3>2 DEF Progress
  <2>3. CASE r = x
    <3>1. Rev!WorksOn(c, r) /\ r \in DOMAIN comment /\ DOMAIN comment' = DOMAIN comment
      BY <1>0, <1>2, <2>3 DEF Rev!WorksOn
    <3>2. q # Rev!Idle => q.review = r /\ At(r, q.pc)'
      BY <1>2, <2>3
    <3>3. q = Rev!Idle =>
            \/ At(r, "done")'
            \/ r \in revBroken' /\ \E pc \in {"created", "score", "announce"} : At(r, pc)'
      BY <1>2, <2>3
    <3> QED
      BY <1>0, <1>2, <3>1, <3>2, <3>3, ReviewOwnStep
  <2> QED
    BY <2>1, <2>2, <2>3
<1>3. ASSUME NEW c \in Clients, revReq[c] # Rev!Idle, revReq[c].review = r
      PROVE  At(r, revReq[c].pc) /\ r \in DOMAIN comment
  BY <1>0, <1>3 DEF Progress, Rev!WorksOn
<1>4. ASSUME NEW c \in Clients, Rev!PublishCreated(c) PROVE Progress(r)'
  <2>0. PICK x : x = revReq[c].review
    OBVIOUS
  <2>1. revReq[c] # Rev!Idle /\ revReq[c].pc = "created" /\ x \in ReviewIds
    BY <1>0, <1>4, <2>0 DEF Rev!PublishCreated, Rev!Idle
  <2>2. PICK q \in Rev!Request : q = [pc |-> "score", review |-> x, sent |-> FALSE]
    BY <2>1 DEF Rev!Request
  <2>3. /\ revReq' = [revReq EXCEPT ![c] = q] /\ q # Rev!Idle /\ q.review = x
        /\ Rev!Publish(x, Rev!Created) /\ UNCHANGED <<comment, sentiment, connected, revBroken>>
    BY <1>4, <2>0, <2>2 DEF Rev!PublishCreated, Rev!Continue, Rev!Idle
  <2>4. ASSUME r = x PROVE At(r, q.pc)'
    <3>1. OnlyCreated(revEvents[r]) /\ sentiment[r] = "none"
      BY <1>3, <2>0, <2>1, <2>4 DEF At
    <3>2. revEvents'[r] = IF connected THEN Append(revEvents[r], Rev!Created) ELSE revEvents[r]
      BY <1>a, <2>1, <2>3, <2>4
    <3>3. OnlyCreated(revEvents'[r]) /\ (connected => revEvents'[r] # <<>>)
      BY <1>c, <3>1, <3>2, CreatedMore
    <3> QED
      BY <2>2, <2>3, <2>4, <3>1, <3>3 DEF At, OnlyCreated
  <2>5. r # x => revEvents'[r] = revEvents[r]
    BY <1>b, <2>3
  <2> QED
    BY <1>2, <2>0, <2>1, <2>3, <2>4, <2>5
<1>5. ASSUME NEW c \in Clients, Rev!WriteSentiment(c) PROVE Progress(r)'
  <2>0. PICK x : x = revReq[c].review
    OBVIOUS
  <2>1. revReq[c] # Rev!Idle /\ revReq[c].pc = "score" /\ x \in ReviewIds
    BY <1>0, <1>5, <2>0 DEF Rev!WriteSentiment, Rev!Idle
  <2>2. PICK q \in Rev!Request : q = [pc |-> "announce", review |-> x, sent |-> FALSE]
    BY <2>1 DEF Rev!Request
  <2>3. /\ revReq' = [revReq EXCEPT ![c] = q] /\ q # Rev!Idle /\ q.review = x
        /\ sentiment' = [sentiment EXCEPT ![x] = Rev!Label(comment[x])]
        /\ UNCHANGED <<comment, revEvents, connected, revBroken>>
    BY <1>5, <2>0, <2>2 DEF Rev!WriteSentiment, Rev!Continue, Rev!Idle
  <2>4. ASSUME r = x PROVE At(r, q.pc)'
    <3>1. OnlyCreated(revEvents[r]) /\ (connected => revEvents[r] # <<>>)
      BY <1>3, <2>0, <2>1, <2>4 DEF At
    <3>3. Story(revEvents[r], LabelEvent(r))
      BY <1>c, <3>1, CreatedMore
    <3>2. Labelled(r)'
      BY <1>0, <2>1, <2>3, <2>4 DEF Labelled
    <3> QED
      BY <2>2, <2>3, <3>1, <3>2, <3>3 DEF At, Story, LabelEvent
  <2>5. r # x => sentiment'[r] = sentiment[r]
    BY <1>0, <2>3
  <2> QED
    BY <1>2, <2>0, <2>1, <2>3, <2>4, <2>5
<1>6. ASSUME NEW c \in Clients, Rev!PublishSentiment(c) PROVE Progress(r)'
  <2>0. PICK x : x = revReq[c].review
    OBVIOUS
  <2>1. revReq[c] # Rev!Idle /\ revReq[c].pc = "announce" /\ x \in ReviewIds
    BY <1>0, <1>6, <2>0 DEF Rev!PublishSentiment, Rev!Idle
  <2>2. /\ revReq' = [revReq EXCEPT ![c] = Rev!Idle] /\ Rev!Publish(x, LabelEvent(x))
        /\ UNCHANGED <<comment, sentiment, connected, revBroken>>
    BY <1>6, <2>0 DEF Rev!PublishSentiment, LabelEvent
  <2>3. ASSUME r = x PROVE At(r, "done")'
    <3>1. /\ Labelled(r) /\ Story(revEvents[r], LabelEvent(r))
          /\ connected => revEvents[r] # <<>>
      BY <1>3, <2>0, <2>1, <2>3 DEF At
    <3>2. revEvents'[r] = IF connected THEN Append(revEvents[r], LabelEvent(r)) ELSE revEvents[r]
      BY <1>a, <2>1, <2>2, <2>3
    <3>3. /\ Story(revEvents'[r], LabelEvent(r))
          /\ connected => \E n \in DOMAIN revEvents'[r] : revEvents'[r][n] = LabelEvent(r)
      BY <1>c, <3>1, <3>2, StoryMore, LabelEventIs
    <3> QED
      BY <2>2, <3>1, <3>3 DEF At, Labelled, LabelEvent, Story
  <2>4. r # x => revEvents'[r] = revEvents[r]
    BY <1>b, <2>2
  <2> QED
    BY <1>0, <1>2, <2>0, <2>1, <2>2, <2>3, <2>4
<1>7. ASSUME NEW c \in Clients, Rev!Fail(c) PROVE Progress(r)'
  <2>0. PICK x : x = revReq[c].review
    OBVIOUS
  <2>1. /\ revReq[c] # Rev!Idle /\ revReq' = [revReq EXCEPT ![c] = Rev!Idle]
        /\ revBroken' = revBroken \cup {x} /\ UNCHANGED <<comment, sentiment, revEvents, connected>>
    BY <1>7, <2>0 DEF Rev!Fail
  <2>2. ASSUME r = x
        PROVE  r \in revBroken' /\ \E pc \in {"created", "score", "announce"} : At(r, pc)'
    <3>1. PICK pc \in {"created", "score", "announce"} : At(r, pc)
      BY <1>0, <1>3, <2>0, <2>1, <2>2, ReviewRequestFields
    <3>2. At(r, pc)'
      BY <2>1, <3>1 DEF At, Labelled, LabelEvent
    <3> QED
      BY <2>1, <2>2, <3>2
  <2> QED
    BY <1>0, <1>2, <2>0, <2>1, <2>2
<1>9. ASSUME NEW c \in Clients, Rev!PublishUnanswered(c) PROVE Progress(r)'
  <2>0. PICK x : x = revReq[c].review
    OBVIOUS
  <2>1. /\ revReq[c] # Rev!Idle /\ x \in ReviewIds /\ connected
        /\ revReq[c].pc \in {"created", "announce"}
    BY <1>0, <1>9, <2>0 DEF Rev!PublishUnanswered, Rev!Idle
  <2>2. PICK q \in Rev!Request : /\ revReq' = [revReq EXCEPT ![c] = q]
                                 /\ q # Rev!Idle /\ q.review = x /\ q.pc = revReq[c].pc
    BY <1>0, <1>9, <2>0, <2>1, ReviewSentAgain DEF Rev!PublishUnanswered
  <2>3. /\ Rev!Publish(x, IF revReq[c].pc = "created" THEN Rev!Created ELSE LabelEvent(x))
        /\ UNCHANGED <<comment, sentiment, connected, revBroken>>
    BY <1>9, <2>0 DEF Rev!PublishUnanswered, LabelEvent
  <2>4. ASSUME r = x PROVE At(r, q.pc)'
    <3>1. At(r, revReq[c].pc)
      BY <1>3, <2>0, <2>1, <2>4
    <3>2. CASE revReq[c].pc = "created"
      <4>1. OnlyCreated(revEvents[r]) /\ sentiment[r] = "none"
        BY <3>1, <3>2 DEF At
      <4>2. revEvents'[r] = Append(revEvents[r], Rev!Created)
        BY <1>a, <2>1, <2>3, <2>4, <3>2
      <4>3. OnlyCreated(revEvents'[r])
        BY <1>c, <4>1, <4>2, CreatedMore
      <4> QED
        BY <2>2, <2>3, <3>2, <4>1, <4>3 DEF At, OnlyCreated
    <3>3. CASE revReq[c].pc = "announce"
      <4>1. Labelled(r) /\ Story(revEvents[r], LabelEvent(r)) /\ revEvents[r] # <<>>
        BY <2>1, <3>1, <3>3 DEF At
      <4>2. revEvents'[r] = Append(revEvents[r], LabelEvent(r))
        BY <1>a, <2>1, <2>3, <2>4, <3>3
      <4>3. Story(revEvents'[r], LabelEvent(r)) /\ revEvents'[r] # <<>>
        BY <1>c, <4>1, <4>2, StoryMore, LabelEventIs
      <4> QED
        BY <2>2, <2>3, <3>3, <4>1, <4>3 DEF At, Labelled, LabelEvent, Story
    <3> QED
      BY <2>1, <3>2, <3>3
  <2>5. r # x => revEvents'[r] = revEvents[r]
    BY <1>b, <2>3
  <2> QED
    BY <1>2, <2>0, <2>1, <2>2, <2>3, <2>4, <2>5
<1>8. CASE UNCHANGED Rev!vars
  BY <1>0, <1>8 DEF Rev!vars, Progress, Unborn, Rev!WorksOn, At, Labelled, LabelEvent
<1> QED
  BY <1>1, <1>4, <1>5, <1>6, <1>7, <1>8, <1>9 DEF Rev!Next

LEMMA ProgressInit == Rev!Init => AllProgress
BY DEF Rev!Init, AllProgress, Progress, Unborn

\* What the topic holds of a review is what had been published when its request
\* came where it is, and the label it tells is the one the table holds, whatever
\* fails in between or is sent again, and whether there is a producer or not.
THEOREM ReviewsToldAsStored == Rev!Spec => []Rev!ToldAsStored
<1> DEFINE IInv == Rev!TypeOK /\ AllProgress
<1>1. Rev!Init => IInv
  BY ReviewsTypeInit, ProgressInit
<1>2. IInv /\ [Rev!Next]_(Rev!vars) => IInv'
  BY ReviewsTypeStep, ProgressStep
<1>3. IInv => Rev!ToldAsStored
  <2> SUFFICES ASSUME IInv, NEW r \in DOMAIN comment
               PROVE  /\ \A n \in DOMAIN revEvents[r] :
                           revEvents[r][n] \in {Rev!Created, Rev!Scored(sentiment[r])}
                      /\ \A n \in DOMAIN revEvents[r] : revEvents[r][n] # Rev!Created =>
                           /\ \E m \in 1..(n - 1) : revEvents[r][m] = Rev!Created
                           /\ \A m \in DOMAIN revEvents[r] : m > n => revEvents[r][m] # Rev!Created
                      /\ (\A c \in Clients : ~Rev!WorksOn(c, r)) /\ r \notin revBroken =>
                           /\ sentiment[r] # "none"
                           /\ connected => \E n \in DOMAIN revEvents[r] :
                                             revEvents[r][n] # Rev!Created
    BY DEF Rev!ToldAsStored
  <2>1. r \in ReviewIds /\ Progress(r) /\ revEvents[r] \in Seq(Rev!Event)
    BY DEF AllProgress, Rev!TypeOK
  <2>2. PICK pc : At(r, pc) /\
          ((\A c \in Clients : ~Rev!WorksOn(c, r)) /\ r \notin revBroken => pc = "done")
    BY <2>1 DEF Progress
  <2>3. Labelled(r) => sentiment[r] # "none"
    BY LabelIsLabel DEF Labelled, Rev!Labels
  <2>4. Story(revEvents[r], LabelEvent(r))
    BY <2>1, <2>2, CreatedMore DEF At
  <2>5. OnlyCreated(revEvents[r]) \/ LabelEvent(r) = Rev!Scored(sentiment[r])
    BY <2>2 DEF At, Labelled, LabelEvent
  <2>6. \A n \in DOMAIN revEvents[r] :
          revEvents[r][n] \in {Rev!Created, Rev!Scored(sentiment[r])}
    BY <2>4, <2>5 DEF Story, OnlyCreated
  <2>7. ASSUME NEW n \in DOMAIN revEvents[r], revEvents[r][n] # Rev!Created
        PROVE  /\ \E m \in 1..(n - 1) : revEvents[r][m] = Rev!Created
               /\ \A m \in DOMAIN revEvents[r] : m > n => revEvents[r][m] # Rev!Created
    <3>1. /\ Len(revEvents[r]) \in Nat /\ n \in 1..Len(revEvents[r])
          /\ DOMAIN revEvents[r] = 1..Len(revEvents[r])
      BY <2>1, <2>7
    <3>2. revEvents[r][1] = Rev!Created
      <4>1. revEvents[r] # <<>>
        BY <3>1
      <4> QED
        BY <2>4, <4>1 DEF Story
    <3>3. 1 \in 1..(n - 1)
      BY <2>7, <3>1, <3>2
    <3>4. \A m \in DOMAIN revEvents[r] : m > n => revEvents[r][m] # Rev!Created
      BY <2>4, <2>7, <3>1 DEF Story
    <3> QED
      BY <3>2, <3>3, <3>4
  <2>8. (\A c \in Clients : ~Rev!WorksOn(c, r)) /\ r \notin revBroken =>
          /\ sentiment[r] # "none"
          /\ connected => \E n \in DOMAIN revEvents[r] : revEvents[r][n] # Rev!Created
    BY <2>2, <2>3, LabelEventIs DEF At
  <2> QED
    BY <2>6, <2>7, <2>8
<1> QED
  BY <1>1, <1>2, <1>3, PTL DEF Rev!Spec

\* score_sentiment is monotone in the words of a comment, and turns with them.
LEMMA LabelMonotone ==
  ASSUME NEW a \in Rev!Comment, NEW b \in Rev!Comment
  PROVE  /\ a.pos >= b.pos /\ a.neg <= b.neg /\ Rev!Label(b) # "NEGATIVE"
              => Rev!Label(a) \in {Rev!Label(b), "POSITIVE"}
         /\ a.pos = b.neg /\ a.neg = b.pos
              => (Rev!Label(a) = "POSITIVE" <=> Rev!Label(b) = "NEGATIVE")
<1>1. a.pos \in Nat /\ a.neg \in Nat /\ b.pos \in Nat /\ b.neg \in Nat
  BY ServicesAssumption DEF Rev!Comment
<1> QED
  BY <1>1 DEF Rev!Label

\* A comment with more positive words and no more negative ones is never labelled
\* worse, and swapping the words swaps the labels, for counts of any size.
THEOREM ReviewsLabelFollowsWords == Rev!Spec => []Rev!LabelFollowsWords
<1> DEFINE IInv == Rev!TypeOK /\ AllProgress
<1>1. Rev!Init => IInv
  BY ReviewsTypeInit, ProgressInit
<1>2. IInv /\ [Rev!Next]_(Rev!vars) => IInv'
  BY ReviewsTypeStep, ProgressStep
<1>3. IInv => Rev!LabelFollowsWords
  <2>1. ASSUME IInv, NEW r \in DOMAIN comment
        PROVE  comment[r] \in Rev!Comment /\ sentiment[r] \in {"none", Rev!Label(comment[r])}
    <3>1. r \in ReviewIds /\ Progress(r) /\ comment[r] \in Rev!Comment
      BY <2>1 DEF AllProgress, Rev!TypeOK
    <3>2. PICK pc : At(r, pc)
      BY <3>1 DEF Progress
    <3> QED
      BY <3>1, <3>2 DEF At, Labelled
  <2> QED
    BY <2>1, LabelMonotone DEF Rev!LabelFollowsWords
<1> QED
  BY <1>1, <1>2, <1>3, PTL DEF Rev!Spec
-----------------------------------------------------------------------------
(* The services side by side *)

\* A step of the API process is a step of each component or leaves it alone.
LEMMA ServicesStep ==
  ASSUME [ServicesNext]_<<focus, vars, guVars, recVars, rowVars, revVars>>
  PROVE  /\ [Next]_vars
         /\ [Gu!Next]_(Gu!vars)
         /\ [Rec!Next]_(Rec!vars)
         /\ [Rw!Next]_(Rw!vars)
         /\ [Rev!Next]_(Rev!vars)
BY DEF ServicesNext, vars, guVars, recVars, rowVars, revVars,
       Gu!vars, Rec!vars, Rw!vars, Rev!vars

\* Side by side, every service is the one its module specifies: what is proved of
\* a component holds in the API process, whichever requests it serves.
THEOREM ServicesCompose ==
  ServicesSpec => Spec /\ Gu!Spec /\ Rec!Spec /\ Rw!Spec /\ Rev!Spec
<1>1. ServicesInit => Init /\ Gu!Init /\ Rec!Init /\ Rw!Init /\ Rev!Init
  BY DEF ServicesInit
<1> QED
  BY <1>1, ServicesStep, PTL DEF ServicesSpec, Spec, Gu!Spec, Rec!Spec, Rw!Spec, Rev!Spec

\* Every row, request, event and price of the services is of its kind.
THEOREM ServicesType == ServicesSpec => []ServicesTypeOK
<1>1. TypeOK /\ Gu!TypeOK /\ Rec!TypeOK /\ Rw!TypeOK /\ Rev!TypeOK => ServicesTypeOK
  BY DEF ServicesTypeOK
<1> QED
  BY <1>1, ServicesCompose, PaymentsType, GuardrailsType, RecommendationsType,
     RecordsType, ReviewsType, PTL

\* A guardrail look-up of a key no two upserts worked on at once finds one row at
\* most, so get_active_for and get_for_department go on answering.
THEOREM ServicesOneRowPerKey == ServicesSpec => []OneRowPerKey
BY ServicesCompose, GuardrailsOneRowPerKey, PTL DEF OneRowPerKey

\* recommend_pricing shows no price outside the guardrail in force at its look-up.
THEOREM ServicesClampedToGuard == ServicesSpec => ClampedToGuard
BY ServicesCompose, GuardrailsClamped, PTL DEF ClampedToGuard

\* A room type that no two requests worked on at once, no decision of which broke
\* off, costs what its last decision or catalogue update said.
THEOREM ServicesPriceFollowsDecision == ServicesSpec => []PriceFollowsDecision
BY ServicesCompose, RecommendationsPriceFollowsDecision, PTL DEF PriceFollowsDecision

\* BaseRepository.update undoes no other request's column, in any of its tables.
THEOREM ServicesFieldsKept == ServicesSpec => []FieldsKept
BY ServicesCompose, RecordsFieldsKept, PTL DEF FieldsKept

\* An attendance record clocked out once keeps its time.
THEOREM ServicesClockedOutOnce == ServicesSpec => ClockedOutOnce
BY ServicesCompose, RecordsClockedOutOnce, PTL DEF ClockedOutOnce

\* The topic review.events tells of each review what the table holds, in order.
THEOREM ServicesToldAsStored == ServicesSpec => []ToldAsStored
BY ServicesCompose, ReviewsToldAsStored, PTL DEF ToldAsStored

\* Stored sentiments are monotone in the words of their comments.
THEOREM ServicesLabelFollowsWords == ServicesSpec => []LabelFollowsWords
BY ServicesCompose, ReviewsLabelFollowsWords, PTL DEF LabelFollowsWords
=============================================================================
