------------------------------ MODULE Payments ------------------------------
(***************************************************************************)
(* Payments and refunds, app/services/payment.py: concurrent requests over *)
(* the payments table and the topic payment.events.                        *)
(*                                                                         *)
(* An action is one statement, commit or publish.  The branch an event     *)
(* carries is looked up between the commit and the publish; it never       *)
(* changes, so the look-up is part of the publish.                         *)
(***************************************************************************)
EXTENDS Naturals, Sequences

CONSTANTS
  Clients,   \* concurrent HTTP requests, one at a time per client
  Ids        \* payment ids the database may hand out

VARIABLES
  status,    \* table payments: "none" before the insert
  req,       \* what each client's request is about to do
  events,    \* topic payment.events: the events of every payment, in order
  raced,     \* history: payments two requests were working on at once
  broken     \* history: payments with a commit that was never announced

vars == <<status, req, events, raced, broken>>

Kinds == {"PaymentCompleted", "RefundIssued"}

\* `id` is the event_id: the event's first place among those of its payment.
Event == [id : Nat, kind : Kinds]

Idle == [pc |-> "idle"]

\* `sent` is the id of the request's event if the broker has that already, or 0.
Request ==
  {Idle} \cup [pc : {"refund"}, payment : Ids]
         \cup [pc : {"publish"}, payment : Ids, kind : Kinds, sent : Nat]

WorksOn(c, p) == req[c] # Idle /\ req[c].payment = p

Continue(c, q) == req' = [req EXCEPT ![c] = q]

Announce(c, p, kind) ==
  Continue(c, [pc |-> "publish", payment |-> p, kind |-> kind, sent |-> 0])

-----------------------------------------------------------------------------

\* create_payment: the row is inserted as COMPLETED and committed.
CreatePayment(c, p) ==
  /\ req[c] = Idle
  /\ status[p] = "none"
  /\ status' = [status EXCEPT ![p] = "COMPLETED"]
  /\ Announce(c, p, "PaymentCompleted")
  /\ UNCHANGED <<events, raced, broken>>

\* Mutation: any payment can be refunded.
ReadToRefundAny(c, p) ==
  /\ req[c] = Idle
  /\ status[p] # "none"
  /\ Continue(c, [pc |-> "refund", payment |-> p])
  /\ raced' = IF \E d \in Clients : WorksOn(d, p) THEN raced \cup {p} ELSE raced
  /\ UNCHANGED <<status, events, broken>>

\* refund_payment reads the payment; one that is not COMPLETED answers 422.
ReadToRefund(c, p) ==
  /\ req[c] = Idle
  /\ status[p] = "COMPLETED"
  /\ Continue(c, [pc |-> "refund", payment |-> p])
  /\ raced' = IF \E d \in Clients : WorksOn(d, p) THEN raced \cup {p} ELSE raced
  /\ UNCHANGED <<status, events, broken>>

\* Mutation: the refund is announced and the row left as it is.
WriteRefundNot(c) ==
  /\ req[c].pc = "refund"
  /\ Announce(c, req[c].payment, "RefundIssued")
  /\ UNCHANGED <<status, events, raced, broken>>

\* The update is committed whatever the row holds by now.
WriteRefund(c) ==
  /\ req[c].pc = "refund"
  /\ status' = [status EXCEPT ![req[c].payment] = "REFUNDED"]
  /\ Announce(c, req[c].payment, "RefundIssued")
  /\ UNCHANGED <<events, raced, broken>>

\* Mutation: every attempt builds the event again, with an event_id of its own.
EventIdOfAttempt(q) == Len(events[q.payment]) + 1

\* The event is built once, before it is sent: every attempt has its id.
EventId(q) == IF q.sent = 0 THEN Len(events[q.payment]) + 1 ELSE q.sent

Send(q) ==
  events' = [events EXCEPT ![q.payment] = Append(@, [id |-> EventId(q), kind |-> q.kind])]

\* The producer is not idempotent (kafka_producer.py): the broker appends the
\* event, its answer is lost, and the client will send the event again (bound:
\* once).
PublishUnanswered(c) ==
  /\ req[c].pc = "publish"
  /\ req[c].sent = 0
  /\ Send(req[c])
  /\ Continue(c, [req[c] EXCEPT !.sent = EventId(req[c])])
  /\ UNCHANGED <<status, raced, broken>>

\* send_and_wait returns once an attempt has been answered.
Publish(c) ==
  /\ req[c].pc = "publish"
  /\ Send(req[c])
  /\ Continue(c, Idle)
  /\ UNCHANGED <<status, raced, broken>>

\* The payment of a request that ends with its event unheard of.
Unheard(q) == IF q.pc = "publish" /\ q.sent = 0 THEN {q.payment} ELSE {}

\* An awaited call raises, the process dies, or there is no producer to publish
\* with: what is committed stays.
Fail(c) ==
  /\ req[c] # Idle
  /\ broken' = broken \cup Unheard(req[c])
  /\ Continue(c, Idle)
  /\ UNCHANGED <<status, events, raced>>

Init ==
  /\ status = [p \in Ids |-> "none"]
  /\ req = [c \in Clients |-> Idle]
  /\ events = [p \in Ids |-> <<>>]
  /\ raced = {}
  /\ broken = {}

Next ==
  \E c \in Clients :
    \/ \E p \in Ids : CreatePayment(c, p) \/ ReadToRefund(c, p)
    \/ WriteRefund(c)
    \/ PublishUnanswered(c)
    \/ Publish(c)
    \/ Fail(c)

Spec == Init /\ [][Next]_vars

-----------------------------------------------------------------------------

\* Every row, request and event is one of its kind, and a request works on a
\* payment that is in the table.
TypeOK ==
  /\ status \in [Ids -> {"none", "COMPLETED", "REFUNDED"}]
  /\ req \in [Clients -> Request]
  /\ \A c \in Clients : req[c] # Idle => status[req[c].payment] # "none"
  /\ events \in [Ids -> Seq(Event)]
  /\ raced \subseteq Ids
  /\ broken \subseteq Ids

Announces(c, p, kind) ==
  req[c].pc = "publish" /\ req[c].payment = p /\ req[c].kind = kind

Told(p, kind) ==
  \/ \E n \in DOMAIN events[p] : events[p][n].kind = kind
  \/ \E c \in Clients : Announces(c, p, kind)

Agree(p) ==
  /\ Told(p, "PaymentCompleted") => status[p] # "none"
  /\ Told(p, "RefundIssued") => status[p] = "REFUNDED"
  /\ status[p] # "none" => Told(p, "PaymentCompleted") \/ p \in broken
  /\ status[p] = "REFUNDED" => Told(p, "RefundIssued") \/ p \in broken

\* The topic and the table agree whatever overlaps or fails: what is announced
\* is in the table, and what is in the table is announced, or about to be, or
\* was broken off between its commit and its publish.
AnnouncedAsCommitted == \A p \in Ids : Agree(p)

\* "Only completed payments can be refunded": a payment no two requests worked
\* on at once is announced once and refunded once, the refund after the payment;
\* an event the producer sent again is the same event, by its id.
RefundedOnce ==
  \A p \in Ids \ raced : \A n, m \in DOMAIN events[p] : n < m =>
    \/ events[p][n] = events[p][m]
    \/ events[p][n].kind = "PaymentCompleted" /\ events[p][m].kind = "RefundIssued"

\* The payments' events as additions and removals.
Entries ==
  [p \in Ids |-> [n \in DOMAIN events[p] |->
     [id |-> events[p][n].id,
      kind |-> IF events[p][n].kind = "PaymentCompleted" THEN "add" ELSE "remove"]]]

Abstract == INSTANCE Ledger WITH Aggregates <- Ids, log <- Entries

\* Payments implements Ledger: however requests overlap and fail, a payment is
\* added to the revenue by at most one event, which a repeated send can repeat.
Ledger == Abstract!Spec
=============================================================================
