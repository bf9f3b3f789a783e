---------------------------- MODULE MCReadModel ----------------------------
(***************************************************************************)
(* Bounds: one stay, two payments and two orders, a payment and an order   *)
(* of an amount below zero, two events each, two replays.  Cut takes four  *)
(* parts of the state graph: bookings with both consumers; bookings with   *)
(* replays and one of the two consumers; payments, one of them, with       *)
(* replays, or with bookings and the revenue consumer; and orders, which   *)
(* share neither key nor consumer with the others, with one replay and two *)
(* events in all.  Beside a replay, events of its topic only are looked at.*)
(***************************************************************************)
EXTENDS ReadModel

CONSTANTS s1, p1, p2, o1, o2

MCAmount ==
  [a \in Aggregates |-> CASE a = s1 -> 2 [] a = p1 -> 1 [] a = p2 -> -1 [] a = o1 -> 3
                          [] a = o2 -> -2]

NoOrder == log'[o1] = <<>> /\ log'[o2] = <<>>

NoPayment == log'[p1] = <<>> /\ log'[p2] = <<>>

Unused(consumer) == next'[consumer][s1] = 0

BookingsAlone ==
  /\ NoOrder /\ NoPayment
  /\ replaying' \subseteq {"booking.events"}
  /\ replays' = 0 \/ Unused("booking") \/ Unused("revenue")

PaymentsBeside ==
  /\ NoOrder /\ (log'[p1] = <<>> \/ log'[p2] = <<>>)
  /\ \/ log'[s1] = <<>> /\ replaying' \subseteq {"payment.events"}
     \/ replays' = 0 /\ Unused("booking")

OrdersAlone ==
  /\ log'[s1] = <<>> /\ NoPayment
  /\ replaying' \subseteq {"restaurant.events"} /\ replays' < 2
  /\ Len(log'[o1]) + Len(log'[o2]) <= 2

Cut == BookingsAlone \/ PaymentsBeside \/ OrdersAlone
=============================================================================
