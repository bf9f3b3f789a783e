------------------------------ MODULE MCOrders ------------------------------
(* Small instances of Orders: ids are interchangeable. *)
EXTENDS Orders, FiniteSets, TLC

\* An item that raises the total and one that lowers it.
SubtotalChoices == {-1, 2}

Symmetry == Permutations(Clients) \cup Permutations(Orders) \cup Permutations(Items)

\* Requests waiting for the answer to a send the broker has appended.
Unanswered == {c \in Clients : req[c].pc = "publish" /\ req[c].sent # 0}

\* Bound: one event is, or may yet be, on the topic twice, and it is one that
\* tells the end of an order.
OneCopy ==
  /\ Cardinality({n \in DOMAIN events : events[n].id # n}) + Cardinality(Unanswered) <= 1
  /\ \A c \in Unanswered : req[c].event.kind \in EndKinds
=============================================================================
