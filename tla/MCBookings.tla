---------------------------- MODULE MCBookings ----------------------------
(* Small instances of Bookings: ids are interchangeable. *)
EXTENDS Bookings, FiniteSets, TLC

Symmetry == Permutations(Clients) \cup Permutations(Reservations)

\* Requests waiting for the answer to a send the broker has appended.
Unanswered == {c \in Clients : req[c].pc = "publish" /\ req[c].sent # 0}

\* Bound: one event is, or may yet be, on the topic twice.
OneCopy ==
  Cardinality({i \in DOMAIN events : events[i].id # i}) + Cardinality(Unanswered) <= 1

\* Bound where only the tables are looked at, which nobody reads the topic for.
NoCopy == Unanswered = {}
=============================================================================
