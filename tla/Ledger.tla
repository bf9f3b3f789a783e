------------------------------- MODULE Ledger -------------------------------
(***************************************************************************)
(* What the services promise whoever counts their events: an aggregate is  *)
(* added by at most one event.  That event may be in the log again, where  *)
(* the producer sent it again, with the event_id it had: whoever counts    *)
(* by event_id counts it once.  The aggregate's undoing may be told of by  *)
(* more than one event, or before its creation: the requests that announce *)
(* the two can overlap, and each can die unheard.                          *)
(*                                                                         *)
(* Payments implements this specification; ReadModel takes it, with the    *)
(* repetitions left out, as all it knows about the logs of stays and       *)
(* payments.                                                               *)
(***************************************************************************)
EXTENDS Naturals, Sequences

CONSTANT Aggregates

VARIABLE log    \* what the topics say of every aggregate, in order: the event_id
                \* (the event's first place in the log) and what the event does

NewEntry(a, kind) ==
  log' = [log EXCEPT ![a] = Append(@, [id |-> Len(@) + 1, kind |-> kind])]

\* PaymentCompleted (and ReservationCreated).
Add(a) ==
  /\ \A n \in DOMAIN log[a] : log[a][n].kind # "add"
  /\ NewEntry(a, "add")

\* RefundIssued (and ReservationCancelled).
Remove(a) == NewEntry(a, "remove")

\* The producer sends an event again whose answer it never got.
Repeat(a) ==
  \E n \in DOMAIN log[a] : log' = [log EXCEPT ![a] = Append(@, log[a][n])]

Init == log = [a \in Aggregates |-> <<>>]

Next == \E a \in Aggregates : Add(a) \/ Remove(a) \/ Repeat(a)

Spec == Init /\ [][Next]_log
=============================================================================
