------------------------------ MODULE Summary ------------------------------
(***************************************************************************)
(* The dashboard summary, DashboardService.get_summary of                  *)
(* app/services/dashboard.py: read through a Redis key that expires and    *)
(* that nothing invalidates.                                               *)
(*                                                                         *)
(* The tables are the number of their changes so far.  A summary is put    *)
(* together from seven SELECTs; `first` and `last` are what its first and  *)
(* its last statement saw, which is all the two can differ in.             *)
(***************************************************************************)
EXTENDS Naturals

CONSTANTS
  Clients,      \* concurrent requests for one branch's summary
  MaxChanges    \* bound: changes of the branch's tables

VARIABLES
  version,   \* the changes committed so far
  cache,     \* Redis: the key of summary_key
  req        \* what each client's request is about to do

vars == <<version, cache, req>>

Figures == [first : 0..MaxChanges, last : 0..MaxChanges]

NoKey == [first |-> MaxChanges + 1, last |-> MaxChanges + 1]

Idle == [pc |-> "idle"]

Request ==
  {Idle} \cup [pc : {"first"}]
         \cup [pc : {"last"}, first : 0..MaxChanges]
         \cup [pc : {"set"}, summary : Figures]

Continue(c, q) == req' = [req EXCEPT ![c] = q]

\* Bookings, orders and staff change the tables.
Change ==
  /\ version < MaxChanges
  /\ version' = version + 1
  /\ UNCHANGED <<cache, req>>

\* A hit is served as it is; after a miss the summary is computed.
Miss(c) ==
  /\ req[c] = Idle
  /\ cache = NoKey
  /\ Continue(c, [pc |-> "first"])
  /\ UNCHANGED <<version, cache>>

SelectFirst(c) ==
  /\ req[c].pc = "first"
  /\ Continue(c, [pc |-> "last", first |-> version])
  /\ UNCHANGED <<version, cache>>

SelectLast(c) ==
  /\ req[c].pc = "last"
  /\ Continue(c, [pc |-> "set", summary |-> [first |-> req[c].first, last |-> version]])
  /\ UNCHANGED <<version, cache>>

\* The key is set whatever it holds by now, and its time to live starts over.
SetSummary(c) ==
  /\ req[c].pc = "set"
  /\ cache' = req[c].summary
  /\ Continue(c, Idle)
  /\ UNCHANGED version

\* A statement or Redis raises: the request answers 500.
Fail(c) ==
  /\ req[c] # Idle
  /\ Continue(c, Idle)
  /\ UNCHANGED <<version, cache>>

\* Mutation: the key is set without a time to live.
ExpireNever == FALSE /\ UNCHANGED vars

\* _CACHE_TTL_SECONDS after it was set.
Expire ==
  /\ cache # NoKey
  /\ cache' = NoKey
  /\ UNCHANGED <<version, req>>

Init ==
  /\ version = 0
  /\ cache = NoKey
  /\ req = [c \in Clients |-> Idle]

\* A request's next step.
Step(c) == SelectFirst(c) \/ SelectLast(c) \/ SetSummary(c) \/ Fail(c)

Next ==
  \/ Change
  \/ Expire
  \/ \E c \in Clients : Miss(c) \/ Step(c)

Spec == Init /\ [][Next]_vars

\* Redis' clock goes on, and every awaited call of a request returns or raises.
Fairness == WF_vars(Expire) /\ \A c \in Clients : WF_vars(Step(c))

-----------------------------------------------------------------------------

\* The key, the requests and the tables are of their types, and no figure is
\* from the future or older than one read before it.
TypeOK ==
  /\ version \in 0..MaxChanges
  /\ cache \in Figures \cup {NoKey}
  /\ req \in [Clients -> Request]
  /\ cache # NoKey => cache.first <= cache.last /\ cache.last <= version
  /\ \A c \in Clients :
       /\ req[c].pc = "last" => req[c].first <= version
       /\ req[c].pc = "set" => /\ req[c].summary.first <= req[c].summary.last
                              /\ req[c].summary.last <= version

\* Once the tables stop changing, however requests overlapped and whichever of
\* them stored last, every summary that is served says what the tables hold:
\* a request that computed before a change can store after it, and only the
\* key's expiry repairs that.
Converges == <>[](cache \in {NoKey, [first |-> version, last |-> version]})
=============================================================================
