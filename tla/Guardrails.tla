----------------------------- MODULE Guardrails -----------------------------
(***************************************************************************)
(* Price recommendations and the guardrails that limit them: the endpoint  *)
(* of app/routers/ml.py that asks the ML service for a price, and the      *)
(* guardrail endpoints of app/routers/recommendations.py, for one branch.  *)
(*                                                                         *)
(* An action is one statement or commit of a request.  Nothing in the      *)
(* tables keeps two guardrails of one room type apart; max_daily_change_pct*)
(* is stored and read by nobody, and is left out.                          *)
(***************************************************************************)
EXTENDS Integers, FiniteSets

CONSTANTS
  Clients,       \* concurrent HTTP requests, one at a time per client
  RoomTypes,
  Departments,   \* of staffing guardrails, which are found by department only
  BranchWide,    \* the key of a pricing guardrail without a room type
  GuardIds,      \* row ids the database may hand out
  Limits,        \* pairs [min, max] a user may send; nothing orders them
  Prices         \* what the ML service may recommend

VARIABLES
  guards,    \* tables pricing_guardrails and staffing_guardrails
  deleted,   \* ids of deleted rows: no row gets one again
  mapped,    \* table ml_room_type_mappings: the room types the ML service knows
  req,       \* what each client's request is about to do
  raced,     \* history: keys two upserts were working on at once
  owed       \* history: a branch-wide guardrail was put and none was deleted

vars == <<guards, deleted, mapped, req, raced, owed>>

Keys == RoomTypes \cup Departments \cup {BranchWide}

Row == [key : Keys, limits : [min : Int, max : Int]]

Idle == [pc |-> "idle", op |-> "none"]

Request ==
  {Idle}
  \cup [pc : {"predict"}, op : {"clamp"}, key : RoomTypes]
  \cup [pc : {"specific", "wide"}, op : {"clamp"}, key : RoomTypes, price : Prices]
  \cup [pc : {"show"}, op : {"clamp"}, key : RoomTypes, price : Int]
  \cup [pc : {"specific", "wide", "create"}, op : {"upsert"}, key : Keys, limits : Limits]
  \cup [pc : {"update"}, op : {"upsert"}, key : Keys, limits : Limits,
        id : GuardIds, seen : Row]
  \cup [pc : {"delete"}, op : {"delete"}, id : GuardIds]

Continue(c, q) == req' = [req EXCEPT ![c] = q]

Rows(key) == {id \in DOMAIN guards : guards[id].key = key}

Upserting(c, key) == req[c].op = "upsert" /\ req[c].key = key

\* Mutation: a price above the maximum passes.
ClampLow(limits, price) ==
  IF price < limits.min THEN limits.min ELSE price

\* max(min_price, min(max_price, price)): the minimum wins when the two cross.
Clamp(limits, price) ==
  CASE price < limits.min \/ limits.max < limits.min -> limits.min
    [] limits.max < price /\ limits.min <= limits.max -> limits.max
    [] OTHER -> price
-----------------------------------------------------------------------------
(* Requests *)

\* A room type is mapped, anew or again; of two that insert, the unique
\* constraint lets one through.
PutMapping(type) ==
  /\ mapped' = mapped \cup {type}
  /\ UNCHANGED <<guards, deleted, req, raced, owed>>

\* Mutation: whether the room type is mapped is not asked.
AskUnmapped(c, type) ==
  /\ req[c] = Idle
  /\ Continue(c, [pc |-> "predict", op |-> "clamp", key |-> type])
  /\ UNCHANGED <<guards, deleted, mapped, raced, owed>>

\* recommend_pricing: a room type without a mapping answers 422.
Ask(c, type) ==
  /\ req[c] = Idle
  /\ type \in mapped
  /\ Continue(c, [pc |-> "predict", op |-> "clamp", key |-> type])
  /\ UNCHANGED <<guards, deleted, mapped, raced, owed>>

\* The ML service answers; when it does not, the request ends with a 502 (Fail).
Predict(c, price) ==
  /\ req[c].pc = "predict"
  /\ Continue(c, [pc |-> "specific", op |-> "clamp", key |-> req[c].key, price |-> price])
  /\ UNCHANGED <<guards, deleted, mapped, raced, owed>>

\* PUT /guardrails/pricing, PUT /guardrails/staffing.
Upsert(c, key, limits) ==
  /\ req[c] = Idle
  /\ Continue(c, [pc |-> "specific", op |-> "upsert", key |-> key, limits |-> limits])
  /\ raced' = IF \E d \in Clients : Upserting(d, key) THEN raced \cup {key} ELSE raced
  /\ UNCHANGED <<guards, deleted, mapped, owed>>

\* DELETE /guardrails/pricing/{id}: an id that is not there answers 404.
ReadToDelete(c, id) ==
  /\ req[c] = Idle
  /\ id \in DOMAIN guards /\ guards[id].key \notin Departments
  /\ Continue(c, [pc |-> "delete", op |-> "delete", id |-> id])
  /\ UNCHANGED <<guards, deleted, mapped, raced, owed>>
-----------------------------------------------------------------------------
(* The look-up, get_active_for and get_for_department *)

\* What a request does with the row it found, and with none.
Found(q, id) ==
  IF q.op = "clamp"
  THEN [pc |-> "show", op |-> "clamp", key |-> q.key,
        price |-> Clamp(guards[id].limits, q.price)]
  ELSE [pc |-> "update", op |-> "upsert", key |-> q.key, limits |-> q.limits,
        id |-> id, seen |-> guards[id]]

NotFound(q) == [q EXCEPT !.pc = IF q.op = "clamp" THEN "show" ELSE "create"]

\* scalar_one_or_none raises MultipleResultsFound on more than one row.
Select(c, rows, none) ==
  \/ rows = {} /\ Continue(c, none)
  \/ \E id \in rows : rows = {id} /\ Continue(c, Found(req[c], id))
  \/ (\E id \in rows : rows # {id}) /\ Continue(c, Idle)

\* Mutation: the row of a room type is not looked for.
FindSpecificSkipped(c) ==
  /\ req[c].pc = "specific"
  /\ Select(c, {}, IF req[c].key \in Departments THEN NotFound(req[c])
                   ELSE [req[c] EXCEPT !.pc = "wide"])
  /\ UNCHANGED <<guards, deleted, mapped, raced, owed>>

\* The first SELECT: the key's own row.  Only pricing has a second.
FindSpecific(c) ==
  /\ req[c].pc = "specific"
  /\ Select(c, Rows(req[c].key), IF req[c].key \in Departments THEN NotFound(req[c])
                                 ELSE [req[c] EXCEPT !.pc = "wide"])
  /\ UNCHANGED <<guards, deleted, mapped, raced, owed>>

\* The second SELECT: the branch-wide row.
FindWide(c) ==
  /\ req[c].pc = "wide"
  /\ Select(c, Rows(BranchWide), NotFound(req[c]))
  /\ UNCHANGED <<guards, deleted, mapped, raced, owed>>
-----------------------------------------------------------------------------
(* The commits *)

\* record_shown; the table of recommendations is that of module Recommendations.
Show(c) ==
  /\ req[c].pc = "show"
  /\ Continue(c, Idle)
  /\ UNCHANGED <<guards, deleted, mapped, raced, owed>>

Create(c, id) ==
  /\ req[c].pc = "create"
  /\ id \notin DOMAIN guards \cup deleted
  /\ guards' = [i \in DOMAIN guards \cup {id} |->
                  IF i = id THEN [key |-> req[c].key, limits |-> req[c].limits]
                  ELSE guards[i]]
  /\ Continue(c, Idle)
  /\ owed' = (owed \/ req[c].key = BranchWide)
  /\ UNCHANGED <<deleted, mapped, raced>>

\* What an UPDATE leaves in a column: only a value other than the one seen is sent.
Column(new, seen, now) == IF new = seen THEN now ELSE new

\* repo.update(existing, data): the row found gets the key of the request, too.
Written(q, now) ==
  [key |-> Column(q.key, q.seen.key, now.key),
   limits |-> [min |-> Column(q.limits.min, q.seen.limits.min, now.limits.min),
               max |-> Column(q.limits.max, q.seen.limits.max, now.limits.max)]]

\* An UPDATE that meets no row raises.
Update(c) ==
  /\ req[c].pc = "update"
  /\ LET id == req[c].id IN
     IF id \in DOMAIN guards
     THEN /\ guards' = [guards EXCEPT ![id] = Written(req[c], @)]
          /\ owed' = (owed \/ req[c].key = BranchWide)
     ELSE UNCHANGED <<guards, owed>>
  /\ Continue(c, Idle)
  /\ UNCHANGED <<deleted, mapped, raced>>

\* A DELETE that meets no row is only warned of.
Delete(c) ==
  /\ req[c].pc = "delete"
  /\ LET id == req[c].id IN
     /\ guards' = [i \in DOMAIN guards \ {id} |-> guards[i]]
     /\ deleted' = deleted \cup {id}
     /\ owed' = (owed /\ ~(id \in DOMAIN guards /\ guards[id].key = BranchWide))
  /\ Continue(c, Idle)
  /\ UNCHANGED <<mapped, raced>>

\* A statement or the ML service raises (500, 502), or the client goes away.
Fail(c) ==
  /\ req[c] # Idle
  /\ Continue(c, Idle)
  /\ UNCHANGED <<guards, deleted, mapped, raced, owed>>
-----------------------------------------------------------------------------

Init ==
  /\ guards = [id \in {} |-> {}]
  /\ deleted = {}
  /\ mapped = {}
  /\ req = [c \in Clients |-> Idle]
  /\ raced = {}
  /\ owed = FALSE

Next ==
  \/ \E type \in RoomTypes : PutMapping(type)
  \/ \E c \in Clients :
       \/ \E type \in RoomTypes : Ask(c, type)
       \/ \E price \in Prices : Predict(c, price)
       \/ \E key \in Keys, limits \in Limits : Upsert(c, key, limits)
       \/ \E id \in GuardIds : ReadToDelete(c, id) \/ Create(c, id)
       \/ FindSpecific(c)
       \/ FindWide(c)
       \/ Show(c)
       \/ Update(c)
       \/ Delete(c)
       \/ Fail(c)

Spec == Init /\ [][Next]_vars
-----------------------------------------------------------------------------

\* Every row and request is of its kind, no id is live and deleted, and a price
\* is asked for mapped room types only.
TypeOK ==
  /\ \E ids \in SUBSET GuardIds : guards \in [ids -> Row]
  /\ deleted \subseteq GuardIds \ DOMAIN guards
  /\ mapped \subseteq RoomTypes
  /\ req \in [Clients -> Request]
  /\ \A c \in Clients : req[c].op = "clamp" => req[c].key \in mapped
  /\ raced \subseteq Keys /\ owed \in BOOLEAN

\* However upserts, deletions and failures interleave, a key that no two upserts
\* worked on at once has one row at most: get_active_for, which raises when it
\* meets two, goes on answering.  It takes two overlapping first PUTs of one
\* room type to break pricing for it.
OneRowPerKey ==
  \A key \in Keys \ raced : \A id, other \in Rows(key) : id = other

\* The rows a price of this room type has to keep to.
InForce(type) == IF Rows(type) # {} THEN Rows(type) ELSE Rows(BranchWide)

\* The price request c is about to show respects the guardrails in force.
Respects(c) ==
  req'[c].pc = "show" /\ req[c].pc # "show" =>
    \A id \in InForce(req'[c].key) :
      LET limits == guards[id].limits  shown == req'[c].price IN
        \/ limits.min <= shown /\ (limits.min <= limits.max => shown <= limits.max)
        \/ req[c].pc = "wide" /\ guards[id].key # BranchWide

\* A price is about to be shown only if it respects the guardrail in force when
\* it was looked up: the room type's own before the branch-wide one, and never
\* less than the minimum.  The one gap is a room type's guardrail committed
\* between the two SELECTs of the look-up.
ClampedToGuard == [][\A c \in Clients : Respects(c)]_vars

\* "Null room_type_id means applies to every room type on this branch."
\* (models/guardrail.py:14): one that was put stays until it is deleted.
BranchWideStays == owed => Rows(BranchWide) # {}
=============================================================================
