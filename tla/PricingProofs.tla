--------------------------- MODULE PricingProofs ----------------------------
(***************************************************************************)
(* Theorems of Guardrails and Recommendations, as instances of Services,   *)
(* for any number of concurrent requests, room types and rows and any      *)
(* prices and limits.                                                      *)
(***************************************************************************)
EXTENDS Services, TLAPS
-----------------------------------------------------------------------------
(* Guardrails *)

\* What the fields of a request hold, by its step.
LEMMA GuardrailFields ==
  ASSUME NEW q \in Gu!Request
  PROVE  /\ q.pc \in {"specific", "wide"} =>
              \/ /\ q.op = "clamp" /\ q.key \in RoomTypes /\ q.price \in Prices
                 /\ q = [pc |-> q.pc, op |-> "clamp", key |-> q.key, price |-> q.price]
              \/ /\ q.op = "upsert" /\ q.key \in Gu!Keys /\ q.limits \in Limits
                 /\ q = [pc |-> q.pc, op |-> "upsert", key |-> q.key, limits |-> q.limits]
         /\ q.pc = "create" => q.op = "upsert" /\ q.key \in Gu!Keys /\ q.limits \in Limits
         /\ q.pc = "update" => /\ q.op = "upsert" /\ q.key \in Gu!Keys /\ q.limits \in Limits
                               /\ q.id \in GuardIds /\ q.seen \in Gu!Row
         /\ q.pc = "delete" => q.op = "delete" /\ q.id \in GuardIds
         /\ q.pc = "predict" => q.op = "clamp" /\ q.key \in RoomTypes
         /\ q.op = "upsert" => q.pc \in {"specific", "wide", "create", "update"}
BY DEF Gu!Request, Gu!Idle

\* A price between limits is a number.
LEMMA ClampIsNumber ==
  ASSUME NEW limits \in [min : Int, max : Int], NEW offer \in Int
  PROVE  Gu!Clamp(limits, offer) \in Int
BY DEF Gu!Clamp

\* What a look-up leaves of a request.
LEMMA SelectTypes ==
  ASSUME Gu!TypeOK, NEW c \in Clients, guReq[c].pc \in {"specific", "wide"},
         NEW found \in SUBSET DOMAIN guards, NEW none, Gu!Select(c, found, none),
         none \in {Gu!NotFound(guReq[c]), [guReq[c] EXCEPT !.pc = "wide"]}
  PROVE  /\ guReq' \in [Clients -> Gu!Request]
         /\ \A d \in Clients : guReq'[d].op = "clamp" => guReq'[d].key \in mapped
<1>0. /\ guReq \in [Clients -> Gu!Request] /\ guReq[c] \in Gu!Request /\ Gu!Idle \in Gu!Request
      /\ Gu!Idle.op # "clamp"
      /\ guReq[c].op = "clamp" => guReq[c].key \in mapped
      /\ \A id \in DOMAIN guards : id \in GuardIds /\ guards[id] \in Gu!Row
  BY DEF Gu!TypeOK, Gu!Request, Gu!Idle
<1>1. PICK q : Gu!Continue(c, q) /\ q \in {none, Gu!Idle} \cup {Gu!Found(guReq[c], id) : id \in found}
  BY DEF Gu!Select
<1>2. SUFFICES q \in Gu!Request /\ (q.op = "clamp" => q.key \in mapped)
  BY <1>0, <1>1 DEF Gu!TypeOK, Gu!Continue
<1>3. CASE q = Gu!Idle
  BY <1>0, <1>3
<1>4. CASE guReq[c] = [pc |-> guReq[c].pc, op |-> "clamp", key |-> guReq[c].key, price |-> guReq[c].price]
           /\ guReq[c].key \in RoomTypes /\ guReq[c].price \in Prices
  <2>1. guReq[c].price \in Int
    BY <1>4, ServicesAssumption
  <2>2. CASE q = Gu!NotFound(guReq[c])
    <3>1. q = [pc |-> "show", op |-> "clamp", key |-> guReq[c].key, price |-> guReq[c].price]
      BY <1>4, <2>2 DEF Gu!NotFound
    <3> QED
      BY <1>0, <1>4, <2>1, <3>1 DEF Gu!Request
  <2>3. CASE q = [guReq[c] EXCEPT !.pc = "wide"]
    <3>1. q = [pc |-> "wide", op |-> "clamp", key |-> guReq[c].key, price |-> guReq[c].price]
      BY <1>4, <2>3
    <3> QED
      BY <1>0, <1>4, <3>1 DEF Gu!Request
  <2>4. ASSUME NEW id \in found, q = Gu!Found(guReq[c], id)
        PROVE  q \in Gu!Request /\ (q.op = "clamp" => q.key \in mapped)
    <3>1. Gu!Clamp(guards[id].limits, guReq[c].price) \in Int
      BY <1>0, <2>1, ClampIsNumber DEF Gu!Row
    <3>2. q = [pc |-> "show", op |-> "clamp", key |-> guReq[c].key,
               price |-> Gu!Clamp(guards[id].limits, guReq[c].price)]
      BY <1>4, <2>4 DEF Gu!Found
    <3> QED
      BY <1>0, <1>4, <3>1, <3>2 DEF Gu!Request
  <2> QED
    BY <1>1, <1>3, <2>2, <2>3, <2>4
<1>5. CASE guReq[c] = [pc |-> guReq[c].pc, op |-> "upsert", key |-> guReq[c].key, limits |-> guReq[c].limits]
           /\ guReq[c].key \in Gu!Keys /\ guReq[c].limits \in Limits
  <2>1. CASE q = Gu!NotFound(guReq[c])
    <3>1. q = [pc |-> "create", op |-> "upsert", key |-> guReq[c].key, limits |-> guReq[c].limits]
      BY <1>5, <2>1 DEF Gu!NotFound
    <3> QED
      BY <1>5, <3>1 DEF Gu!Request
  <2>2. CASE q = [guReq[c] EXCEPT !.pc = "wide"]
    <3>1. q = [pc |-> "wide", op |-> "upsert", key |-> guReq[c].key, limits |-> guReq[c].limits]
      BY <1>5, <2>2
    <3> QED
      BY <1>5, <3>1 DEF Gu!Request
  <2>3. ASSUME NEW id \in found, q = Gu!Found(guReq[c], id)
        PROVE  q \in Gu!Request /\ q.op # "clamp"
    <3>1. q = [pc |-> "update", op |-> "upsert", key |-> guReq[c].key,
               limits |-> guReq[c].limits, id |-> id, seen |-> guards[id]]
      BY <1>5, <2>3 DEF Gu!Found
    <3> QED
      BY <1>0, <1>5, <3>1 DEF Gu!Request
  <2> QED
    BY <1>1, <1>3, <2>1, <2>2, <2>3
<1> QED
  BY <1>0, <1>4, <1>5, GuardrailFields

\* Any other step of a request leaves its request idle or another of its kind.
LEMMA GuardrailRequestKept ==
  ASSUME Gu!TypeOK, NEW c \in Clients, NEW q \in Gu!Request, Gu!Continue(c, q),
         mapped' = mapped, q.op = "clamp" => q.key \in mapped
  PROVE  /\ guReq' \in [Clients -> Gu!Request]
         /\ \A d \in Clients : guReq'[d].op = "clamp" => guReq'[d].key \in mapped'
BY DEF Gu!TypeOK, Gu!Continue

LEMMA GuardrailsTypeStep == Gu!TypeOK /\ [Gu!Next]_(Gu!vars) => Gu!TypeOK'
<1> SUFFICES ASSUME Gu!TypeOK, [Gu!Next]_(Gu!vars) PROVE Gu!TypeOK'
  OBVIOUS
<1> DEFINE ReqOK == /\ guReq \in [Clients -> Gu!Request]
                    /\ \A d \in Clients : guReq[d].op = "clamp" => guReq[d].key \in mapped
           TableOK == /\ \E ids \in SUBSET GuardIds : guards \in [ids -> Gu!Row]
                      /\ guDeleted \subseteq GuardIds \ DOMAIN guards
           HistoryOK == guRaced \subseteq Gu!Keys /\ owed \in BOOLEAN
<1>0. /\ ReqOK /\ TableOK /\ mapped \subseteq RoomTypes /\ HistoryOK
      /\ \A c \in Clients : guReq[c] \in Gu!Request
      /\ Gu!Idle \in Gu!Request /\ Gu!Idle.op # "clamp" /\ Gu!Idle.pc = "idle"
  BY DEF Gu!TypeOK, Gu!Request, Gu!Idle
<1>a. ReqOK' /\ TableOK' /\ mapped' \subseteq RoomTypes /\ HistoryOK' => Gu!TypeOK'
  BY DEF Gu!TypeOK
<1>b. ASSUME UNCHANGED <<guards, guDeleted>> PROVE TableOK'
  BY <1>0, <1>b
<1>c. ASSUME UNCHANGED <<guRaced, owed>> PROVE HistoryOK'
  BY <1>0, <1>c
<1> HIDE DEF ReqOK, TableOK, HistoryOK
<1>1. ASSUME NEW type \in RoomTypes, Gu!PutMapping(type) PROVE Gu!TypeOK'
  <2>1. ReqOK'
    BY <1>0, <1>1 DEF Gu!PutMapping, ReqOK
  <2> QED
    BY <1>0, <1>1, <1>a, <1>b, <1>c, <2>1 DEF Gu!PutMapping
<1>2. ASSUME NEW c \in Clients, NEW type \in RoomTypes, Gu!Ask(c, type) PROVE Gu!TypeOK'
  <2>1. [pc |-> "predict", op |-> "clamp", key |-> type] \in Gu!Request
    BY DEF Gu!Request
  <2>2. ReqOK'
    BY <1>2, <2>1, GuardrailRequestKept DEF Gu!Ask, ReqOK
  <2> QED
    BY <1>0, <1>2, <1>a, <1>b, <1>c, <2>2 DEF Gu!Ask
<1>3. ASSUME NEW c \in Clients, NEW offer \in Prices, Gu!Predict(c, offer) PROVE Gu!TypeOK'
  <2>0. guReq[c].key \in RoomTypes /\ guReq[c].key \in mapped
    BY <1>0, <1>3, GuardrailFields DEF Gu!Predict, ReqOK
  <2>1. [pc |-> "specific", op |-> "clamp", key |-> guReq[c].key, price |-> offer] \in Gu!Request
    BY <2>0 DEF Gu!Request
  <2>2. ReqOK'
    BY <1>3, <2>0, <2>1, GuardrailRequestKept DEF Gu!Predict, ReqOK
  <2> QED
    BY <1>0, <1>3, <1>a, <1>b, <1>c, <2>2 DEF Gu!Predict
<1>4. ASSUME NEW c \in Clients, NEW key \in Gu!Keys, NEW limits \in Limits,
             Gu!Upsert(c, key, limits)
      PROVE  Gu!TypeOK'
  <2>1. [pc |-> "specific", op |-> "upsert", key |-> key, limits |-> limits] \in Gu!Request
    BY DEF Gu!Request
  <2>2. ReqOK'
    BY <1>4, <2>1, GuardrailRequestKept DEF Gu!Upsert, ReqOK
  <2>3. HistoryOK'
    BY <1>0, <1>4 DEF Gu!Upsert, HistoryOK
  <2> QED
    BY <1>0, <1>4, <1>a, <1>b, <2>2, <2>3 DEF Gu!Upsert
<1>5. ASSUME NEW c \in Clients, NEW id \in GuardIds, Gu!ReadToDelete(c, id) PROVE Gu!TypeOK'
  <2>1. [pc |-> "delete", op |-> "delete", id |-> id] \in Gu!Request
    BY DEF Gu!Request
  <2>2. ReqOK'
    BY <1>5, <2>1, GuardrailRequestKept DEF Gu!ReadToDelete, ReqOK
  <2> QED
    BY <1>0, <1>5, <1>a, <1>b, <1>c, <2>2 DEF Gu!ReadToDelete
<1>6. ASSUME NEW c \in Clients, NEW id \in GuardIds, Gu!Create(c, id) PROVE Gu!TypeOK'
  <2>1. [key |-> guReq[c].key, limits |-> guReq[c].limits] \in Gu!Row
    BY <1>0, <1>6, GuardrailFields, ServicesAssumption DEF Gu!Create, Gu!Row
  <2>2. TableOK'
    <3>1. guards' \in [DOMAIN guards \cup {id} -> Gu!Row]
      BY <1>0, <1>6, <2>1 DEF Gu!Create, TableOK
    <3> QED
      BY <1>0, <1>6, <3>1 DEF Gu!Create, TableOK
  <2>3. ReqOK'
    BY <1>0, <1>6, GuardrailRequestKept DEF Gu!Create, ReqOK
  <2>4. HistoryOK'
    BY <1>0, <1>6 DEF Gu!Create, HistoryOK
  <2> QED
    BY <1>0, <1>6, <1>a, <2>2, <2>3, <2>4 DEF Gu!Create
<1>7. ASSUME NEW c \in Clients, Gu!FindSpecific(c) \/ Gu!FindWide(c) PROVE Gu!TypeOK'
  <2>1. PICK found, none :
          /\ found \subseteq DOMAIN guards /\ Gu!Select(c, found, none)
          /\ none \in {Gu!NotFound(guReq[c]), [guReq[c] EXCEPT !.pc = "wide"]}
    BY <1>7 DEF Gu!FindSpecific, Gu!FindWide, Gu!Rows
  <2>2. ReqOK'
    BY <1>7, <2>1, SelectTypes DEF Gu!FindSpecific, Gu!FindWide, ReqOK
  <2> QED
    BY <1>0, <1>7, <1>a, <1>b, <1>c, <2>2 DEF Gu!FindSpecific, Gu!FindWide
<1>8. ASSUME NEW c \in Clients, Gu!Update(c) PROVE Gu!TypeOK'
  <2>1. TableOK'
    <3>1. CASE guReq[c].id \in DOMAIN guards
      <4>1. guards[guReq[c].id] \in Gu!Row
        BY <1>0, <3>1 DEF TableOK
      <4>2. Gu!Written(guReq[c], guards[guReq[c].id]) \in Gu!Row
        BY <1>0, <1>8, <4>1, GuardrailFields, ServicesAssumption DEF Gu!Update, Gu!Written, Gu!Column, Gu!Row
      <4>3. guards' = [guards EXCEPT ![guReq[c].id] = Gu!Written(guReq[c], @)]
        BY <1>8, <3>1 DEF Gu!Update
      <4> QED
        BY <1>0, <1>8, <3>1, <4>2, <4>3 DEF Gu!Update, TableOK
    <3>2. CASE guReq[c].id \notin DOMAIN guards
      BY <1>8, <1>b, <3>2 DEF Gu!Update
    <3> QED
      BY <3>1, <3>2
  <2>2. ReqOK'
    BY <1>0, <1>8, GuardrailRequestKept DEF Gu!Update, ReqOK
  <2>3. HistoryOK'
    BY <1>0, <1>8 DEF Gu!Update, HistoryOK
  <2> QED
    BY <1>0, <1>8, <1>a, <2>1, <2>2, <2>3 DEF Gu!Update
<1>9. ASSUME NEW c \in Clients, Gu!Delete(c) PROVE Gu!TypeOK'
  <2>1. TableOK'
    <3>1. /\ guards' = [i \in DOMAIN guards \ {guReq[c].id} |-> guards[i]]
          /\ guDeleted' = guDeleted \cup {guReq[c].id} /\ guReq[c].id \in GuardIds
      BY <1>0, <1>9, GuardrailFields DEF Gu!Delete
    <3>2. guards' \in [DOMAIN guards \ {guReq[c].id} -> Gu!Row]
      BY <1>0, <3>1 DEF TableOK
    <3> QED
      BY <1>0, <3>1, <3>2 DEF TableOK
  <2>2. ReqOK'
    BY <1>0, <1>9, GuardrailRequestKept DEF Gu!Delete, ReqOK
  <2>3. HistoryOK'
    BY <1>0, <1>9 DEF Gu!Delete, HistoryOK
  <2> QED
    BY <1>0, <1>9, <1>a, <2>1, <2>2, <2>3 DEF Gu!Delete
<1>10. ASSUME NEW c \in Clients, Gu!Show(c) \/ Gu!Fail(c) PROVE Gu!TypeOK'
  <2>1. ReqOK'
    BY <1>0, <1>10, GuardrailRequestKept DEF Gu!Show, Gu!Fail, ReqOK
  <2> QED
    BY <1>0, <1>10, <1>a, <1>b, <1>c, <2>1 DEF Gu!Show, Gu!Fail
<1>11. CASE UNCHANGED Gu!vars
  BY <1>11 DEF Gu!vars, Gu!TypeOK
<1> QED
  BY <1>1, <1>2, <1>3, <1>4, <1>5, <1>6, <1>7, <1>8, <1>9, <1>10, <1>11 DEF Gu!Next

LEMMA GuardrailsTypeInit == Gu!Init => Gu!TypeOK
<1> SUFFICES ASSUME Gu!Init PROVE Gu!TypeOK
  OBVIOUS
<1>1. guards \in [{} -> Gu!Row] /\ DOMAIN guards = {}
  BY DEF Gu!Init
<1>2. Gu!Idle \in Gu!Request /\ Gu!Idle.op # "clamp"
  BY DEF Gu!Idle, Gu!Request
<1> QED
  BY <1>1, <1>2 DEF Gu!Init, Gu!TypeOK

\* Every guardrail and request is of its kind, a deleted id is never live again,
\* and a price is asked for mapped room types only.
THEOREM GuardrailsType == Gu!Spec => []Gu!TypeOK
<1>1. Gu!TypeOK /\ [Gu!Next]_(Gu!vars) => Gu!TypeOK'
  BY GuardrailsTypeStep
<1> QED
  BY GuardrailsTypeInit, <1>1, PTL DEF Gu!Spec
-----------------------------------------------------------------------------
(* One row per key *)

\* What holds of a key no two upserts worked on: one row, one upsert, and once
\* that upsert has found no row of the key there is none until it writes.
Single(key) ==
  /\ \A id, other \in Gu!Rows(key) : id = other
  /\ \A c, d \in Clients : Gu!Upserting(c, key) /\ Gu!Upserting(d, key) => c = d
  /\ \A c \in Clients : Gu!Upserting(c, key) =>
       \/ guReq[c].pc = "specific"
       \/ guReq[c].pc \in {"wide", "create"} /\ Gu!Rows(key) = {}
       \/ guReq[c].pc = "update" /\ (guReq[c].seen.key = key \/ Gu!Rows(key) = {})

UnracedSingle == \A key \in Gu!Keys \ guRaced : Single(key)

\* A step that neither gives the key a row nor an upsert keeps it single, if it
\* ends the upsert or leaves it where it was.
LEMMA SingleKept ==
  ASSUME Gu!TypeOK, NEW key, Single(key), NEW c \in Clients, NEW q, Gu!Continue(c, q),
         ~(q.op = "upsert" /\ q.key = key), Gu!Rows(key)' \subseteq Gu!Rows(key)
  PROVE  Single(key)'
<1>1. /\ guReq' = [guReq EXCEPT ![c] = q] /\ guReq \in [Clients -> Gu!Request]
  BY DEF Gu!TypeOK, Gu!Continue
<1>2. ~Gu!Upserting(c, key)' /\ \A d \in Clients : d # c => guReq'[d] = guReq[d]
  BY <1>1 DEF Gu!Upserting
<1>3. \A d \in Clients : Gu!Upserting(d, key)' => d # c /\ Gu!Upserting(d, key)
  BY <1>2 DEF Gu!Upserting
<1> QED
  BY <1>2, <1>3 DEF Single

\* A step of the only upsert of a key, which leaves at most one row of it.
LEMMA SingleStep ==
  ASSUME Gu!TypeOK, NEW key, Single(key), NEW c \in Clients, Gu!Upserting(c, key),
         NEW q, Gu!Continue(c, q),
         \A id, other \in Gu!Rows(key)' : id = other,
         \/ q.op # "upsert"
         \/ q.pc \in {"wide", "create"} /\ Gu!Rows(key)' = {}
         \/ q.pc = "update" /\ (q.seen.key = key \/ Gu!Rows(key)' = {})
  PROVE  Single(key)'
<1>1. /\ guReq' = [guReq EXCEPT ![c] = q] /\ guReq \in [Clients -> Gu!Request]
  BY DEF Gu!TypeOK, Gu!Continue
<1>2. /\ \A d \in Clients : Gu!Upserting(d, key) => d = c
      /\ \A d \in Clients : d # c => guReq'[d] = guReq[d]
      /\ guReq'[c] = q
  BY <1>1 DEF Single
<1>3. \A d \in Clients : Gu!Upserting(d, key)' => d = c
  BY <1>2 DEF Gu!Upserting
<1>4. Gu!Upserting(c, key)' => q.op = "upsert"
  BY <1>2 DEF Gu!Upserting
<1> QED
  BY <1>2, <1>3, <1>4 DEF Single

LEMMA SingleStable ==
  Gu!TypeOK /\ UnracedSingle /\ [Gu!Next]_(Gu!vars) => UnracedSingle'
<1> SUFFICES ASSUME Gu!TypeOK, UnracedSingle, [Gu!Next]_(Gu!vars), NEW key \in Gu!Keys, key \notin guRaced'
             PROVE  Single(key)'
  BY DEF UnracedSingle
<1>0. /\ guReq \in [Clients -> Gu!Request] /\ \A c \in Clients : guReq[c] \in Gu!Request
      /\ Gu!Idle.op = "none" /\ Gu!Idle.pc = "idle"
  BY DEF Gu!TypeOK, Gu!Idle
<1>1. ASSUME NEW type \in RoomTypes, Gu!PutMapping(type) PROVE Single(key)'
  BY <1>1 DEF Gu!PutMapping, UnracedSingle, Single, Gu!Rows, Gu!Upserting
<1>2. ASSUME NEW c \in Clients, NEW q, Gu!Continue(c, q), q.op # "upsert",
             UNCHANGED guards, UNCHANGED guRaced
      PROVE  Single(key)'
  <2>1. Single(key)
    BY <1>2 DEF UnracedSingle
  <2>2. Gu!Rows(key)' \subseteq Gu!Rows(key)
    BY <1>2 DEF Gu!Rows
  <2> QED
    BY <1>2, <2>1, <2>2, SingleKept
<1>3. ASSUME NEW c \in Clients, NEW type \in RoomTypes, Gu!Ask(c, type) PROVE Single(key)'
  BY <1>2, <1>3 DEF Gu!Ask
<1>4. ASSUME NEW c \in Clients, NEW offer \in Prices, Gu!Predict(c, offer) PROVE Single(key)'
  BY <1>2, <1>4 DEF Gu!Predict
<1>5. ASSUME NEW c \in Clients, NEW id \in GuardIds, Gu!ReadToDelete(c, id) PROVE Single(key)'
  BY <1>2, <1>5 DEF Gu!ReadToDelete
<1>6. ASSUME NEW c \in Clients, Gu!Show(c) \/ Gu!Fail(c) PROVE Single(key)'
  BY <1>0, <1>2, <1>6 DEF Gu!Show, Gu!Fail
<1>7. ASSUME NEW c \in Clients, NEW k \in Gu!Keys, NEW limits \in Limits, Gu!Upsert(c, k, limits)
      PROVE  Single(key)'
  <2> DEFINE q == [pc |-> "specific", op |-> "upsert", key |-> k, limits |-> limits]
  <2>1. Single(key) /\ Gu!Rows(key)' = Gu!Rows(key) /\ Gu!Continue(c, q)
    BY <1>7 DEF Gu!Upsert, UnracedSingle, Gu!Rows
  <2>2. CASE k # key
    BY <2>1, <2>2, SingleKept
  <2>3. CASE k = key
    <3>1. \A d \in Clients : ~Gu!Upserting(d, key)
      BY <1>7, <2>3 DEF Gu!Upsert
    <3>2. /\ \A d \in Clients : d # c => guReq'[d] = guReq[d]
          /\ guReq'[c] = q
      BY <1>0, <2>1 DEF Gu!Continue
    <3>3. \A d \in Clients : Gu!Upserting(d, key)' => d = c
      BY <3>1, <3>2 DEF Gu!Upserting
    <3> QED
      BY <2>1, <3>2, <3>3 DEF Single
  <2> QED
    BY <2>2, <2>3
<1>8. ASSUME NEW c \in Clients, Gu!Delete(c) PROVE Single(key)'
  <2>1. Single(key)
    BY <1>8 DEF Gu!Delete, UnracedSingle
  <2>2. Gu!Continue(c, Gu!Idle) /\ guards' = [i \in DOMAIN guards \ {guReq[c].id} |-> guards[i]]
    BY <1>8 DEF Gu!Delete
  <2>3. Gu!Rows(key)' \subseteq Gu!Rows(key)
    BY <2>2 DEF Gu!Rows
  <2> QED
    BY <1>0, <2>1, <2>2, <2>3, SingleKept
<1>9. ASSUME NEW c \in Clients, NEW id \in GuardIds, Gu!Create(c, id) PROVE Single(key)'
  <2>1. Single(key) /\ Gu!Continue(c, Gu!Idle)
    BY <1>9 DEF Gu!Create, UnracedSingle
  <2>2. /\ DOMAIN guards' = DOMAIN guards \cup {id}
        /\ \A i \in DOMAIN guards : guards'[i] = guards[i]
        /\ guards'[id].key = guReq[c].key
    BY <1>9 DEF Gu!Create
  <2>3. CASE guReq[c].key # key
    <3>1. Gu!Rows(key)' \subseteq Gu!Rows(key)
      BY <2>2, <2>3 DEF Gu!Rows
    <3> QED
      BY <1>0, <2>1, <3>1, SingleKept
  <2>4. CASE guReq[c].key = key
    <3>1. Gu!Upserting(c, key)
      BY <1>0, <1>9, <2>4, GuardrailFields DEF Gu!Create, Gu!Upserting
    <3>2. Gu!Rows(key) = {}
      BY <1>9, <2>1, <3>1 DEF Single, Gu!Create
    <3>3. Gu!Rows(key)' \subseteq {id}
      BY <2>2, <3>2 DEF Gu!Rows
    <3> QED
      BY <1>0, <2>1, <3>1, <3>3, SingleStep
  <2> QED
    BY <2>3, <2>4
<1>10. ASSUME NEW c \in Clients, Gu!Update(c) PROVE Single(key)'
  <2>0. PICK q, id : q = guReq[c] /\ id = guReq[c].id
    OBVIOUS
  <2>1. Single(key) /\ Gu!Continue(c, Gu!Idle)
    BY <1>10 DEF Gu!Update, UnracedSingle
  <2>2. CASE id \notin DOMAIN guards
    BY <1>0, <1>2, <1>10, <2>0, <2>2 DEF Gu!Update
  <2>3. CASE id \in DOMAIN guards
    <3>1. /\ DOMAIN guards' = DOMAIN guards
          /\ \A i \in DOMAIN guards : i # id => guards'[i] = guards[i]
          /\ guards'[id].key = IF q.key = q.seen.key THEN guards[id].key ELSE q.key
      BY <1>10, <2>0, <2>3 DEF Gu!Update, Gu!Written, Gu!Column
    <3>2. CASE q.key = q.seen.key \/ q.key # key
      <4>1. Gu!Rows(key)' \subseteq Gu!Rows(key)
        BY <3>1, <3>2 DEF Gu!Rows
      <4> QED
        BY <1>0, <2>1, <4>1, SingleKept
    <3>3. CASE q.key # q.seen.key /\ q.key = key
      <4>1. Gu!Upserting(c, key)
        BY <1>0, <1>10, <2>0, <3>3, GuardrailFields DEF Gu!Update, Gu!Upserting
      <4>2. Gu!Rows(key) = {}
        BY <1>10, <2>0, <2>1, <3>3, <4>1 DEF Single, Gu!Update
      <4>3. Gu!Rows(key)' \subseteq {id}
        BY <3>1, <4>2 DEF Gu!Rows
      <4> QED
        BY <1>0, <2>1, <4>1, <4>3, SingleStep
    <3> QED
      BY <3>2, <3>3
  <2> QED
    BY <2>2, <2>3
<1>11. ASSUME NEW c \in Clients, Gu!FindSpecific(c) \/ Gu!FindWide(c) PROVE Single(key)'
  <2>1. Single(key) /\ Gu!Rows(key)' = Gu!Rows(key)
    BY <1>11 DEF Gu!FindSpecific, Gu!FindWide, UnracedSingle, Gu!Rows
  <2>2. PICK q : Gu!Continue(c, q) /\
          \/ q = Gu!Idle
          \/ /\ q \in {Gu!NotFound(guReq[c]), [guReq[c] EXCEPT !.pc = "wide"]}
             /\ guReq[c].pc = "specific" => Gu!Rows(guReq[c].key) = {}
          \/ \E id \in DOMAIN guards : q = Gu!Found(guReq[c], id) /\
               \/ guards[id].key = guReq[c].key
               \/ guReq[c].pc = "wide"
    BY <1>11 DEF Gu!FindSpecific, Gu!FindWide, Gu!Select, Gu!Rows
  <2>3. CASE guReq[c].op # "upsert"
    <3>1. /\ guReq[c].op = "clamp"
          /\ guReq[c] = [pc |-> guReq[c].pc, op |-> "clamp", key |-> guReq[c].key, price |-> guReq[c].price]
      BY <1>0, <1>11, <2>3, GuardrailFields DEF Gu!FindSpecific, Gu!FindWide
    <3>2. q.op # "upsert"
      BY <1>0, <2>2, <3>1 DEF Gu!NotFound, Gu!Found
    <3> QED
      BY <1>2, <1>11, <2>2, <3>2 DEF Gu!FindSpecific, Gu!FindWide
  <2>4. CASE guReq[c].op = "upsert"
    <3>1. guReq[c] = [pc |-> guReq[c].pc, op |-> "upsert", key |-> guReq[c].key, limits |-> guReq[c].limits]
      BY <1>0, <1>11, <2>4, GuardrailFields DEF Gu!FindSpecific, Gu!FindWide
    <3>2. \/ q = Gu!Idle
          \/ /\ q.pc \in {"wide", "create"} /\ q.key = guReq[c].key
             /\ guReq[c].pc = "specific" => Gu!Rows(guReq[c].key) = {}
          \/ /\ q.pc = "update" /\ q.key = guReq[c].key
             /\ q.seen.key = guReq[c].key \/ guReq[c].pc = "wide"
      BY <2>2, <3>1 DEF Gu!NotFound, Gu!Found
    <3>3. CASE guReq[c].key # key
      <4>1. ~(q.op = "upsert" /\ q.key = key)
        BY <1>0, <3>2, <3>3
      <4> QED
        BY <2>1, <2>2, <4>1, SingleKept
    <3>4. CASE guReq[c].key = key
      <4>1. Gu!Upserting(c, key)
        BY <2>4, <3>4 DEF Gu!Upserting
      <4>2. guReq[c].pc = "wide" => Gu!Rows(key) = {}
        BY <2>1, <4>1 DEF Single
      <4>3. guReq[c].pc \in {"specific", "wide"}
        BY <1>11 DEF Gu!FindSpecific, Gu!FindWide
      <4>4. \A id, other \in Gu!Rows(key)' : id = other
        BY <2>1 DEF Single
      <4>5. \/ q.op # "upsert"
            \/ q.pc \in {"wide", "create"} /\ Gu!Rows(key)' = {}
            \/ q.pc = "update" /\ (q.seen.key = key \/ Gu!Rows(key)' = {})
        BY <1>0, <2>1, <3>2, <3>4, <4>2, <4>3
      <4> QED
        BY <2>1, <2>2, <4>1, <4>4, <4>5, SingleStep
    <3> QED
      BY <3>3, <3>4
  <2> QED
    BY <2>3, <2>4
<1>12. CASE UNCHANGED Gu!vars
  BY <1>12 DEF Gu!vars, UnracedSingle, Single, Gu!Rows, Gu!Upserting
<1> QED
  BY <1>1, <1>3, <1>4, <1>5, <1>6, <1>7, <1>8, <1>9, <1>10, <1>11, <1>12 DEF Gu!Next

LEMMA SingleInit == Gu!Init => UnracedSingle
BY DEF Gu!Init, UnracedSingle, Single, Gu!Rows, Gu!Upserting, Gu!Idle

\* However upserts, deletions and failures interleave, a key that no two upserts
\* worked on at once has one row at most, so that its look-up (get_active_for,
\* get_for_department) never raises MultipleResultsFound.
THEOREM GuardrailsOneRowPerKey == Gu!Spec => []Gu!OneRowPerKey
<1> DEFINE IInv == Gu!TypeOK /\ UnracedSingle
<1>1. Gu!Init => IInv
  BY GuardrailsTypeInit, SingleInit
<1>2. IInv /\ [Gu!Next]_(Gu!vars) => IInv'
  BY GuardrailsTypeStep, SingleStable
<1>3. IInv => Gu!OneRowPerKey
  BY DEF UnracedSingle, Single, Gu!OneRowPerKey
<1> QED
  BY <1>1, <1>2, <1>3, PTL DEF Gu!Spec
-----------------------------------------------------------------------------
(* What a price keeps to *)

\* max(min_price, min(max_price, price)) keeps to both limits, to the minimum
\* alone when they cross.
LEMMA ClampKeepsTo ==
  ASSUME NEW limits \in [min : Int, max : Int], NEW offer \in Int
  PROVE  /\ limits.min <= Gu!Clamp(limits, offer)
         /\ limits.min <= limits.max => Gu!Clamp(limits, offer) <= limits.max
BY DEF Gu!Clamp

LEMMA ClampedStep ==
  ASSUME Gu!TypeOK, NEW c \in Clients,
         Gu!FindSpecific(c) \/ Gu!FindWide(c)
  PROVE  Gu!Respects(c)
<1> SUFFICES ASSUME guReq'[c].pc = "show",
                    NEW id \in Gu!InForce(guReq'[c].key),
                    ~(guReq[c].pc = "wide" /\ guards[id].key # Null)
             PROVE  /\ guards[id].limits.min <= guReq'[c].price
                    /\ guards[id].limits.min <= guards[id].limits.max =>
                         guReq'[c].price <= guards[id].limits.max
  BY DEF Gu!Respects
<1>0. /\ guReq \in [Clients -> Gu!Request] /\ guReq[c] \in Gu!Request
      /\ \A i \in DOMAIN guards : guards[i] \in Gu!Row
  BY DEF Gu!TypeOK
<1>1. PICK q : Gu!Continue(c, q) /\
        \/ q = Gu!Idle
        \/ /\ guReq[c].pc = "specific" /\ Gu!Rows(guReq[c].key) = {}
           /\ q = IF guReq[c].key \in Departments THEN Gu!NotFound(guReq[c])
                  ELSE [guReq[c] EXCEPT !.pc = "wide"]
        \/ guReq[c].pc = "wide" /\ Gu!Rows(Null) = {} /\ q = Gu!NotFound(guReq[c])
        \/ \E i : q = Gu!Found(guReq[c], i) /\
             \/ guReq[c].pc = "specific" /\ Gu!Rows(guReq[c].key) = {i}
             \/ guReq[c].pc = "wide" /\ Gu!Rows(Null) = {i}
  BY DEF Gu!FindSpecific, Gu!FindWide, Gu!Select
<1>2. guReq'[c] = q /\ q.pc = "show" /\ q # Gu!Idle
  BY <1>0, <1>1 DEF Gu!Continue, Gu!Idle
<1>3. /\ guReq[c].pc \in {"specific", "wide"} /\ guReq[c].key \in RoomTypes
      /\ guReq[c].price \in Prices
      /\ guReq[c] = [pc |-> guReq[c].pc, op |-> "clamp", key |-> guReq[c].key, price |-> guReq[c].price]
  <2>1. guReq[c].pc \in {"specific", "wide"}
    BY DEF Gu!FindSpecific, Gu!FindWide
  <2>2. ~(guReq[c] = [pc |-> guReq[c].pc, op |-> "upsert", key |-> guReq[c].key, limits |-> guReq[c].limits])
    BY <1>1, <1>2, <2>1 DEF Gu!NotFound, Gu!Found
  <2> QED
    BY <1>0, <2>1, <2>2, GuardrailFields
<1>4. guReq[c].key \notin Departments /\ guReq[c].key # Null /\ guReq[c].price \in Int
  BY <1>3, ServicesAssumption
<1>5. q.key = guReq[c].key /\ id \in DOMAIN guards
  BY <1>1, <1>2, <1>3, <1>4 DEF Gu!NotFound, Gu!Found, Gu!InForce, Gu!Rows
<1>6. CASE guReq[c].pc = "wide" /\ Gu!Rows(Null) = {} /\ q = Gu!NotFound(guReq[c])
  BY <1>2, <1>5, <1>6 DEF Gu!InForce, Gu!Rows
<1>7. ASSUME NEW i, q = Gu!Found(guReq[c], i),
             \/ guReq[c].pc = "specific" /\ Gu!Rows(guReq[c].key) = {i}
             \/ guReq[c].pc = "wide" /\ Gu!Rows(Null) = {i}
      PROVE  /\ guards[id].limits.min <= q.price
             /\ guards[id].limits.min <= guards[id].limits.max =>
                  q.price <= guards[id].limits.max
  <2>1. id = i
    BY <1>2, <1>4, <1>5, <1>7 DEF Gu!InForce, Gu!Rows
  <2>2. q.price = Gu!Clamp(guards[id].limits, guReq[c].price)
    BY <1>3, <1>7, <2>1 DEF Gu!Found
  <2>3. guards[id].limits \in [min : Int, max : Int]
    BY <1>0, <1>5 DEF Gu!Row
  <2> QED
    BY <1>4, <2>2, <2>3, ClampKeepsTo
<1> QED
  BY <1>1, <1>2, <1>3, <1>4, <1>6, <1>7

\* recommend_pricing shows a price only within the guardrail in force when it was
\* looked up, for any limits, crossing ones included: the room type's own before
\* the branch-wide one, unless the room type's was committed between the SELECTs.
THEOREM GuardrailsClamped == Gu!Spec => Gu!ClampedToGuard
<1>1. Gu!TypeOK /\ [Gu!Next]_(Gu!vars) => [\A c \in Clients : Gu!Respects(c)]_(Gu!vars)
  <2> SUFFICES ASSUME Gu!TypeOK, Gu!Next, NEW c \in Clients PROVE Gu!Respects(c)
    OBVIOUS
  <2>0. guReq \in [Clients -> Gu!Request] /\ \A d \in Clients : guReq[d] \in Gu!Request
    BY DEF Gu!TypeOK
  <2>1. ASSUME NEW d \in Clients, NEW q, Gu!Continue(d, q), q.pc # "show"
        PROVE  Gu!Respects(c)
    BY <2>0, <2>1 DEF Gu!Continue, Gu!Respects
  <2>2. ASSUME NEW type \in RoomTypes, Gu!PutMapping(type) PROVE Gu!Respects(c)
    BY <2>2 DEF Gu!PutMapping, Gu!Respects
  <2>3. ASSUME NEW d \in Clients, Gu!FindSpecific(d) \/ Gu!FindWide(d) PROVE Gu!Respects(c)
    <3>1. CASE d = c
      BY <2>3, <3>1, ClampedStep
    <3>2. CASE d # c
      <4>1. guReq'[c] = guReq[c]
        BY <2>0, <2>3, <3>2 DEF Gu!FindSpecific, Gu!FindWide, Gu!Select, Gu!Continue
      <4> QED
        BY <4>1 DEF Gu!Respects
    <3> QED
      BY <3>1, <3>2
  <2>4. ASSUME NEW d \in Clients,
               \/ \E type \in RoomTypes : Gu!Ask(d, type)
               \/ \E offer \in Prices : Gu!Predict(d, offer)
               \/ \E key \in Gu!Keys, limits \in Limits : Gu!Upsert(d, key, limits)
        PROVE  Gu!Respects(c)
    BY <2>1, <2>4 DEF Gu!Ask, Gu!Predict, Gu!Upsert
  <2>5. ASSUME NEW d \in Clients,
               \/ \E id \in GuardIds : Gu!ReadToDelete(d, id) \/ Gu!Create(d, id)
               \/ Gu!Show(d) \/ Gu!Update(d) \/ Gu!Delete(d) \/ Gu!Fail(d)
        PROVE  Gu!Respects(c)
    <3>1. Gu!Idle.pc # "show"
      BY DEF Gu!Idle
    <3> QED
      BY <2>1, <2>5, <3>1 DEF Gu!ReadToDelete, Gu!Create, Gu!Show, Gu!Update, Gu!Delete, Gu!Fail
  <2> QED
    BY <2>2, <2>3, <2>4, <2>5 DEF Gu!Next
<1>2. Gu!TypeOK /\ [Gu!Next]_(Gu!vars) => Gu!TypeOK'
  BY GuardrailsTypeStep
<1> QED
  BY GuardrailsTypeInit, <1>1, <1>2, PTL DEF Gu!Spec, Gu!ClampedToGuard

-----------------------------------------------------------------------------
(* Recommendations *)

\* A request knows what its recommendation is about.
RefsKept ==
  \A c \in Clients : recReq[c].pc \in {"decide", "refresh"} =>
    /\ recReq[c].rec \in DOMAIN recs /\ recs[recReq[c].rec].ref = recReq[c].type
    /\ recReq[c].pc = "decide" => recReq[c].seen.ref = recReq[c].type

Typed == Rec!TypeOK /\ RefsKept

\* What the fields of a request hold, by its step.
LEMMA RecommendationFields ==
  ASSUME NEW q \in Rec!Request
  PROVE  /\ q # Rec!Idle => q.type \in Rec!Refs
         /\ q.pc = "idle" <=> q = Rec!Idle
         /\ q.pc = "decide" => q.rec \in RecIds /\ q.seen \in Rec!Row /\ q.answer \in Rec!AllAnswers
         /\ q.pc = "refresh" => q.rec \in RecIds
         /\ q.pc = "room_type" => q.type \in RoomTypes /\ q.price \in Prices
         /\ q.pc = "price" => q.type \in RoomTypes /\ q.price \in Prices /\ q.seen \in Prices
BY DEF Rec!Request, Rec!Idle, Rec!Refs

\* The price of a row that applies is a price.
LEMMA PriceOfType ==
  ASSUME NEW row \in Rec!Row
  PROVE  Rec!PriceOf(row) \in Prices
BY DEF Rec!PriceOf, Rec!Row

LEMMA TypedStep == Typed /\ [Rec!Next]_(Rec!vars) => Typed'
<1> SUFFICES ASSUME Typed, [Rec!Next]_(Rec!vars) PROVE Typed'
  OBVIOUS
<1> DEFINE RecsOK == \E ids \in SUBSET RecIds : recs \in [ids -> Rec!Row]
           PricesOK == price \in [RoomTypes -> Prices] /\ decided \in [RoomTypes -> Prices]
           HistoryOK == recRaced \subseteq Rec!Refs /\ recBroken \subseteq Rec!Refs
           ReqOK == recReq \in [Clients -> Rec!Request]
<1>0. /\ RecsOK /\ PricesOK /\ HistoryOK /\ ReqOK /\ RefsKept
      /\ \A c \in Clients : recReq[c] \in Rec!Request
      /\ \A r \in DOMAIN recs : r \in RecIds /\ recs[r] \in Rec!Row
      /\ Rec!Idle \in Rec!Request /\ Rec!Idle.pc = "idle"
  BY DEF Typed, Rec!TypeOK, Rec!Request, Rec!Idle
<1>a. RecsOK' /\ PricesOK' /\ HistoryOK' /\ ReqOK' /\ RefsKept' => Typed'
  BY DEF Typed, Rec!TypeOK
<1>b. ASSUME NEW c \in Clients, NEW q \in Rec!Request, Rec!Continue(c, q),
             DOMAIN recs \subseteq DOMAIN recs',
             \A r \in DOMAIN recs : recs'[r].ref = recs[r].ref,
             q.pc \in {"decide", "refresh"} =>
               /\ q.rec \in DOMAIN recs /\ recs[q.rec].ref = q.type
               /\ q.pc = "decide" => q.seen.ref = q.type
      PROVE  ReqOK' /\ RefsKept'
  <2>1. ReqOK' /\ \A d \in Clients : recReq'[d] = IF d = c THEN q ELSE recReq[d]
    BY <1>0, <1>b DEF Rec!Continue
  <2> QED
    BY <1>0, <1>b, <2>1 DEF RefsKept
<1>c. RecsOK /\ recs' = recs => RecsOK'
  OBVIOUS
<1>1. ASSUME NEW r \in RecIds, NEW ref \in Rec!Refs, NEW offer \in Prices, Rec!Show(r, ref, offer)
      PROVE  Typed'
  <2> DEFINE row == [ref |-> ref, offer |-> offer, measured |-> FALSE,
                     status |-> "SHOWN", applied |-> Null]
  <2>1. row \in Rec!Row
    BY DEF Rec!Row
  <2>2. /\ recs' = [x \in DOMAIN recs \cup {r} |-> IF x = r THEN row ELSE recs[x]]
        /\ r \notin DOMAIN recs /\ UNCHANGED <<price, recReq, decided, recRaced, recBroken>>
    BY <1>1 DEF Rec!Show
  <2> HIDE DEF row
  <2>3. recs' \in [DOMAIN recs \cup {r} -> Rec!Row]
    BY <1>0, <2>1, <2>2
  <2>4. RecsOK'
    BY <1>0, <2>3
  <2>5. RefsKept'
    BY <1>0, <2>2 DEF RefsKept
  <2> QED
    BY <1>0, <1>a, <2>2, <2>4, <2>5
<1>2. ASSUME NEW r \in RecIds, Rec!MeasureOutcome(r) PROVE Typed'
  <2>1. /\ r \in DOMAIN recs /\ recs' = [recs EXCEPT ![r].measured = TRUE]
        /\ UNCHANGED <<price, recReq, decided, recRaced, recBroken>>
    BY <1>2 DEF Rec!MeasureOutcome
  <2>2. /\ recs' \in [DOMAIN recs -> Rec!Row]
        /\ \A x \in DOMAIN recs : recs'[x].ref = recs[x].ref
    BY <1>0, <2>1 DEF Rec!Row
  <2>3. RecsOK'
    BY <1>0, <2>2
  <2>4. RefsKept'
    BY <1>0, <2>1, <2>2 DEF RefsKept
  <2> QED
    BY <1>0, <1>a, <2>1, <2>3, <2>4
<1>3. ASSUME NEW c \in Clients, NEW r \in RecIds, NEW answer \in Answers,
             Rec!ReadToDecide(c, r, answer)
      PROVE  Typed'
  <2> DEFINE q == [pc |-> "decide", rec |-> r, type |-> recs[r].ref,
                   seen |-> recs[r], answer |-> answer]
  <2>1. /\ r \in DOMAIN recs /\ Rec!Continue(c, q) /\ UNCHANGED <<recs, price, decided, recBroken>>
        /\ recRaced' \subseteq recRaced \cup {recs[r].ref}
    BY <1>3 DEF Rec!ReadToDecide, Rec!Begin
  <2>2. recs[r] \in Rec!Row /\ recs[r].ref \in Rec!Refs /\ answer \in Rec!AllAnswers
    BY <1>0, <2>1, ServicesAssumption DEF Rec!Row
  <2>3. q \in Rec!Request
    BY <2>2 DEF Rec!Request
  <2>4. ReqOK' /\ RefsKept'
    BY <1>b, <2>1, <2>3
  <2> QED
    BY <1>0, <1>a, <1>c, <2>1, <2>2, <2>4
<1>4. ASSUME NEW c \in Clients, NEW type \in RoomTypes, NEW p \in Prices,
             Rec!UpdateRoomType(c, type, p)
      PROVE  Typed'
  <2> DEFINE q == [pc |-> "room_type", type |-> type, price |-> p]
  <2>1. /\ Rec!Continue(c, q) /\ UNCHANGED <<recs, price, recBroken>>
        /\ decided' = [decided EXCEPT ![type] = p] /\ recRaced' \subseteq recRaced \cup {type}
    BY <1>4 DEF Rec!UpdateRoomType, Rec!Begin
  <2>2. q \in Rec!Request /\ type \in Rec!Refs
    BY DEF Rec!Request, Rec!Refs
  <2>3. ReqOK' /\ RefsKept'
    BY <1>b, <2>1, <2>2
  <2> QED
    BY <1>0, <1>a, <1>c, <2>1, <2>2, <2>3
<1>5. ASSUME NEW c \in Clients, Rec!WriteDecision(c) PROVE Typed'
  <2>0. PICK q : q = recReq[c]
    OBVIOUS
  <2>1. /\ q.pc = "decide" /\ q \in Rec!Request /\ q.rec \in RecIds /\ q.seen \in Rec!Row
        /\ q.answer \in Rec!AllAnswers /\ q.type \in Rec!Refs /\ q.rec \in DOMAIN recs
        /\ recs[q.rec].ref = q.type /\ q.seen.ref = q.type
    BY <1>0, <1>5, <2>0, RecommendationFields DEF Rec!WriteDecision, RefsKept, Rec!Idle
  <2> DEFINE asked == [q.seen EXCEPT !.status = q.answer.status, !.applied = q.answer.applied]
             next == [pc |-> "refresh", rec |-> q.rec, type |-> q.type]
  <2>2. /\ recs' = [recs EXCEPT
                      ![q.rec].status = Rec!Column(q.answer.status, q.seen.status, @),
                      ![q.rec].applied = Rec!Column(q.answer.applied, q.seen.applied, @)]
        /\ decided' = IF Rec!Applies(asked) THEN [decided EXCEPT ![q.type] = Rec!PriceOf(asked)]
                      ELSE decided
        /\ Rec!Continue(c, next) /\ UNCHANGED <<price, recRaced, recBroken>>
    BY <1>5, <2>0 DEF Rec!WriteDecision
  <2>3. asked \in Rec!Row /\ asked.ref = q.type
    BY <2>1 DEF Rec!Row, Rec!AllAnswers
  <2> HIDE DEF asked
  <2>4. PricesOK'
    BY <1>0, <2>2, <2>3, PriceOfType
  <2>5. /\ recs' \in [DOMAIN recs -> Rec!Row]
        /\ \A x \in DOMAIN recs : recs'[x].ref = recs[x].ref
    <3>1. /\ Rec!Column(q.answer.status, q.seen.status, recs[q.rec].status) \in {"SHOWN"} \cup Rec!Decisions
          /\ Rec!Column(q.answer.applied, q.seen.applied, recs[q.rec].applied) \in Prices \cup {Null}
      BY <1>0, <2>1 DEF Rec!Column, Rec!Row, Rec!AllAnswers
    <3> QED
      BY <1>0, <2>1, <2>2, <3>1 DEF Rec!Row
  <2>6. RecsOK'
    BY <1>0, <2>5
  <2>7. next \in Rec!Request
    BY <2>1 DEF Rec!Request
  <2>8. ReqOK' /\ RefsKept'
    BY <1>b, <2>1, <2>2, <2>5, <2>7
  <2> QED
    BY <1>0, <1>a, <2>2, <2>4, <2>6, <2>8
<1>6. ASSUME NEW c \in Clients, Rec!Refresh(c) PROVE Typed'
  <2> DEFINE row == recs[recReq[c].rec]
             next == [pc |-> "room_type", type |-> recReq[c].type, price |-> Rec!PriceOf(row)]
  <2>1. /\ recReq[c].pc = "refresh" /\ Rec!Continue(c, IF Rec!Applies(row) THEN next ELSE Rec!Idle)
        /\ UNCHANGED <<recs, price, decided, recRaced, recBroken>>
    BY <1>6 DEF Rec!Refresh
  <2>2. row \in Rec!Row /\ row.ref = recReq[c].type
    BY <1>0, <2>1 DEF RefsKept
  <2>3. Rec!Applies(row) => next \in Rec!Request
    BY <2>2, PriceOfType DEF Rec!Applies, Rec!Request
  <2>4. ReqOK' /\ RefsKept'
    BY <1>0, <1>b, <2>1, <2>3
  <2> QED
    BY <1>0, <1>a, <1>c, <2>1, <2>4
<1>7. ASSUME NEW c \in Clients, Rec!ReadRoomType(c) PROVE Typed'
  <2> DEFINE next == [pc |-> "price", type |-> recReq[c].type, price |-> recReq[c].price,
                      seen |-> price[recReq[c].type]]
  <2>1. Rec!Continue(c, next) /\ UNCHANGED <<recs, price, decided, recRaced, recBroken>>
    BY <1>7 DEF Rec!ReadRoomType
  <2>2. next \in Rec!Request
    BY <1>0, <1>7, RecommendationFields DEF Rec!ReadRoomType, Rec!Request
  <2>3. ReqOK' /\ RefsKept'
    BY <1>b, <2>1, <2>2
  <2> QED
    BY <1>0, <1>a, <1>c, <2>1, <2>3
<1>8. ASSUME NEW c \in Clients, Rec!WritePrice(c) PROVE Typed'
  <2>1. /\ price' = [price EXCEPT ![recReq[c].type] = Rec!Column(recReq[c].price, recReq[c].seen, @)]
        /\ Rec!Continue(c, Rec!Idle) /\ UNCHANGED <<recs, decided, recRaced, recBroken>>
    BY <1>8 DEF Rec!WritePrice
  <2>2. PricesOK'
    BY <1>0, <1>8, <2>1, RecommendationFields DEF Rec!WritePrice, Rec!Column
  <2>3. ReqOK' /\ RefsKept'
    BY <1>0, <1>b, <2>1
  <2> QED
    BY <1>0, <1>a, <1>c, <2>1, <2>2, <2>3
<1>9. ASSUME NEW c \in Clients, Rec!Fail(c) PROVE Typed'
  <2>1. /\ Rec!Continue(c, Rec!Idle) /\ UNCHANGED <<recs, price, decided, recRaced>>
        /\ recBroken' \subseteq recBroken \cup {recReq[c].type} /\ recReq[c].type \in Rec!Refs
    BY <1>0, <1>9, RecommendationFields DEF Rec!Fail
  <2>2. ReqOK' /\ RefsKept'
    BY <1>0, <1>b, <2>1
  <2> QED
    BY <1>0, <1>a, <1>c, <2>1, <2>2
<1>10. CASE UNCHANGED Rec!vars
  BY <1>10 DEF Rec!vars, Typed, Rec!TypeOK, RefsKept
<1> QED
  BY <1>1, <1>2, <1>3, <1>4, <1>5, <1>6, <1>7, <1>8, <1>9, <1>10 DEF Rec!Next

LEMMA TypedInit == Rec!Init => Typed
<1> SUFFICES ASSUME Rec!Init PROVE Typed
  OBVIOUS
<1>1. recs \in [{} -> Rec!Row]
  BY DEF Rec!Init
<1>2. Rec!Idle \in Rec!Request /\ Rec!Idle.pc = "idle"
  BY DEF Rec!Idle, Rec!Request
<1> QED
  BY <1>1, <1>2 DEF Rec!Init, Typed, Rec!TypeOK, RefsKept

\* Every recommendation, request and price is of its kind, and what is applied to
\* a room type is a price.
THEOREM RecommendationsType == Rec!Spec => []Rec!TypeOK
<1>1. Typed /\ [Rec!Next]_(Rec!vars) => Typed'
  BY TypedStep
<1>2. Typed => Rec!TypeOK
  BY DEF Typed
<1> QED
  BY TypedInit, <1>1, <1>2, PTL DEF Rec!Spec
-----------------------------------------------------------------------------
(* Prices and decisions *)

\* What a row of a decided recommendation makes the price.
Decided(row, type) == IF Rec!Applies(row) THEN decided[type] = Rec!PriceOf(row)
                      ELSE price[type] = decided[type]

\* The row a request read still reads the same, but for its measured outcome.
StillAsSeen(q) == /\ q.seen.status = recs[q.rec].status
                  /\ q.seen.applied = recs[q.rec].applied
                  /\ q.seen.offer = recs[q.rec].offer

\* What the one request on a room type knows, by its step.
OnItsWay(q, type) ==
  /\ q.pc = "decide" => StillAsSeen(q) /\ price[type] = decided[type]
  /\ q.pc = "refresh" => Decided(recs[q.rec], type)
  /\ q.pc = "room_type" => q.price = decided[type]
  /\ q.pc = "price" => q.price = decided[type] /\ q.seen = price[type]

Follows(type) ==
  /\ \A c, d \in Clients : Rec!WorksOn(c, type) /\ Rec!WorksOn(d, type) => c = d
  /\ \A c \in Clients : Rec!WorksOn(c, type) => OnItsWay(recReq[c], type)
  /\ (\A c \in Clients : ~Rec!WorksOn(c, type)) => price[type] = decided[type]

AllFollow == \A type \in RoomTypes \ (recRaced \cup recBroken) : Follows(type)

\* A step of the one request on a room type.
LEMMA OwnStep ==
  ASSUME Typed, NEW type, Follows(type), NEW c \in Clients, Rec!WorksOn(c, type),
         NEW q, Rec!Continue(c, q),
         q = Rec!Idle => price'[type] = decided'[type],
         q # Rec!Idle => q.type = type /\ OnItsWay(q, type)'
  PROVE  Follows(type)'
<1>1. \A d \in Clients : recReq'[d] = IF d = c THEN q ELSE recReq[d]
  BY DEF Typed, Rec!TypeOK, Rec!Continue
<1>2. \A d \in Clients : d # c => ~Rec!WorksOn(d, type)
  BY DEF Follows
<1>3. \A d \in Clients : Rec!WorksOn(d, type)' <=> d = c /\ q # Rec!Idle
  BY <1>1, <1>2 DEF Rec!WorksOn
<1>4. Rec!WorksOn(c, type)' => OnItsWay(recReq[c], type)'
  BY <1>1, <1>3 DEF OnItsWay, StillAsSeen, Decided
<1> QED
  BY <1>3, <1>4 DEF Follows

\* A step of a request on another room type, or of none.
LEMMA OtherStep ==
  ASSUME Typed, NEW type, Follows(type), NEW c \in Clients, ~Rec!WorksOn(c, type),
         NEW q, Rec!Continue(c, q), q # Rec!Idle => q.type # type,
         price'[type] = price[type], decided'[type] = decided[type],
         \A d \in Clients : Rec!WorksOn(d, type) /\ recReq[d].pc \in {"decide", "refresh"} =>
           recs'[recReq[d].rec] = recs[recReq[d].rec]
  PROVE  Follows(type)'
<1>1. \A d \in Clients : recReq'[d] = IF d = c THEN q ELSE recReq[d]
  BY DEF Typed, Rec!TypeOK, Rec!Continue
<1>2. \A d \in Clients : (Rec!WorksOn(d, type)' <=> Rec!WorksOn(d, type))
                         /\ (Rec!WorksOn(d, type) => recReq'[d] = recReq[d])
  BY <1>1 DEF Rec!WorksOn
<1>3. ASSUME NEW d \in Clients, Rec!WorksOn(d, type) PROVE OnItsWay(recReq[d], type)'
  <2>1. OnItsWay(recReq[d], type) /\ recReq'[d] = recReq[d]
    BY <1>2, <1>3 DEF Follows
  <2>2. recReq[d].pc \in {"decide", "refresh"} => recs'[recReq[d].rec] = recs[recReq[d].rec]
    BY <1>3
  <2>3. \A row : Decided(row, type)' <=> Decided(row, type)
    BY DEF Decided, Rec!Applies, Rec!PriceOf
  <2> QED
    BY <2>1, <2>2, <2>3 DEF OnItsWay, StillAsSeen
<1> QED
  BY <1>2, <1>3 DEF Follows

\* A request begins on a room type no other works on.
LEMMA FirstStep ==
  ASSUME Typed, NEW type, Follows(type), NEW c \in Clients, NEW q, Rec!Continue(c, q),
         \A d \in Clients : ~Rec!WorksOn(d, type),
         q # Rec!Idle, q.type = type, OnItsWay(q, type)'
  PROVE  Follows(type)'
<1>1. \A d \in Clients : recReq'[d] = IF d = c THEN q ELSE recReq[d]
  BY DEF Typed, Rec!TypeOK, Rec!Continue
<1>2. \A d \in Clients : Rec!WorksOn(d, type)' <=> d = c
  BY <1>1 DEF Rec!WorksOn
<1>3. OnItsWay(recReq[c], type)'
  BY <1>1 DEF OnItsWay, StillAsSeen, Decided
<1> QED
  BY <1>2, <1>3 DEF Follows

\* Nobody's request goes on, and rows change in their measured outcome only.
LEMMA RowsStep ==
  ASSUME Typed, NEW type, Follows(type), UNCHANGED <<recReq, price, decided>>,
         \A r \in DOMAIN recs :
           /\ recs'[r].status = recs[r].status /\ recs'[r].applied = recs[r].applied
           /\ recs'[r].offer = recs[r].offer /\ recs'[r].ref = recs[r].ref
  PROVE  Follows(type)'
<1>1. \A d \in Clients : Rec!WorksOn(d, type)' <=> Rec!WorksOn(d, type)
  BY DEF Rec!WorksOn
<1>2. ASSUME NEW d \in Clients, Rec!WorksOn(d, type) PROVE OnItsWay(recReq[d], type)'
  <2>1. OnItsWay(recReq[d], type)
    BY <1>2 DEF Follows
  <2>2. recReq[d].pc \in {"decide", "refresh"} => recReq[d].rec \in DOMAIN recs
    BY DEF Typed, RefsKept
  <2>3. recReq[d].pc = "decide" => StillAsSeen(recReq[d])'
    BY <2>1, <2>2 DEF OnItsWay, StillAsSeen
  <2>4. recReq[d].pc = "refresh" => Decided(recs[recReq[d].rec], type)'
    BY <2>1, <2>2 DEF OnItsWay, Decided, Rec!Applies, Rec!PriceOf
  <2> QED
    BY <2>1, <2>3, <2>4 DEF OnItsWay
<1> QED
  BY <1>1, <1>2 DEF Follows

LEMMA FollowStep == Typed /\ AllFollow /\ [Rec!Next]_(Rec!vars) => AllFollow'
<1> SUFFICES ASSUME Typed, AllFollow, [Rec!Next]_(Rec!vars),
                    NEW type \in RoomTypes \ (recRaced' \cup recBroken')
             PROVE  Follows(type)'
  BY DEF AllFollow
<1> DEFINE Kept == type \notin recRaced /\ type \notin recBroken
<1>0. /\ Kept => Follows(type)
      /\ \A c \in Clients : recReq[c] \in Rec!Request
      /\ \A r \in DOMAIN recs : r \in RecIds /\ recs[r] \in Rec!Row
      /\ price \in [RoomTypes -> Prices] /\ decided \in [RoomTypes -> Prices]
      /\ Rec!Idle.pc = "idle"
  BY DEF AllFollow, Typed, Rec!TypeOK, Rec!Idle
<1>a. \A c \in Clients : recReq[c] # Rec!Idle /\ ~Rec!WorksOn(c, type) => recReq[c].type # type
  BY DEF Rec!WorksOn
<1>1. ASSUME NEW r \in RecIds, NEW ref \in Rec!Refs, NEW offer \in Prices, Rec!Show(r, ref, offer)
      PROVE  Follows(type)'
  <2>1. /\ \A x \in DOMAIN recs : recs'[x] = recs[x]
        /\ UNCHANGED <<price, recReq, decided, recRaced, recBroken>>
    BY <1>1 DEF Rec!Show
  <2> QED
    BY <1>0, <2>1, RowsStep
<1>2. ASSUME NEW r \in RecIds, Rec!MeasureOutcome(r) PROVE Follows(type)'
  <2>1. /\ r \in DOMAIN recs /\ recs' = [recs EXCEPT ![r].measured = TRUE]
        /\ UNCHANGED <<price, recReq, decided, recRaced, recBroken>>
    BY <1>2 DEF Rec!MeasureOutcome
  <2>2. \A x \in DOMAIN recs :
          /\ recs'[x].status = recs[x].status /\ recs'[x].applied = recs[x].applied
          /\ recs'[x].offer = recs[x].offer /\ recs'[x].ref = recs[x].ref
    BY <1>0, <2>1 DEF Rec!Row
  <2> QED
    BY <1>0, <2>1, <2>2, RowsStep
<1>3. ASSUME NEW c \in Clients, NEW r \in RecIds, NEW answer \in Answers,
             Rec!ReadToDecide(c, r, answer)
      PROVE  Follows(type)'
  <2>0. PICK q : q = [pc |-> "decide", rec |-> r, type |-> recs[r].ref,
                      seen |-> recs[r], answer |-> answer]
    OBVIOUS
  <2>1. /\ recReq[c] = Rec!Idle /\ Rec!Continue(c, q) /\ UNCHANGED <<recs, price, decided, recBroken>>
        /\ recRaced' = IF \E d \in Clients : Rec!WorksOn(d, recs[r].ref)
                    THEN recRaced \cup {recs[r].ref} ELSE recRaced
    BY <1>3, <2>0 DEF Rec!ReadToDecide, Rec!Begin
  <2>2. Follows(type) /\ ~Rec!WorksOn(c, type)
    BY <1>0, <2>1 DEF Rec!WorksOn
  <2>3. CASE recs[r].ref # type
    BY <2>0, <2>1, <2>2, <2>3, OtherStep
  <2>4. CASE recs[r].ref = type
    <3>1. \A d \in Clients : ~Rec!WorksOn(d, type)
      BY <2>1, <2>4
    <3>2. price[type] = decided[type]
      BY <2>2, <3>1 DEF Follows
    <3>3. OnItsWay(q, type)'
      BY <2>0, <2>1, <3>2 DEF OnItsWay, StillAsSeen
    <3>4. q # Rec!Idle /\ q.type = type
      BY <1>0, <2>0, <2>4
    <3> QED
      BY <2>1, <2>2, <3>1, <3>3, <3>4, FirstStep
  <2> QED
    BY <2>3, <2>4
<1>4. ASSUME NEW c \in Clients, NEW t \in RoomTypes, NEW p \in Prices,
             Rec!UpdateRoomType(c, t, p)
      PROVE  Follows(type)'
  <2> DEFINE q == [pc |-> "room_type", type |-> t, price |-> p]
  <2>1. /\ recReq[c] = Rec!Idle /\ Rec!Continue(c, q) /\ UNCHANGED <<recs, price, recBroken>>
        /\ decided' = [decided EXCEPT ![t] = p]
        /\ recRaced' = IF \E d \in Clients : Rec!WorksOn(d, t) THEN recRaced \cup {t} ELSE recRaced
    BY <1>4 DEF Rec!UpdateRoomType, Rec!Begin
  <2>2. Follows(type) /\ ~Rec!WorksOn(c, type)
    BY <1>0, <2>1 DEF Rec!WorksOn
  <2>3. CASE t # type
    BY <1>0, <2>1, <2>2, <2>3, OtherStep
  <2>4. CASE t = type
    <3>1. \A d \in Clients : ~Rec!WorksOn(d, type)
      BY <2>1, <2>4
    <3>2. OnItsWay(q, type)'
      BY <1>0, <2>1, <2>4 DEF OnItsWay
    <3>3. q # Rec!Idle /\ q.type = type
      BY <1>0, <2>4
    <3> HIDE DEF q
    <3> QED
      BY <2>1, <2>2, <3>1, <3>2, <3>3, FirstStep
  <2> QED
    BY <2>3, <2>4
<1>5. ASSUME NEW c \in Clients, Rec!WriteDecision(c) PROVE Follows(type)'
  <2>0. PICK q : q = recReq[c]
    OBVIOUS
  <2> DEFINE asked == [q.seen EXCEPT !.status = q.answer.status, !.applied = q.answer.applied]
             next == [pc |-> "refresh", rec |-> q.rec, type |-> q.type]
  <2>1. /\ q.pc = "decide" /\ q # Rec!Idle /\ q.seen \in Rec!Row /\ q.rec \in DOMAIN recs
        /\ recs[q.rec] \in Rec!Row /\ recs[q.rec].ref = q.type /\ q.seen.ref = q.type
    BY <1>0, <1>5, <2>0, RecommendationFields DEF Rec!WriteDecision, Typed, RefsKept
  <2>2. /\ recs' = [recs EXCEPT
                      ![q.rec].status = Rec!Column(q.answer.status, q.seen.status, @),
                      ![q.rec].applied = Rec!Column(q.answer.applied, q.seen.applied, @)]
        /\ decided' = IF Rec!Applies(asked) THEN [decided EXCEPT ![q.type] = Rec!PriceOf(asked)]
                      ELSE decided
        /\ Rec!Continue(c, next) /\ UNCHANGED <<price, recRaced, recBroken>>
    BY <1>5, <2>0 DEF Rec!WriteDecision
  <2>3. Follows(type) /\ (Rec!WorksOn(c, type) <=> q.type = type) /\ next # Rec!Idle
    BY <1>0, <2>0, <2>1, <2>2 DEF Rec!WorksOn
  <2>4. CASE q.type # type
    <3>1. \A d \in Clients : Rec!WorksOn(d, type) /\ recReq[d].pc \in {"decide", "refresh"} =>
            recs'[recReq[d].rec] = recs[recReq[d].rec]
      BY <2>1, <2>2, <2>4 DEF Rec!WorksOn, Typed, RefsKept
    <3>2. decided'[type] = decided[type]
      BY <1>0, <2>2, <2>4
    <3> QED
      BY <2>2, <2>3, <2>4, <3>1, <3>2, OtherStep
  <2>5. CASE q.type = type
    <3>1. StillAsSeen(q) /\ price[type] = decided[type]
      BY <2>0, <2>1, <2>3, <2>5 DEF Follows, OnItsWay
    <3> DEFINE row == recs'[q.rec]
    <3>2. /\ row.status = q.answer.status /\ row.applied = q.answer.applied
          /\ row.offer = q.seen.offer /\ row.ref = q.seen.ref
      BY <2>1, <2>2, <3>1 DEF Rec!Column, StillAsSeen, Rec!Row
    <3>3. /\ asked.status = q.answer.status /\ asked.applied = q.answer.applied
          /\ asked.offer = q.seen.offer /\ asked.ref = q.seen.ref
      BY <2>1 DEF Rec!Row
    <3> HIDE DEF asked, row
    <3>4. (Rec!Applies(row) <=> Rec!Applies(asked)) /\ Rec!PriceOf(row) = Rec!PriceOf(asked)
      BY <3>2, <3>3 DEF Rec!Applies, Rec!PriceOf
    <3>5. IF Rec!Applies(row) THEN decided'[type] = Rec!PriceOf(row) ELSE price'[type] = decided'[type]
      BY <1>0, <2>2, <2>5, <3>1, <3>4
    <3>6. Decided(recs[q.rec], type)'
      BY <3>5 DEF Decided, Rec!Applies, Rec!PriceOf, row
    <3>7. OnItsWay(next, type)'
      BY <3>6 DEF OnItsWay
    <3> HIDE DEF next
    <3> QED
      BY <2>2, <2>3, <2>5, <3>7, OwnStep DEF next
  <2> QED
    BY <2>4, <2>5
<1>6. ASSUME NEW c \in Clients, Rec!Refresh(c) PROVE Follows(type)'
  <2> DEFINE row == recs[recReq[c].rec]
             ask == [pc |-> "room_type", type |-> recReq[c].type, price |-> Rec!PriceOf(row)]
  <2>0. PICK q : q = IF Rec!Applies(row) THEN ask ELSE Rec!Idle
    OBVIOUS
  <2>1. /\ recReq[c].pc = "refresh" /\ Rec!Continue(c, q)
        /\ UNCHANGED <<recs, price, decided, recRaced, recBroken>>
    BY <1>6, <2>0 DEF Rec!Refresh
  <2>2. Follows(type) /\ recReq[c] # Rec!Idle
    BY <1>0, <2>1
  <2>3. q # Rec!Idle => q.type = recReq[c].type
    BY <2>0
  <2>4. CASE ~Rec!WorksOn(c, type)
    BY <1>a, <2>1, <2>2, <2>3, <2>4, OtherStep
  <2>5. CASE Rec!WorksOn(c, type)
    <3>1. Decided(row, type) /\ recReq[c].type = type
      BY <2>1, <2>2, <2>5 DEF Follows, OnItsWay, Rec!WorksOn
    <3>2. q = Rec!Idle => price'[type] = decided'[type]
      BY <1>0, <2>0, <2>1, <3>1 DEF Decided
    <3>3. q # Rec!Idle => OnItsWay(q, type)'
      BY <1>0, <2>0, <2>1, <3>1 DEF OnItsWay, Decided
    <3> QED
      BY <2>1, <2>2, <2>3, <2>5, <3>1, <3>2, <3>3, OwnStep
  <2> QED
    BY <2>4, <2>5
<1>7. ASSUME NEW c \in Clients, Rec!ReadRoomType(c) PROVE Follows(type)'
  <2>0. PICK q : q = [pc |-> "price", type |-> recReq[c].type, price |-> recReq[c].price,
                      seen |-> price[recReq[c].type]]
    OBVIOUS
  <2>1. /\ recReq[c].pc = "room_type" /\ Rec!Continue(c, q)
        /\ UNCHANGED <<recs, price, decided, recRaced, recBroken>>
    BY <1>7, <2>0 DEF Rec!ReadRoomType
  <2>2. Follows(type) /\ recReq[c] # Rec!Idle /\ q # Rec!Idle /\ q.type = recReq[c].type
    BY <1>0, <2>0, <2>1
  <2>3. CASE ~Rec!WorksOn(c, type)
    BY <1>a, <2>1, <2>2, <2>3, OtherStep
  <2>4. CASE Rec!WorksOn(c, type)
    <3>1. recReq[c].price = decided[type] /\ recReq[c].type = type
      BY <2>1, <2>2, <2>4 DEF Follows, OnItsWay, Rec!WorksOn
    <3>2. OnItsWay(q, type)'
      BY <2>0, <2>1, <3>1 DEF OnItsWay
    <3> QED
      BY <2>1, <2>2, <2>4, <3>1, <3>2, OwnStep
  <2> QED
    BY <2>3, <2>4
<1>8. ASSUME NEW c \in Clients, Rec!WritePrice(c) PROVE Follows(type)'
  <2>1. /\ recReq[c].pc = "price" /\ Rec!Continue(c, Rec!Idle)
        /\ price' = [price EXCEPT ![recReq[c].type] = Rec!Column(recReq[c].price, recReq[c].seen, @)]
        /\ UNCHANGED <<recs, decided, recRaced, recBroken>>
    BY <1>8 DEF Rec!WritePrice
  <2>2. Follows(type) /\ recReq[c] # Rec!Idle
    BY <1>0, <2>1
  <2>3. CASE ~Rec!WorksOn(c, type)
    BY <1>0, <1>a, <2>1, <2>2, <2>3, OtherStep
  <2>4. CASE Rec!WorksOn(c, type)
    <3>1. /\ recReq[c].price = decided[type] /\ recReq[c].seen = price[type]
          /\ recReq[c].type = type
      BY <2>1, <2>2, <2>4 DEF Follows, OnItsWay, Rec!WorksOn
    <3>2. price'[type] = decided'[type]
      BY <1>0, <2>1, <3>1 DEF Rec!Column
    <3> QED
      BY <2>1, <2>2, <2>4, <3>2, OwnStep
  <2> QED
    BY <2>3, <2>4
<1>9. ASSUME NEW c \in Clients, Rec!Fail(c) PROVE Follows(type)'
  <2>1. /\ recReq[c] # Rec!Idle /\ Rec!Continue(c, Rec!Idle) /\ UNCHANGED <<recs, price, decided, recRaced>>
        /\ recBroken' = IF recReq[c].pc # "decide" THEN recBroken \cup {recReq[c].type} ELSE recBroken
    BY <1>9 DEF Rec!Fail
  <2>2. Follows(type)
    BY <1>0, <2>1
  <2>3. CASE ~Rec!WorksOn(c, type)
    BY <2>1, <2>2, <2>3, OtherStep
  <2>4. CASE Rec!WorksOn(c, type)
    <3>1. recReq[c].pc = "decide"
      BY <2>1, <2>4 DEF Rec!WorksOn
    <3>2. price[type] = decided[type]
      BY <2>2, <2>4, <3>1 DEF Follows, OnItsWay
    <3> QED
      BY <2>1, <2>2, <2>4, <3>2, OwnStep
  <2> QED
    BY <2>3, <2>4
<1>10. CASE UNCHANGED Rec!vars
  BY <1>0, <1>10, RowsStep DEF Rec!vars
<1> QED
  BY <1>1, <1>2, <1>3, <1>4, <1>5, <1>6, <1>7, <1>8, <1>9, <1>10 DEF Rec!Next

\* Whatever recommendations are accepted, modified, dismissed and decided again
\* by however many requests, the price of a room type that no two of them worked
\* on at once is what was last decided.
THEOREM RecommendationsPriceFollowsDecision ==
  Rec!Spec => []Rec!PriceFollowsDecision
<1>1. Rec!Init => AllFollow
  BY DEF Rec!Init, AllFollow, Follows, Rec!WorksOn
<1>2. Typed /\ [Rec!Next]_(Rec!vars) => Typed'
  BY TypedStep
<1>3. Typed /\ AllFollow /\ [Rec!Next]_(Rec!vars) => AllFollow'
  BY FollowStep
<1>4. AllFollow => Rec!PriceFollowsDecision
  BY DEF AllFollow, Follows, Rec!PriceFollowsDecision
<1> QED
  BY TypedInit, <1>1, <1>2, <1>3, <1>4, PTL DEF Rec!Spec

=============================================================================
