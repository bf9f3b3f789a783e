-------------------------- MODULE MCEventConsumer --------------------------
(* Two topics: a proper event of a topic other than the consumer's first,   *)
(* bytes that do not decode and JSON that is not an object.                 *)
EXTENDS EventConsumer

CONSTANTS t1, t2, e1, garbage, list

MCTopicOf == [id \in Ids |-> IF id = e1 THEN t2 ELSE t1]

MCShape == [id \in Ids |-> CASE id = garbage -> "garbage"
                             [] id = list -> "nonObject"
                             [] OTHER -> "event"]
=============================================================================
