SPECIFICATION Spec
CONSTANTS
  s1 = s1  p1 = p1  p2 = p2  o1 = o1  o2 = o2
  Stays = {s1}
  Payments = {p1, p2}
  Orders = {o1, o2}
  Amount <- MCAmount
  NoKey = NoKey
  MaxEvents = 2
  MaxReplays = 2
ACTION_CONSTRAINT Cut
INVARIANTS TypeOK NeverOverstated Exact RebuildsUnseen
