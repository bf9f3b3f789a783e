SPECIFICATION MCSpec
CONSTANTS
  Clients = {c1, c2}
  Ids = {p1, p2}
  ReviewIds = {v1, v2}
  RoomTypes = {t1}
  Departments = {d1}
  GuardIds = {g1, g2}
  RecIds = {r1}
  RowIds = {x1}
  Prices = {1, 2}
  Limits <- MCLimits
  Answers <- MCAnswers
  Hits = {0, 3, 4}
  Columns = {"name", "phone", "is_active", "status", "clock_out"}
  Values = {y, z}
  Statuses = {available, cleaning}
  Available = available
  Null = null
SYMMETRY Symmetry
INVARIANTS
  ServicesTypeOK
  AnnouncedAsCommitted RefundedOnce OneRowPerKey
  PriceFollowsDecision FieldsKept ToldAsStored LabelFollowsWords
PROPERTIES ClampedToGuard Ledger ClockedOutOnce
\* Every row an instance has room for may be there and at its end.
CHECK_DEADLOCK FALSE
