SPECIFICATION Spec
CONSTANTS
  Clients = {c1, c2}
  Orders = {o1}
  Items = {i1, i2}
  Subtotals <- SubtotalChoices
SYMMETRY Symmetry
INVARIANTS TypeOK NeverOvercharged TotalMatchesItems BilledOnce
PROPERTIES EndedStaysAsItIs
CHECK_DEADLOCK FALSE
CONSTRAINT OneCopy
