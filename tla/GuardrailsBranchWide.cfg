SPECIFICATION Spec
CONSTANTS
  Clients = {c1}
  RoomTypes = {t1}
  Departments = {d1}
  BranchWide = null
  GuardIds = {g1, g2}
  Limits <- MCLimits
  Prices = {1}
INVARIANT BranchWideStays
