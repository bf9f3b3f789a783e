SPECIFICATION Spec
CONSTANTS
  Clients = {c1, c2}
  Reservations = {r1, r2}
  Rooms = {room}
  Days = {0, 1}
  StaffChoices = {}
  MaxCommits = 3
SYMMETRY Symmetry
CONSTRAINT OneCopy
INVARIANTS TypeOK EventsMatchCommits StatusHasCause
