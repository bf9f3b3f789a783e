SPECIFICATION Spec
CONSTANTS
  Clients = {c1, c2}
  Reservations = {r1, r2}
  Rooms = {room}
  Days = {0, 1}
  StaffChoices = {"OCCUPIED"}
  MaxCommits = 3
SYMMETRY Symmetry
CONSTRAINT NoCopy
INVARIANT NoDoubleBooking
