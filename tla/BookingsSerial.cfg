SPECIFICATION Spec
CONSTANTS
  Clients = {c1}
  Reservations = {r1, r2}
  Rooms = {room}
  Days = {0, 1, 2}
  StaffChoices = {"OCCUPIED"}
  MaxCommits = 4
SYMMETRY Symmetry
CONSTRAINT NoCopy
INVARIANTS NoDoubleBooking RoomFollowsStay
PROPERTIES StatusFollowsTable
