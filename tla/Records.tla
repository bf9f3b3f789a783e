------------------------------ MODULE Records ------------------------------
(***************************************************************************)
(* The rows that are created once and updated in place: the hotel          *)
(* catalogue (app/services/hotel.py), the staff (app/services/staff.py),   *)
(* menu and tables (app/services/restaurant.py) and the guests             *)
(* (app/services/booking.py), over BaseRepository.                         *)
(*                                                                         *)
(* A request reads the row, sets some columns and commits.  The ORM sends  *)
(* the columns whose new value differs from the one it read, and no lock   *)
(* is held in between.  Rows are never deleted; the read-back that makes   *)
(* the response is left out.                                               *)
(***************************************************************************)
EXTENDS Naturals

CONSTANTS
  Clients,   \* concurrent HTTP requests, one at a time per client
  RowIds,    \* ids the database may hand out
  Columns,   \* the columns an instance looks at
  Values,    \* what users put into them
  Statuses,  \* of rooms and of restaurant tables, of which
  Available, \* this one is the default
  Null

VARIABLES
  rows,      \* the rows of all tables, by id
  req,       \* what each client's request is about to do
  last,      \* history: what was last asked of every column
  raced      \* history: columns of rows that two requests set at once

vars == <<rows, req, last, raced>>

HotelTables == {"hotels", "branches", "room_types", "floors", "rooms"}
StaffTables == {"departments", "employees", "schedules", "attendance"}
RestaurantTables == {"food_categories", "menu_items", "restaurant_tables"}

Tables == HotelTables \cup StaffTables \cup RestaurantTables \cup {"guests"}

\* The columns a PUT can set, by the schema of its payload.
HotelUpdate == {"name", "star_rating", "address", "city", "country", "phone", "email"}
BranchUpdate == {"name", "address", "city", "phone", "is_main_branch"}
RoomTypeUpdate == {"name", "base_price", "max_occupancy", "description"}
EmployeeUpdate == {"first_name", "last_name", "phone", "role", "department_id"}
MenuItemUpdate == {"name", "description", "price", "is_available"}
GuestUpdate == {"first_name", "last_name", "phone", "id_type", "id_number", "nationality"}

\* All a handler may ever change in a row, as far as the instance looks.
Changeable(table) ==
  Columns \cap
    CASE table = "hotels" -> HotelUpdate \cup {"is_active"}
      [] table = "branches" -> BranchUpdate
      [] table = "room_types" -> RoomTypeUpdate
      [] table = "employees" -> EmployeeUpdate \cup {"is_active"}
      [] table = "menu_items" -> MenuItemUpdate
      [] table = "guests" -> GuestUpdate
      [] table \in {"rooms", "restaurant_tables"} -> {"status"}
      [] table = "attendance" -> {"clock_out"}
      [] OTHER -> {}

Cells == Values \cup Statuses \cup BOOLEAN \cup {Null}

Row(table) == [table : {table}, value : [Changeable(table) -> Cells]]

Idle == [pc |-> "idle"]

\* A request that has read a row of `table` and is about to set `cols`.
Request(table, cols) ==
  [pc : {"write"}, row : RowIds, changes : [cols -> Cells], seen : Row(table)]

Setting(c, id, col) ==
  req[c] # Idle /\ req[c].row = id /\ col \in DOMAIN req[c].changes
-----------------------------------------------------------------------------
(* Inserts *)

\* BaseRepository.create: the payload and the models' defaults; rows are active,
\* rooms and tables available, nobody is clocked out.
Create(id, table, v) ==
  /\ id \notin DOMAIN rows
  /\ LET row == [table |-> table,
                 value |-> [col \in Changeable(table) |->
                   CASE col = "is_active" -> TRUE
                     [] col = "status" -> Available
                     [] col = "clock_out" -> Null
                     [] OTHER -> v]] IN
     /\ rows' = [i \in DOMAIN rows \cup {id} |-> IF i = id THEN row ELSE rows[i]]
     /\ last' = [i \in DOMAIN rows \cup {id} |-> IF i = id THEN row.value ELSE last[i]]
  /\ UNCHANGED <<req, raced>>

CreateHotel(id, v) == Create(id, "hotels", v)
CreateBranch(id, v) == Create(id, "branches", v)
CreateRoomType(id, v) == Create(id, "room_types", v)
CreateFloor(id, v) == Create(id, "floors", v)
CreateRoom(id, v) == Create(id, "rooms", v)
CreateDepartment(id, v) == Create(id, "departments", v)
CreateSchedule(id, v) == Create(id, "schedules", v)
ClockIn(id, v) == Create(id, "attendance", v)
CreateCategory(id, v) == Create(id, "food_categories", v)
CreateMenuItem(id, v) == Create(id, "menu_items", v)
CreateTable(id, v) == Create(id, "restaurant_tables", v)

\* An e-mail that is taken is refused by a unique constraint, of a guest by a
\* look-up before it, and nothing is inserted.
CreateEmployee(id, v) == Create(id, "employees", v)
CreateGuest(id, v) == Create(id, "guests", v)
-----------------------------------------------------------------------------
(* Updates *)

\* A handler reads the row (404 when there is none) and sets `changes` on it.
Read(c, id, table, changes) ==
  /\ req[c] = Idle
  /\ id \in DOMAIN rows /\ rows[id].table = table
  /\ req' = [req EXCEPT ![c] = [pc |-> "write", row |-> id, changes |-> changes,
                                seen |-> rows[id]]]
  /\ raced' = raced \cup {<<id, col>> : col \in {x \in DOMAIN changes :
                                          \E d \in Clients : Setting(d, id, x)}}
  /\ UNCHANGED <<rows, last>>

\* PUT: model_dump(exclude_none=True), so a column can be set and never cleared.
Put(c, id, table, columns) ==
  \E cols \in SUBSET (Columns \cap columns) :
    \E changes \in [cols -> Values] : Read(c, id, table, changes)

UpdateHotel(c, id) == Put(c, id, "hotels", HotelUpdate)
UpdateBranch(c, id) == Put(c, id, "branches", BranchUpdate)
UpdateRoomType(c, id) == Put(c, id, "room_types", RoomTypeUpdate)
UpdateEmployee(c, id) == Put(c, id, "employees", EmployeeUpdate)
UpdateMenuItem(c, id) == Put(c, id, "menu_items", MenuItemUpdate)
UpdateGuest(c, id) == Put(c, id, "guests", GuestUpdate)

\* PATCH and DELETE: one column, whatever it holds.
SetColumn(c, id, table, col, v) == Read(c, id, table, [x \in {col} \cap Columns |-> v])

DeactivateHotel(c, id) == SetColumn(c, id, "hotels", "is_active", FALSE)
DeactivateEmployee(c, id) == SetColumn(c, id, "employees", "is_active", FALSE)

\* Any of the statuses from any other; of a room, what is none of them answers 422.
UpdateRoomStatus(c, id, status) == SetColumn(c, id, "rooms", "status", status)
UpdateTableStatus(c, id, status) == SetColumn(c, id, "restaurant_tables", "status", status)

\* Mutation: a second clock-out is taken.
ClockOutAgain(c, id, time) == SetColumn(c, id, "attendance", "clock_out", time)

\* An attendance record that has a clock_out answers 422.
ClockOut(c, id, time) ==
  /\ id \in DOMAIN rows /\ rows[id].table = "attendance"
  /\ rows[id].value["clock_out"] = Null
  /\ SetColumn(c, id, "attendance", "clock_out", time)

\* Mutation: the session sends every column it read.
WrittenWhole(q, now) ==
  [col \in DOMAIN now |-> IF col \in DOMAIN q.changes THEN q.changes[col]
                          ELSE q.seen.value[col]]

\* What the UPDATE leaves in the row's columns.
Written(q, now) ==
  [col \in DOMAIN now |->
     IF col \in DOMAIN q.changes /\ q.changes[col] # q.seen.value[col]
     THEN q.changes[col] ELSE now[col]]

\* BaseRepository.update
Write(c) ==
  /\ req[c].pc = "write"
  /\ LET q == req[c] IN
     /\ rows' = [rows EXCEPT ![q.row].value = Written(q, @)]
     /\ last' = [last EXCEPT ![q.row] =
                   [col \in DOMAIN @ |-> IF col \in DOMAIN q.changes THEN q.changes[col]
                                         ELSE @[col]]]
  /\ req' = [req EXCEPT ![c] = Idle]
  /\ UNCHANGED raced

\* A statement raises or the process dies before the commit.
Fail(c) ==
  /\ req[c] # Idle
  /\ req' = [req EXCEPT ![c] = Idle]
  /\ UNCHANGED <<rows, last, raced>>
-----------------------------------------------------------------------------

Init ==
  /\ rows = [id \in {} |-> {}]
  /\ req = [c \in Clients |-> Idle]
  /\ last = [id \in {} |-> {}]
  /\ raced = {}

Catalogue(c, id) ==
  \/ \E v \in Values : CreateHotel(id, v) \/ CreateBranch(id, v) \/ CreateRoomType(id, v)
                        \/ CreateFloor(id, v) \/ CreateRoom(id, v)
  \/ UpdateHotel(c, id) \/ DeactivateHotel(c, id)
  \/ UpdateBranch(c, id) \/ UpdateRoomType(c, id)
  \/ \E status \in Statuses : UpdateRoomStatus(c, id, status)

Staff(c, id) ==
  \/ \E v \in Values : CreateDepartment(id, v) \/ CreateEmployee(id, v)
                        \/ CreateSchedule(id, v) \/ ClockIn(id, v)
  \/ UpdateEmployee(c, id) \/ DeactivateEmployee(c, id)
  \/ \E time \in Values : ClockOut(c, id, time)

Restaurant(c, id) ==
  \/ \E v \in Values : CreateCategory(id, v) \/ CreateMenuItem(id, v) \/ CreateTable(id, v)
  \/ UpdateMenuItem(c, id)
  \/ \E status \in Statuses : UpdateTableStatus(c, id, status)

Guests(c, id) == UpdateGuest(c, id) \/ \E v \in Values : CreateGuest(id, v)

Next ==
  \E c \in Clients :
    \/ \E id \in RowIds : Catalogue(c, id) \/ Staff(c, id) \/ Restaurant(c, id) \/ Guests(c, id)
    \/ Write(c)
    \/ Fail(c)

Spec == Init /\ [][Next]_vars
-----------------------------------------------------------------------------

\* Every row and request is of its kind, and requests are about rows there are.
TypeOK ==
  /\ DOMAIN rows \subseteq RowIds /\ DOMAIN last = DOMAIN rows
  /\ \A id \in DOMAIN rows : \E table \in Tables :
       rows[id] \in Row(table) /\ last[id] \in [Changeable(table) -> Cells]
  /\ DOMAIN req = Clients
  /\ \A c \in Clients : req[c] # Idle =>
       /\ \E table \in Tables : \E cols \in SUBSET Changeable(table) :
            req[c] \in Request(table, cols) /\ rows[req[c].row].table = table
       /\ req[c].row \in DOMAIN rows
  /\ raced \subseteq RowIds \X Columns

\* Requests that change different columns of one row never undo each other: a
\* column that no two requests set at once holds what was last asked of it,
\* though every request wrote on the strength of a row it read earlier.
FieldsKept ==
  \A id \in DOMAIN rows : \A col \in DOMAIN rows[id].value :
    <<id, col>> \notin raced => rows[id].value[col] = last[id][col]

\* A row's step keeps the time of its clock-out, if it has one.
StaysClockedOut(id) ==
  rows[id].table = "attendance" /\ <<id, "clock_out">> \notin raced'
    /\ rows[id].value["clock_out"] # Null
  => rows'[id].value["clock_out"] = rows[id].value["clock_out"]

\* "Already clocked out": the time of an attendance record that was clocked out
\* once stays, unless two clock-outs overlapped.
ClockedOutOnce == [][\A id \in DOMAIN rows : StaysClockedOut(id)]_vars
=============================================================================
