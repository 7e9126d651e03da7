------------------------------- MODULE Catalog -------------------------------
(***************************************************************************)
(* The catalog of categories and rooms (internal/service/admin.go) and the *)
(* ticket columns that refer to it: what Create and Update look up before  *)
(* they write.  Nothing here runs in a transaction: a request reads rows   *)
(* with one statement each, works on its copies and writes all columns of  *)
(* one row with a last statement, so a step is one SQL statement and the   *)
(* Go code up to the next one.  The workflow columns of tickets are in     *)
(* TicketService; here a ticket is its category, its room and the room's   *)
(* name, which it keeps a copy of.                                         *)
(***************************************************************************)
EXTENDS Domain, FiniteSets

CONSTANTS
  CategoryId, RoomId, TicketId,    \* the ids the database may hand out
  Name,        \* names of rooms, after trimming
  Blank,       \* the name that is empty after trimming
  FreeText,    \* what clients type as a ticket's room; no room bears it
  Building,    \* the other columns of a room: building and floor
  SeededCategory,  \* the categories the migration fills in
  Seeded,      \* rooms: RoomId -> row or NULL, as the migration fills them
  Request,     \* request slots: bounds the requests in flight at once
  Input,       \* the calls clients make: records [op, roles, id, arg]
  NULL

Room == [name : Name, building : Building, active : BOOLEAN]

Ticket == [category : CategoryId \cup {NULL}, roomId : RoomId \cup {NULL},
           room : Name \cup FreeText \cup {NULL}]

AdminOp == {"create_category", "deactivate_category",
            "create_room", "update_room", "deactivate_room"}

\* The optional fields of a body: a column it does not name is not in the domain.
TicketPatch(p) ==
  /\ DOMAIN p \subseteq {"category", "roomId", "room"}
  /\ \A k \in DOMAIN p : p[k] \in CASE k = "category" -> CategoryId
                                    [] k = "roomId"   -> RoomId
                                    [] k = "room"     -> FreeText

RoomPatch(p) ==
  /\ DOMAIN p \subseteq {"name", "building", "active"}
  /\ \A k \in DOMAIN p : p[k] \in CASE k = "name"     -> Name \cup {Blank}
                                    [] k = "building" -> Building
                                    [] k = "active"   -> BOOLEAN

Op == AdminOp \cup {"create", "update"}

CallOK(c) ==
  /\ c.op \in Op /\ c.roles \subseteq Role
  /\ c.op = "deactivate_category" => c.id \in CategoryId
  /\ c.op \in {"update_room", "deactivate_room"} => c.id \in RoomId
  /\ c.op = "update" => c.id \in TicketId
  /\ c.op \in {"create", "update"} => TicketPatch(c.arg)
  /\ c.op = "update_room" => RoomPatch(c.arg)
  /\ c.op = "create_room" => c.arg \in [name : Name \cup {Blank}, building : Building]

ASSUME InputAssumption == NULL \notin Input /\ \A in \in Input : CallOK(in)

ASSUME NameAssumption ==
  /\ NULL \notin Name \cup FreeText \cup RoomId \cup CategoryId
  /\ Blank \notin Name /\ Name \cap FreeText = {} /\ RoomId \cap CategoryId = {}
  /\ NULL \notin Room /\ NULL \notin Ticket /\ NULL \notin BOOLEAN

ASSUME SeedAssumption ==
  /\ Seeded \in [RoomId -> Room \cup {NULL}]
  /\ \A a, b \in RoomId : a # b /\ Seeded[a] # NULL /\ Seeded[b] # NULL =>
       Seeded[a].name # Seeded[b].name

VARIABLES
  categories,  \* rows of categories: CategoryId -> is_active, or NULL
  rooms,       \* rows of rooms: RoomId -> row or NULL
  tickets,     \* rows of tickets: TicketId -> row or NULL
  pc,          \* where each request is
  call,        \* the call it serves
  row,         \* its copy of the room or ticket row it is going to write
  out,         \* history: ids out of service ever since the request arrived
  touched,     \* history: columns of its row others have changed since it read
  borne        \* history: pairs of a room and a name the room has borne

tables == <<categories, rooms, tickets>>

vars == <<tables, pc, call, row, out, touched, borne>>

Init ==
  /\ categories = [c \in CategoryId |-> IF c \in SeededCategory THEN TRUE ELSE NULL]
  /\ rooms = Seeded
  /\ tickets = [t \in TicketId |-> NULL]
  /\ pc = [r \in Request |-> "idle"]
  /\ call = [r \in Request |-> NULL]
  /\ row = [r \in Request |-> NULL]
  /\ out = [r \in Request |-> {}]
  /\ touched = [r \in Request |-> {}]
  /\ borne = {<<x, Seeded[x].name>> : x \in {y \in RoomId : Seeded[y] # NULL}}

-----------------------------------------------------------------------------
(***************************************************************************)
(* Requests.                                                               *)
(***************************************************************************)

\* RequireRole and the check of the service: the catalog is the administrator's.
Allowed(c) ==
  LET actor == [roles |-> c.roles]
  IN c.op \in AdminOp => IsAdmin(actor) /\ CanManageRooms(actor) /\ CanManageCategories(actor)

\* The lookup that a body asks for, after the step named `done`.
NextLookup(c, done) ==
  IF done = "start" /\ "category" \in DOMAIN c.arg THEN "category"
  ELSE IF "roomId" \in DOMAIN c.arg THEN "room" ELSE "write"

EmptyTicket == [category |-> NULL, roomId |-> NULL, room |-> NULL]

\* The free text of the body, before a room's name replaces it.
WithText(t, arg) == IF "room" \in DOMAIN arg THEN [t EXCEPT !.room = arg.room] ELSE t

\* A request starts with the row it is going to change, or makes a new one.
Arrive(r, c) ==
  /\ pc[r] = "idle"
  /\ Allowed(c)
  /\ c.op = "create_room" => c.arg.name # Blank
  /\ pc' = [pc EXCEPT ![r] = CASE c.op \in {"update", "update_room"} -> "read"
                               [] c.op = "create" -> NextLookup(c, "start")
                               [] OTHER -> "write"]
  /\ call' = [call EXCEPT ![r] = c]
  /\ row' = [row EXCEPT ![r] = IF c.op = "create" THEN WithText(EmptyTicket, c.arg) ELSE NULL]
  /\ UNCHANGED tables

Answer(r) ==
  /\ pc' = [pc EXCEPT ![r] = "idle"]
  /\ call' = [call EXCEPT ![r] = NULL]
  /\ row' = [row EXCEPT ![r] = NULL]

\* A statement fails, a check of TicketService turns the call away, or the client
\* goes away: nothing has been written.
Abort(r) == pc[r] # "idle" /\ Answer(r) /\ UNCHANGED tables

-----------------------------------------------------------------------------
(***************************************************************************)
(* Create and Update of a ticket.                                          *)
(***************************************************************************)

TicketRead(r) ==
  /\ pc[r] = "read" /\ call[r].op = "update"
  /\ IF tickets[call[r].id] # NULL
     THEN /\ row' = [row EXCEPT ![r] = WithText(tickets[call[r].id], call[r].arg)]
          /\ pc' = [pc EXCEPT ![r] = NextLookup(call[r], "start")]
          /\ UNCHANGED call
     ELSE Answer(r)
  /\ UNCHANGED tables

\* Mutant: an inactive category will do.
CategoryLookupAny(r) ==
  /\ pc[r] = "category"
  /\ row' = [row EXCEPT ![r].category = call[r].arg.category]
  /\ pc' = [pc EXCEPT ![r] = NextLookup(call[r], "category")]
  /\ UNCHANGED <<tables, call>>

\* GetCategoryByID: the category must be there and active.
CategoryLookup(r) ==
  /\ pc[r] = "category"
  /\ IF categories[call[r].arg.category] = TRUE
     THEN /\ row' = [row EXCEPT ![r].category = call[r].arg.category]
          /\ pc' = [pc EXCEPT ![r] = NextLookup(call[r], "category")]
          /\ UNCHANGED call
     ELSE Answer(r)
  /\ UNCHANGED tables

\* Mutant: Update takes the id and leaves the name.
RoomLookupIdOnly(r) ==
  /\ pc[r] = "room"
  /\ IF rooms[call[r].arg.roomId] # NULL /\ rooms[call[r].arg.roomId].active
     THEN /\ row' = [row EXCEPT ![r].roomId = call[r].arg.roomId]
          /\ pc' = [pc EXCEPT ![r] = "write"]
          /\ UNCHANGED call
     ELSE Answer(r)
  /\ UNCHANGED tables

\* GetRoomByID: the room must be there and active; the ticket gets its name.
RoomLookup(r) ==
  LET x == call[r].arg.roomId
  IN /\ pc[r] = "room"
     /\ IF rooms[x] # NULL /\ rooms[x].active
        THEN /\ row' = [row EXCEPT ![r].roomId = x, ![r].room = rooms[x].name]
             /\ pc' = [pc EXCEPT ![r] = "write"]
             /\ UNCHANGED call
        ELSE Answer(r)
     /\ UNCHANGED tables

Writes(r, op) == pc[r] = "write" /\ call[r].op = op /\ Answer(r)

\* INSERT INTO tickets.
CreateTicket(r) ==
  /\ Writes(r, "create")
  /\ \E t \in TicketId :
       tickets[t] = NULL /\ tickets' = [tickets EXCEPT ![t] = row[r]]
  /\ UNCHANGED <<categories, rooms>>

\* UPDATE tickets SET every column.
UpdateTicket(r) ==
  /\ Writes(r, "update")
  /\ tickets' = [tickets EXCEPT ![call[r].id] = row[r]]
  /\ UNCHANGED <<categories, rooms>>

-----------------------------------------------------------------------------
(***************************************************************************)
(* The administration of the catalog.                                      *)
(***************************************************************************)

CreateCategory(r) ==
  /\ Writes(r, "create_category")
  /\ \E c \in CategoryId :
       categories[c] = NULL /\ categories' = [categories EXCEPT ![c] = TRUE]
  /\ UNCHANGED <<rooms, tickets>>

DeactivateCategory(r) ==
  /\ Writes(r, "deactivate_category")
  /\ categories' = [categories EXCEPT ![call[r].id] = IF @ = NULL THEN NULL ELSE FALSE]
  /\ UNCHANGED <<rooms, tickets>>

\* Mutant: name TEXT NOT NULL, without UNIQUE.
TakenNever(name, x) == FALSE

\* Another room has the name: the statement violates UNIQUE and fails.
Taken(name, x) == \E y \in RoomId \ {x} : rooms[y] # NULL /\ rooms[y].name = name

CreateRoom(r) ==
  /\ Writes(r, "create_room")
  /\ \E x \in RoomId :
       /\ rooms[x] = NULL
       /\ rooms' = IF Taken(call[r].arg.name, x) THEN rooms
                   ELSE [rooms EXCEPT ![x] = [name |-> call[r].arg.name,
                           building |-> call[r].arg.building, active |-> TRUE]]
  /\ UNCHANGED <<categories, tickets>>

\* The columns that the body names, over those of the room.
PatchedRoom(room, p) ==
  [k \in DOMAIN room |-> IF k \in DOMAIN p THEN p[k] ELSE room[k]]

\* GetRoomByID; the copy is changed and a blank name turned away.
RoomRead(r) ==
  LET x == call[r].id
  IN /\ pc[r] = "read" /\ call[r].op = "update_room"
     /\ IF rooms[x] # NULL /\ ("name" \in DOMAIN call[r].arg => call[r].arg.name # Blank)
        THEN /\ row' = [row EXCEPT ![r] = PatchedRoom(rooms[x], call[r].arg)]
             /\ pc' = [pc EXCEPT ![r] = "write"]
             /\ UNCHANGED call
        ELSE Answer(r)
     /\ UNCHANGED tables

\* Mutant: a body without is_active puts the room into service, as CreateRoom does.
UpdateRoomActive(r) ==
  /\ Writes(r, "update_room")
  /\ rooms' = IF Taken(row[r].name, call[r].id) THEN rooms
              ELSE [rooms EXCEPT ![call[r].id] = [row[r] EXCEPT !.active = TRUE]]
  /\ UNCHANGED <<categories, tickets>>

\* UPDATE rooms SET every column.
UpdateRoom(r) ==
  /\ Writes(r, "update_room")
  /\ rooms' = IF Taken(row[r].name, call[r].id) THEN rooms
              ELSE [rooms EXCEPT ![call[r].id] = row[r]]
  /\ UNCHANGED <<categories, tickets>>

\* SetRoomActive: one column, whatever the others are.
DeactivateRoom(r) ==
  /\ Writes(r, "deactivate_room")
  /\ rooms' = IF rooms[call[r].id] = NULL THEN rooms
              ELSE [rooms EXCEPT ![call[r].id].active = FALSE]
  /\ UNCHANGED <<categories, tickets>>

-----------------------------------------------------------------------------
(***************************************************************************)
(* History, and the specification.                                         *)
(***************************************************************************)

\* What is out of service.
Retired ==
  {c \in CategoryId : categories[c] = FALSE}
    \cup {x \in RoomId : rooms[x] # NULL /\ ~rooms[x].active}

\* Columns of the row r is going to write that this step changes.
ChangedUnder(r) ==
  CASE call[r].op = "update"      -> {k \in DOMAIN row[r] : tickets'[call[r].id][k] # tickets[call[r].id][k]}
    [] call[r].op = "update_room" -> {k \in DOMAIN row[r] : rooms'[call[r].id][k] # rooms[call[r].id][k]}
    [] OTHER                      -> {}

Remember ==
  /\ out' = [r \in Request |->
       IF pc'[r] = "idle" THEN {}
       ELSE IF pc[r] = "idle" THEN Retired ELSE out[r] \cap Retired']
  /\ touched' = [r \in Request |->
       IF pc'[r] = "idle" \/ row[r] = NULL THEN {} ELSE touched[r] \cup ChangedUnder(r)]
  /\ borne' = borne \cup {<<x, rooms'[x].name>> : x \in {y \in RoomId : rooms'[y] # NULL}}

Step(r) ==
  \/ \E c \in Input : Arrive(r, c)
  \/ Abort(r)
  \/ TicketRead(r) \/ CategoryLookup(r) \/ RoomLookup(r)
  \/ CreateTicket(r) \/ UpdateTicket(r)
  \/ CreateCategory(r) \/ DeactivateCategory(r)
  \/ CreateRoom(r) \/ RoomRead(r) \/ UpdateRoom(r) \/ DeactivateRoom(r)

Next == \E r \in Request : Step(r) /\ Remember

Spec == Init /\ [][Next]_vars

-----------------------------------------------------------------------------
(***************************************************************************)
(* Properties.                                                             *)
(***************************************************************************)

\* The type invariant, with what the schema and TrimSpace promise of names: no
\* room is nameless and no two rooms share a name, whatever creations and
\* renamings race.
TypeOK ==
  /\ categories \in [CategoryId -> BOOLEAN \cup {NULL}]
  /\ rooms \in [RoomId -> Room \cup {NULL}]
  /\ tickets \in [TicketId -> Ticket \cup {NULL}]
  /\ pc \in [Request -> {"idle", "read", "category", "room", "write"}]
  /\ call \in [Request -> Input \cup {NULL}]
  /\ row \in [Request -> Room \cup Ticket \cup {NULL}]
  /\ out \in [Request -> SUBSET (RoomId \cup CategoryId)]
  /\ borne \subseteq RoomId \X Name
  /\ \A x, y \in RoomId :
       x # y /\ rooms[x] # NULL /\ rooms[y] # NULL => rooms[x].name # rooms[y].name

\* The name in ticket row t is of the room it refers to, or a client's text.
Belongs(t) ==
  t.roomId # NULL => <<t.roomId, t.room>> \in borne \/ t.room \in FreeText

\* The room a ticket shows by name is the room it refers to, under a name that
\* room has borne, unless a client typed the text: the id and the copied name
\* never come apart, though rooms are renamed and PATCHes overwrite each other.
RoomNameBelongs == \A t \in TicketId : tickets[t] # NULL => Belongs(tickets[t])

\* r puts x on ticket t, or puts room x into service, though x was out of
\* service all the time since r arrived.
PutsOnTicket(r, t, k) ==
  /\ pc[r] = "write" /\ call[r].op \in {"create", "update"}
  /\ call[r].op = "update" => call[r].id = t
  /\ row[r][k] = tickets'[t][k]
  /\ row[r][k] \notin out[r] \/ (call[r].op = "update" /\ k \notin DOMAIN call[r].arg)

PutsIntoService(r, x) ==
  /\ pc[r] = "write" /\ call[r].op = "update_room" /\ call[r].id = x
  /\ x \notin out[r] \/ ("active" \in DOMAIN call[r].arg /\ call[r].arg.active)

\* A category or room that was out of service before a request arrived is not
\* put on a ticket by it, but for a PATCH that does not name it and restores
\* what it had read; and a room comes back into service only when a body says
\* so, or by an UpdateRoom that began while the room was in service.
RetiredStaysOut ==
  [][/\ \A t \in TicketId, k \in {"category", "roomId"} :
          /\ tickets'[t] # NULL /\ tickets'[t][k] # NULL
          /\ tickets[t] # NULL => tickets'[t][k] # tickets[t][k]
          => \E r \in Request : PutsOnTicket(r, t, k)
     /\ \A x \in RoomId :
          rooms[x] # NULL /\ ~rooms[x].active /\ rooms'[x].active
            => \E r \in Request : PutsIntoService(r, x)]_vars

\* The columns r's body stands for: naming a room names its text as well.
Named(r) ==
  DOMAIN call[r].arg \cup (IF "roomId" \in DOMAIN call[r].arg THEN {"room"} ELSE {})

\* A PATCH changes a column its body does not name only when somebody else has
\* changed it since the request read the row: then it takes that change back.
PatchKeepsOthers ==
  [][\A r \in Request :
       pc[r] = "write" /\ pc'[r] = "idle" /\ call[r].op \in {"update", "update_room"} =>
         \A k \in DOMAIN row[r] \ (Named(r) \cup touched[r]) :
           IF call[r].op = "update"
           THEN tickets'[call[r].id][k] = tickets[call[r].id][k]
           ELSE rooms'[call[r].id][k] = rooms[call[r].id][k]]_vars

-----------------------------------------------------------------------------
(***************************************************************************)
(* The inductive invariant of the proofs: what a request knows of the row  *)
(* it is going to write.                                                   *)
(***************************************************************************)

\* A call fits its program counter.
Shape(r) ==
  /\ pc[r] = "idle" <=> call[r] = NULL
  /\ pc[r] = "read" => call[r].op \in {"update", "update_room"}
  /\ pc[r] \in {"category", "room"} => call[r].op \in {"create", "update"}
  /\ pc[r] = "category" => "category" \in DOMAIN call[r].arg
  /\ pc[r] = "room" => "roomId" \in DOMAIN call[r].arg
  /\ pc[r] \in {"idle", "read"} => row[r] = NULL
  /\ pc[r] # "idle" /\ call[r].op = "create_room" => call[r].arg.name # Blank

HoldsTicket(r) == pc[r] \notin {"idle", "read"} /\ call[r].op \in {"create", "update"}

HoldsRoom(r) == pc[r] = "write" /\ call[r].op = "update_room"

\* Columns that a lookup is still going to replace.
Pending(r) ==
  CASE pc[r] = "category" -> DOMAIN call[r].arg
    [] pc[r] = "room"     -> {"roomId"}
    [] OTHER              -> {}

\* The copy of a ticket: its name belongs to its room, what was looked up was in
\* service at a time since the request arrived, and the rest is the table's but
\* for what others have changed.
TicketCopied(r) ==
  HoldsTicket(r) =>
    /\ row[r] \in Ticket /\ Belongs(row[r])
    /\ \A k \in {"category", "roomId"} \ Pending(r) :
         \/ row[r][k] \notin out[r]
         \/ call[r].op = "update" /\ k \notin DOMAIN call[r].arg
    /\ call[r].op = "update" =>
         /\ tickets[call[r].id] # NULL
         /\ \A k \in DOMAIN row[r] \ (Named(r) \cup touched[r]) :
              row[r][k] = tickets[call[r].id][k]

\* The copy of a room, likewise.
RoomCopied(r) ==
  HoldsRoom(r) =>
    /\ row[r] \in Room /\ rooms[call[r].id] # NULL
    /\ row[r].active => \/ call[r].id \notin out[r]
                        \/ "active" \in DOMAIN call[r].arg /\ call[r].arg.active
    /\ \A k \in DOMAIN row[r] \ (Named(r) \cup touched[r]) :
         row[r][k] = rooms[call[r].id][k]

\* A name that a room bears is on record.
NamesOnRecord == \A x \in RoomId : rooms[x] # NULL => <<x, rooms[x].name>> \in borne

CInv ==
  /\ TypeOK
  /\ \A r \in Request : Shape(r) /\ TicketCopied(r) /\ RoomCopied(r)
  /\ RoomNameBelongs
  /\ NamesOnRecord
=============================================================================
