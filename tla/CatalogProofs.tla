---------------------------- MODULE CatalogProofs ----------------------------
(***************************************************************************)
(* Proofs about Catalog, for any sets of ids, names, requests and calls.   *)
(***************************************************************************)
EXTENDS Catalog, TLAPS

PcSet == {"idle", "read", "category", "room", "write"}

TicketColumn == {"category", "roomId", "room"}

RoomColumn == {"name", "building", "active"}

-----------------------------------------------------------------------------
(***************************************************************************)
(* Rows, calls and the helpers of the actions.                             *)
(***************************************************************************)

\* The columns of a ticket row.
LEMMA TicketFields ==
  ASSUME NEW t \in Ticket
  PROVE  /\ DOMAIN t = TicketColumn /\ t # NULL
         /\ t.category \in CategoryId \cup {NULL} /\ t.roomId \in RoomId \cup {NULL}
         /\ t.room \in Name \cup FreeText \cup {NULL}
         /\ t["category"] = t.category /\ t["roomId"] = t.roomId /\ t["room"] = t.room
BY NameAssumption DEF Ticket, TicketColumn

\* The columns of a room.
LEMMA RoomFields ==
  ASSUME NEW x \in Room
  PROVE  /\ DOMAIN x = RoomColumn /\ x # NULL
         /\ x.name \in Name /\ x.building \in Building /\ x.active \in BOOLEAN
         /\ x["name"] = x.name /\ x["building"] = x.building /\ x["active"] = x.active
BY NameAssumption DEF Room, RoomColumn

\* A call has an argument that fits its operation.
LEMMA CallFields ==
  ASSUME NEW c \in Input
  PROVE  /\ c # NULL /\ c.op \in Op
         /\ c.op = "deactivate_category" => c.id \in CategoryId
         /\ c.op \in {"update_room", "deactivate_room"} => c.id \in RoomId
         /\ c.op = "update" => c.id \in TicketId
         /\ c.op \in {"create", "update"} => TicketPatch(c.arg)
         /\ c.op = "update_room" => RoomPatch(c.arg)
         /\ c.op = "create_room" => c.arg \in [name : Name \cup {Blank}, building : Building]
BY InputAssumption DEF CallOK

\* A request that is not idle serves one of the calls.
LEMMA Busy ==
  ASSUME CInv, NEW r \in Request, pc[r] # "idle"
  PROVE  call[r] \in Input
BY DEF CInv, TypeOK, Shape

\* What a ticket's body may name.
LEMMA PatchFields ==
  ASSUME NEW p, TicketPatch(p)
  PROVE  /\ DOMAIN p \subseteq TicketColumn
         /\ "category" \in DOMAIN p => p.category \in CategoryId
         /\ "roomId" \in DOMAIN p => p.roomId \in RoomId
         /\ "room" \in DOMAIN p => p.room \in FreeText
BY DEF TicketPatch, TicketColumn

\* The free text of a body replaces the room's name and nothing else.
LEMMA WithTextKeeps ==
  ASSUME NEW t \in Ticket, NEW p, TicketPatch(p)
  PROVE  /\ WithText(t, p) \in Ticket
         /\ \A k \in TicketColumn \ DOMAIN p : WithText(t, p)[k] = t[k]
         /\ \A k \in {"category", "roomId"} : WithText(t, p)[k] = t[k]
         /\ Belongs(t) => Belongs(WithText(t, p))
<1>1. CASE "room" \in DOMAIN p
  <2>1. p.room \in FreeText
    BY <1>1, PatchFields
  <2>2. WithText(t, p) = [category |-> t.category, roomId |-> t.roomId, room |-> p.room]
    BY <1>1, TicketFields DEF WithText, Ticket
  <2> QED
    BY <1>1, <2>1, <2>2, TicketFields DEF Ticket, TicketColumn, Belongs
<1>2. CASE "room" \notin DOMAIN p
  BY <1>2 DEF WithText
<1> QED
  BY <1>1, <1>2

\* A ticket that has nothing yet.
LEMMA EmptyFields ==
  /\ EmptyTicket \in Ticket /\ Belongs(EmptyTicket)
  /\ EmptyTicket["category"] = NULL /\ EmptyTicket["roomId"] = NULL
BY DEF EmptyTicket, Ticket, Belongs

\* The columns of a room's body replace those of the room, and no name is blank.
LEMMA PatchedRoomKeeps ==
  ASSUME NEW x \in Room, NEW p, RoomPatch(p), "name" \in DOMAIN p => p.name # Blank
  PROVE  /\ PatchedRoom(x, p) \in Room
         /\ \A k \in RoomColumn \ DOMAIN p : PatchedRoom(x, p)[k] = x[k]
         /\ "active" \in DOMAIN p => PatchedRoom(x, p).active = p.active
         /\ "active" \notin DOMAIN p => PatchedRoom(x, p).active = x.active
<1> DEFINE y == PatchedRoom(x, p)
<1>1. DOMAIN y = RoomColumn /\ \A k \in RoomColumn : y[k] = IF k \in DOMAIN p THEN p[k] ELSE x[k]
  BY RoomFields DEF PatchedRoom
<1>2. y["name"] \in Name /\ y["building"] \in Building /\ y["active"] \in BOOLEAN
  BY <1>1, RoomFields DEF RoomPatch, RoomColumn
<1>3. y \in Room
  BY <1>1, <1>2 DEF PatchedRoom, Room, RoomColumn
<1> QED
  BY <1>1, <1>3, RoomFields DEF RoomColumn

-----------------------------------------------------------------------------
(***************************************************************************)
(* What every step does to the history and to the other requests.          *)
(***************************************************************************)

\* The tables keep their rows.
RowsStay ==
  /\ tickets' \in [TicketId -> Ticket \cup {NULL}]
  /\ rooms' \in [RoomId -> Room \cup {NULL}]
  /\ categories' \in [CategoryId -> BOOLEAN \cup {NULL}]
  /\ \A t \in TicketId : tickets[t] # NULL => tickets'[t] # NULL
  /\ \A x \in RoomId : rooms[x] # NULL => rooms'[x] # NULL

\* Tables that do not change keep their rows.
LEMMA SameRows == CInv /\ UNCHANGED tables => RowsStay
BY DEF CInv, TypeOK, tables, RowsStay

\* What was out of service for a request can only come back; what has once been
\* changed under it stays on record, and so do the names of rooms.
LEMMA History ==
  ASSUME CInv, RowsStay, Remember, NEW s \in Request
  PROVE  /\ pc[s] # "idle" => out'[s] \subseteq out[s]
         /\ pc'[s] # "idle" => out'[s] \subseteq Retired \/ out'[s] \subseteq Retired'
         /\ pc[s] # "idle" /\ pc'[s] # "idle" => out'[s] \subseteq Retired'
         /\ pc'[s] # "idle" /\ row[s] # NULL => touched'[s] = touched[s] \cup ChangedUnder(s)
         /\ pc'[s] # "idle" /\ row[s] = NULL => touched'[s] = {}
         /\ borne \subseteq borne'
         /\ \A x \in RoomId : rooms'[x] # NULL => <<x, rooms'[x].name>> \in borne'
BY DEF Remember, CInv, TypeOK

\* The history has its types.
LEMMA HistoryType ==
  ASSUME CInv, RowsStay, Remember
  PROVE  out' \in [Request -> SUBSET (RoomId \cup CategoryId)] /\ borne' \subseteq RoomId \X Name
<1>1. Retired \subseteq RoomId \cup CategoryId
  BY DEF Retired
<1>2. \A x \in RoomId : rooms'[x] # NULL => rooms'[x].name \in Name
  BY RoomFields DEF RowsStay
<1>3. borne' \subseteq RoomId \X Name
  BY <1>2 DEF Remember, CInv, TypeOK
<1>4. \A s \in Request : out[s] \subseteq RoomId \cup CategoryId
  BY DEF CInv, TypeOK
<1>5. out' = [s \in Request |-> IF pc'[s] = "idle" THEN {}
                ELSE IF pc[s] = "idle" THEN Retired ELSE out[s] \cap Retired']
  BY DEF Remember
<1>6. \A s \in Request : out'[s] \subseteq RoomId \cup CategoryId
  BY <1>1, <1>4, <1>5
<1> QED
  BY <1>3, <1>5, <1>6

\* A row whose names are on record keeps them there.
LEMMA BelongsStays ==
  ASSUME NEW t, borne \subseteq borne', Belongs(t)
  PROVE  t.roomId # NULL => <<t.roomId, t.room>> \in borne' \/ t.room \in FreeText
BY DEF Belongs

\* A request keeps what it knows when another one takes a step.
LEMMA Frame ==
  ASSUME CInv, RowsStay, Remember, NEW s \in Request,
         pc'[s] = pc[s], call'[s] = call[s], row'[s] = row[s]
  PROVE  Shape(s)' /\ TicketCopied(s)' /\ RoomCopied(s)'
<1>1. Shape(s)'
  BY DEF CInv, Shape
<1>2. TicketCopied(s)'
  <2> SUFFICES ASSUME HoldsTicket(s) PROVE TicketCopied(s)'
    BY DEF TicketCopied, HoldsTicket
  <2>1. /\ pc[s] # "idle" /\ pc'[s] # "idle" /\ row[s] \in Ticket /\ row[s] # NULL
        /\ out'[s] \subseteq out[s] /\ touched'[s] = touched[s] \cup ChangedUnder(s)
        /\ borne \subseteq borne'
    BY History, TicketFields DEF HoldsTicket, CInv, TicketCopied
  <2>2. Belongs(row[s])'
    BY <2>1 DEF CInv, TicketCopied, Belongs
  <2>3. \A k \in {"category", "roomId"} \ Pending(s) :
          row[s][k] \notin out'[s] \/ (call[s].op = "update" /\ k \notin DOMAIN call[s].arg)
    BY <2>1 DEF CInv, TicketCopied
  <2>4. ASSUME call[s].op = "update"
        PROVE  /\ tickets'[call[s].id] # NULL
               /\ \A k \in DOMAIN row[s] \ (Named(s) \cup touched'[s]) :
                    row[s][k] = tickets'[call[s].id][k]
    <3>1. call[s].id \in TicketId
      BY <2>1, <2>4, Busy, CallFields
    <3>2. /\ tickets[call[s].id] # NULL
          /\ \A k \in DOMAIN row[s] \ (Named(s) \cup touched[s]) :
               row[s][k] = tickets[call[s].id][k]
      BY <2>4 DEF CInv, TicketCopied
    <3>3. ChangedUnder(s) =
            {k \in DOMAIN row[s] : tickets'[call[s].id][k] # tickets[call[s].id][k]}
      BY <2>4 DEF ChangedUnder
    <3> QED
      BY <2>1, <3>1, <3>2, <3>3 DEF RowsStay
  <2> QED
    BY <2>1, <2>2, <2>3, <2>4 DEF TicketCopied, Pending, Named
<1>3. RoomCopied(s)'
  <2> SUFFICES ASSUME HoldsRoom(s) PROVE RoomCopied(s)'
    BY DEF RoomCopied, HoldsRoom
  <2>1. /\ pc[s] # "idle" /\ pc'[s] # "idle" /\ row[s] \in Room /\ row[s] # NULL
        /\ out'[s] \subseteq out[s] /\ touched'[s] = touched[s] \cup ChangedUnder(s)
        /\ call[s].op = "update_room" /\ call[s].id \in RoomId
    BY History, RoomFields, Busy, CallFields DEF HoldsRoom, CInv, RoomCopied
  <2>2. ChangedUnder(s) = {k \in DOMAIN row[s] : rooms'[call[s].id][k] # rooms[call[s].id][k]}
    BY <2>1 DEF ChangedUnder
  <2> QED
    BY <2>1, <2>2 DEF CInv, RoomCopied, RowsStay, Named
<1> QED
  BY <1>1, <1>2, <1>3

\* No two rooms share a name.
NamesDiffer ==
  \A x, y \in RoomId :
    x # y /\ rooms[x] # NULL /\ rooms[y] # NULL => rooms[x].name # rooms[y].name

\* A step of r keeps the invariant if it gives r what its next step relies on.
LEMMA Combine ==
  ASSUME CInv, RowsStay, Remember, NEW r \in Request,
         NEW p \in PcSet, pc' = [pc EXCEPT ![r] = p],
         NEW c \in Input \cup {NULL}, call' = [call EXCEPT ![r] = c],
         NEW w \in Room \cup Ticket \cup {NULL}, row' = [row EXCEPT ![r] = w],
         NamesDiffer', RoomNameBelongs',
         Shape(r)', TicketCopied(r)', RoomCopied(r)'
  PROVE  CInv'
<1>1. TypeOK'
  BY HistoryType DEF CInv, TypeOK, RowsStay, NamesDiffer, PcSet
<1>2. ASSUME NEW s \in Request PROVE Shape(s)' /\ TicketCopied(s)' /\ RoomCopied(s)'
  <2>1. CASE s = r
    BY <2>1
  <2>2. CASE s # r
    BY <2>2, Frame DEF CInv, TypeOK
  <2> QED
    BY <2>1, <2>2
<1>3. NamesOnRecord'
  BY History DEF NamesOnRecord
<1> QED
  BY <1>1, <1>2, <1>3 DEF CInv

\* Tables that do not change keep their names apart and belonging.
LEMMA SameTables ==
  ASSUME CInv, UNCHANGED tables, Remember
  PROVE  RowsStay /\ NamesDiffer' /\ RoomNameBelongs'
<1>1. RowsStay
  BY SameRows
<1>2. NamesDiffer'
  BY DEF CInv, TypeOK, NamesDiffer, tables
<1>3. borne \subseteq borne'
  BY DEF Remember
<1>4. RoomNameBelongs'
  BY <1>3 DEF CInv, RoomNameBelongs, Belongs, tables
<1> QED
  BY <1>1, <1>2, <1>4

\* A request that is answered relies on nothing.
LEMMA AnswerStep ==
  ASSUME CInv, RowsStay, Remember, NEW r \in Request, Answer(r), NamesDiffer', RoomNameBelongs'
  PROVE  CInv'
<1>1. pc'[r] = "idle" /\ call'[r] = NULL /\ row'[r] = NULL
  BY DEF Answer, CInv, TypeOK
<1>2. Shape(r)' /\ TicketCopied(r)' /\ RoomCopied(r)'
  BY <1>1 DEF Shape, TicketCopied, HoldsTicket, RoomCopied, HoldsRoom
<1> QED
  BY <1>2, Combine DEF Answer, PcSet

-----------------------------------------------------------------------------
(***************************************************************************)
(* Requests arrive and look rows up.                                       *)
(***************************************************************************)

\* The lookups a body asks for follow one another.
LEMMA NextLookupIs ==
  ASSUME NEW c
  PROVE  /\ NextLookup(c, "start") \in {"category", "room", "write"}
         /\ NextLookup(c, "category") \in {"room", "write"}
         /\ NextLookup(c, "start") = "category" <=> "category" \in DOMAIN c.arg
         /\ NextLookup(c, "start") = "room" =>
              "roomId" \in DOMAIN c.arg /\ "category" \notin DOMAIN c.arg
         /\ NextLookup(c, "start") = "write" =>
              "roomId" \notin DOMAIN c.arg /\ "category" \notin DOMAIN c.arg
         /\ NextLookup(c, "category") = "room" <=> "roomId" \in DOMAIN c.arg
BY DEF NextLookup

\* A call arrives; Create starts with the text of its body.
LEMMA ArriveStep ==
  ASSUME CInv, Remember, NEW r \in Request, NEW c \in Input, Arrive(r, c)
  PROVE  CInv'
<1>1. /\ pc[r] = "idle" /\ UNCHANGED tables
      /\ call' = [call EXCEPT ![r] = c] /\ call'[r] = c
      /\ c.op = "create_room" => c.arg.name # Blank
  BY DEF Arrive, CInv, TypeOK
<1>2. RowsStay /\ NamesDiffer' /\ RoomNameBelongs'
  BY <1>1, SameTables
<1>3. CASE c.op = "create"
  <2> DEFINE p == NextLookup(c, "start")
             w == WithText(EmptyTicket, c.arg)
  <2>1. pc' = [pc EXCEPT ![r] = p] /\ row' = [row EXCEPT ![r] = w]
    BY <1>3 DEF Arrive
  <2>2. pc'[r] = p /\ row'[r] = w
    BY <2>1 DEF CInv, TypeOK
  <2>3. p \in {"category", "room", "write"}
    BY NextLookupIs
  <2>4. TicketPatch(c.arg)
    BY <1>3, CallFields
  <2>5. w \in Ticket /\ Belongs(w) /\ w["category"] = NULL /\ w["roomId"] = NULL
    BY <2>4, WithTextKeeps, EmptyFields
  <2>6. Shape(r)'
    BY <1>1, <1>3, <2>2, <2>3, CallFields, NextLookupIs DEF Shape
  <2>7. borne \subseteq borne' /\ NULL \notin out'[r]
    BY <1>2, History, HistoryType, NameAssumption
  <2>8. TicketCopied(r)'
    <3> HIDE DEF p, w
    <3>1. Belongs(w)'
      BY <2>2, <2>5, <2>7 DEF Belongs
    <3> QED
      BY <1>1, <1>3, <2>2, <2>5, <2>7, <3>1 DEF TicketCopied, HoldsTicket
  <2>9. RoomCopied(r)'
    BY <1>1, <1>3 DEF RoomCopied, HoldsRoom
  <2> HIDE DEF p, w
  <2> QED
    BY <1>1, <1>2, <2>1, <2>3, <2>5, <2>6, <2>8, <2>9, Combine DEF PcSet
<1>4. CASE c.op # "create"
  <2>1. PICK p \in {"read", "write"} :
          /\ pc' = [pc EXCEPT ![r] = p]
          /\ p = "read" <=> c.op \in {"update", "update_room"}
    BY <1>4 DEF Arrive
  <2>2. row' = [row EXCEPT ![r] = NULL] /\ pc'[r] = p /\ row'[r] = NULL
    BY <1>4, <2>1 DEF Arrive, CInv, TypeOK
  <2>3. Shape(r)' /\ TicketCopied(r)' /\ RoomCopied(r)'
    BY <1>1, <1>4, <2>1, <2>2, CallFields
    DEF Shape, TicketCopied, HoldsTicket, RoomCopied, HoldsRoom
  <2> QED
    BY <1>1, <1>2, <2>1, <2>2, <2>3, Combine DEF PcSet
<1> QED
  BY <1>3, <1>4

\* A PATCH reads its ticket.
LEMMA TicketReadStep ==
  ASSUME CInv, Remember, NEW r \in Request, TicketRead(r)
  PROVE  CInv'
<1> DEFINE c == call[r]
           t == tickets[c.id]
           w == WithText(t, c.arg)
           p == NextLookup(c, "start")
<1>1. /\ UNCHANGED tables /\ pc[r] = "read" /\ c.op = "update" /\ c \in Input
      /\ c.id \in TicketId /\ TicketPatch(c.arg) /\ row[r] = NULL
  BY Busy, CallFields DEF TicketRead, CInv, Shape
<1>2. RowsStay /\ NamesDiffer' /\ RoomNameBelongs'
  BY <1>1, SameTables
<1>3. CASE t = NULL
  BY <1>2, <1>3, AnswerStep DEF TicketRead
<1>4. CASE t # NULL
  <2>1. /\ pc' = [pc EXCEPT ![r] = p] /\ row' = [row EXCEPT ![r] = w]
        /\ call' = [call EXCEPT ![r] = c]
    BY <1>4 DEF TicketRead, CInv, TypeOK
  <2>2. pc'[r] = p /\ row'[r] = w /\ call'[r] = c
    BY <2>1 DEF CInv, TypeOK
  <2>3. p \in {"category", "room", "write"}
    BY NextLookupIs
  <2>4. t \in Ticket /\ Belongs(t)
    BY <1>1, <1>4 DEF CInv, TypeOK, RoomNameBelongs
  <2>5. /\ w \in Ticket /\ Belongs(w) /\ DOMAIN w = TicketColumn
        /\ \A k \in TicketColumn \ DOMAIN c.arg : w[k] = t[k]
    BY <1>1, <2>4, WithTextKeeps, TicketFields
  <2>6. Shape(r)'
    BY <1>1, <2>2, <2>3, CallFields, NextLookupIs DEF Shape
  <2>7. borne \subseteq borne' /\ touched'[r] = {} /\ tickets'[c.id] = t
    BY <1>1, <1>2, <2>2, <2>3, History DEF tables
  <2>8. TicketCopied(r)'
    <3>1. \A k \in {"category", "roomId"} : k \in DOMAIN c.arg =>
            p = "category" \/ (p = "room" /\ k = "roomId")
      BY NextLookupIs
    <3> HIDE DEF p, w, t
    <3>2. Belongs(row[r])'
      BY <2>2, <2>5, <2>7 DEF Belongs
    <3>3. \A k \in {"category", "roomId"} \ Pending(r)' : k \notin DOMAIN c.arg
      BY <2>2, <3>1 DEF Pending
    <3> QED
      BY <1>1, <1>4, <2>2, <2>5, <2>7, <3>2, <3>3 DEF TicketCopied, Named
  <2>9. RoomCopied(r)'
    BY <1>1, <2>2 DEF RoomCopied, HoldsRoom
  <2> HIDE DEF p, w, t
  <2> QED
    BY <1>1, <1>2, <2>1, <2>3, <2>5, <2>6, <2>8, <2>9, Combine DEF PcSet
<1> QED
  BY <1>3, <1>4

\* What a lookup of an active category or room gives a ticket was in service then.
LEMMA LookedUp ==
  ASSUME CInv, Remember, NEW r \in Request, UNCHANGED tables, pc[r] # "idle", pc'[r] # "idle"
  PROVE  /\ \A x \in CategoryId : categories[x] = TRUE => x \notin out'[r]
         /\ \A x \in RoomId : rooms[x] # NULL /\ rooms[x].active => x \notin out'[r]
<1>1. out'[r] \subseteq Retired'
  BY SameRows, History
<1>2. Retired' = Retired
  BY DEF Retired, tables
<1> QED
  BY <1>1, <1>2, NameAssumption DEF Retired

\* The category of the body is looked up.
LEMMA CategoryLookupStep ==
  ASSUME CInv, Remember, NEW r \in Request, CategoryLookup(r)
  PROVE  CInv'
<1> DEFINE c == call[r]
           w == [row[r] EXCEPT !.category = c.arg.category]
           p == NextLookup(c, "category")
<1>1. /\ UNCHANGED tables /\ pc[r] = "category" /\ c.op \in {"create", "update"} /\ c \in Input
      /\ TicketPatch(c.arg) /\ "category" \in DOMAIN c.arg /\ c.arg.category \in CategoryId
      /\ HoldsTicket(r)
  BY Busy, CallFields, PatchFields DEF CategoryLookup, CInv, Shape, HoldsTicket
<1>2. RowsStay /\ NamesDiffer' /\ RoomNameBelongs'
  BY <1>1, SameTables
<1>3. CASE categories[c.arg.category] # TRUE
  BY <1>2, <1>3, AnswerStep DEF CategoryLookup
<1>4. CASE categories[c.arg.category] = TRUE
  <2>1. /\ pc' = [pc EXCEPT ![r] = p] /\ row' = [row EXCEPT ![r] = w]
        /\ call' = [call EXCEPT ![r] = c]
    BY <1>4 DEF CategoryLookup, CInv, TypeOK
  <2>2. pc'[r] = p /\ row'[r] = w /\ call'[r] = c
    BY <2>1 DEF CInv, TypeOK
  <2>3. p \in {"room", "write"} /\ (p = "room" <=> "roomId" \in DOMAIN c.arg)
    BY NextLookupIs
  <2>4. row[r] \in Ticket /\ Belongs(row[r]) /\ row[r] # NULL
    BY <1>1, TicketFields DEF CInv, TicketCopied
  <2>5. /\ w \in Ticket /\ DOMAIN w = TicketColumn /\ w["category"] = c.arg.category
        /\ w["roomId"] = row[r]["roomId"] /\ w["room"] = row[r]["room"]
        /\ w.roomId = row[r].roomId /\ w.room = row[r].room
    BY <1>1, <2>4, TicketFields DEF Ticket, TicketColumn
  <2> HIDE DEF p, w
  <2>6. Shape(r)'
    BY <1>1, <2>2, <2>3, CallFields DEF Shape
  <2>7. /\ borne \subseteq borne' /\ touched'[r] = touched[r] \cup ChangedUnder(r)
        /\ out'[r] \subseteq out[r] /\ c.arg.category \notin out'[r]
    BY <1>1, <1>2, <1>4, <2>2, <2>3, <2>4, History, LookedUp
  <2>8. TicketCopied(r)'
    <3>1. Belongs(row[r])'
      BY <2>2, <2>4, <2>5, <2>7 DEF Belongs
    <3>2. "roomId" \notin DOMAIN c.arg =>
            row[r]["roomId"] \notin out[r] \/ c.op = "update"
      BY <1>1 DEF CInv, TicketCopied, Pending
    <3>3. \A k \in {"category", "roomId"} \ Pending(r)' :
            w[k] \notin out'[r] \/ (c.op = "update" /\ k \notin DOMAIN c.arg)
      BY <2>2, <2>3, <2>5, <2>7, <3>2 DEF Pending
    <3>4. ASSUME c.op = "update"
          PROVE  /\ tickets'[c.id] # NULL
                 /\ \A k \in DOMAIN w \ (Named(r)' \cup touched'[r]) : w[k] = tickets'[c.id][k]
      <4>1. DOMAIN row[r] = TicketColumn /\ tickets'[c.id] = tickets[c.id]
        BY <1>1, <2>4, TicketFields DEF tables
      <4> QED
        BY <1>1, <2>2, <2>5, <2>7, <3>4, <4>1 DEF CInv, TicketCopied, Named, TicketColumn
    <3> QED
      BY <2>2, <2>5, <3>1, <3>3, <3>4 DEF TicketCopied
  <2>9. RoomCopied(r)'
    BY <1>1, <2>2 DEF RoomCopied, HoldsRoom
  <2> QED
    BY <1>1, <1>2, <2>1, <2>3, <2>5, <2>6, <2>8, <2>9, Combine DEF PcSet
<1> QED
  BY <1>3, <1>4

\* The room of the body is looked up; the ticket takes its id and its name.
LEMMA RoomLookupStep ==
  ASSUME CInv, Remember, NEW r \in Request, RoomLookup(r)
  PROVE  CInv'
<1> DEFINE c == call[r]
           x == c.arg.roomId
           t == row[r]
           n == rooms[x].name
           w == [t EXCEPT !.roomId = x, !.room = n]
<1>1. /\ UNCHANGED tables /\ pc[r] = "room" /\ c.op \in {"create", "update"} /\ c \in Input
      /\ TicketPatch(c.arg) /\ "roomId" \in DOMAIN c.arg /\ x \in RoomId /\ HoldsTicket(r)
  BY Busy, CallFields, PatchFields DEF RoomLookup, CInv, Shape, HoldsTicket
<1>2. RowsStay /\ NamesDiffer' /\ RoomNameBelongs'
  BY <1>1, SameTables
<1>3. CASE ~(rooms[x] # NULL /\ rooms[x].active)
  BY <1>2, <1>3, AnswerStep DEF RoomLookup
<1>4. CASE rooms[x] # NULL /\ rooms[x].active
  <2>1. /\ pc' = [pc EXCEPT ![r] = "write"] /\ row' = [row EXCEPT ![r] = w]
        /\ call' = [call EXCEPT ![r] = c]
    <3>1. row' = [row EXCEPT ![r].roomId = x, ![r].room = rooms[x].name]
      BY <1>4 DEF RoomLookup
    <3> QED
      BY <1>4, <3>1 DEF RoomLookup, CInv, TypeOK
  <2>2. pc'[r] = "write" /\ row'[r] = w /\ call'[r] = c
    BY <2>1 DEF CInv, TypeOK
  <2>3. /\ rooms[x].name \in Name /\ <<x, rooms[x].name>> \in borne
    BY <1>1, <1>4, RoomFields DEF CInv, TypeOK, NamesOnRecord
  <2>4. row[r] \in Ticket /\ row[r] # NULL
    BY <1>1, TicketFields DEF CInv, TicketCopied
  <2>5. /\ w \in Ticket /\ DOMAIN w = TicketColumn /\ w["roomId"] = x
        /\ w["category"] = row[r]["category"]
        /\ w.roomId = x /\ w.room = rooms[x].name
    <3>1. t \in Ticket /\ x \in RoomId /\ n \in Name
      BY <1>1, <2>3, <2>4
    <3> HIDE DEF t, n, x
    <3>2. /\ w \in Ticket /\ DOMAIN w = TicketColumn /\ w["roomId"] = x
          /\ w["category"] = t["category"] /\ w.roomId = x /\ w.room = n
      BY <3>1 DEF Ticket, TicketColumn
    <3> QED
      BY <3>2 DEF t, n
  <2> HIDE DEF w
  <2>6. Shape(r)'
    BY <1>1, <2>2, CallFields DEF Shape
  <2>7. /\ borne \subseteq borne' /\ touched'[r] = touched[r] \cup ChangedUnder(r)
        /\ out'[r] \subseteq out[r] /\ x \notin out'[r]
    BY <1>1, <1>2, <1>4, <2>2, <2>4, History, LookedUp
  <2>8. TicketCopied(r)'
    <3>1. Belongs(row[r])'
      BY <2>2, <2>3, <2>5, <2>7 DEF Belongs
    <3>2. row[r]["category"] \notin out[r] \/ (c.op = "update" /\ "category" \notin DOMAIN c.arg)
      BY <1>1 DEF CInv, TicketCopied, Pending
    <3>3. \A k \in {"category", "roomId"} \ Pending(r)' :
            w[k] \notin out'[r] \/ (c.op = "update" /\ k \notin DOMAIN c.arg)
      BY <2>2, <2>5, <2>7, <3>2
    <3>4. ASSUME c.op = "update"
          PROVE  /\ tickets'[c.id] # NULL
                 /\ \A k \in DOMAIN w \ (Named(r)' \cup touched'[r]) : w[k] = tickets'[c.id][k]
      <4>1. DOMAIN row[r] = TicketColumn /\ tickets'[c.id] = tickets[c.id]
        BY <1>1, <2>4, TicketFields DEF tables
      <4> QED
        BY <1>1, <2>2, <2>5, <2>7, <3>4, <4>1 DEF CInv, TicketCopied, Named, TicketColumn
    <3> QED
      BY <2>2, <2>5, <3>1, <3>3, <3>4 DEF TicketCopied
  <2>9. RoomCopied(r)'
    BY <1>1, <2>2 DEF RoomCopied, HoldsRoom
  <2> QED
    BY <1>1, <1>2, <2>1, <2>5, <2>6, <2>8, <2>9, Combine DEF PcSet
<1> QED
  BY <1>3, <1>4

\* UpdateRoom reads its room and changes the copy.
LEMMA RoomReadStep ==
  ASSUME CInv, Remember, NEW r \in Request, RoomRead(r)
  PROVE  CInv'
<1> DEFINE c == call[r]
           x == c.id
           w == PatchedRoom(rooms[x], c.arg)
<1>1. /\ UNCHANGED tables /\ pc[r] = "read" /\ c.op = "update_room" /\ c \in Input
      /\ RoomPatch(c.arg) /\ x \in RoomId /\ row[r] = NULL
  BY Busy, CallFields DEF RoomRead, CInv, Shape
<1>2. RowsStay /\ NamesDiffer' /\ RoomNameBelongs'
  BY <1>1, SameTables
<1>3. CASE ~(rooms[x] # NULL /\ ("name" \in DOMAIN c.arg => c.arg.name # Blank))
  BY <1>2, <1>3, AnswerStep DEF RoomRead
<1>4. CASE rooms[x] # NULL /\ ("name" \in DOMAIN c.arg => c.arg.name # Blank)
  <2>1. /\ pc' = [pc EXCEPT ![r] = "write"] /\ row' = [row EXCEPT ![r] = w]
        /\ call' = [call EXCEPT ![r] = c]
    BY <1>4 DEF RoomRead, CInv, TypeOK
  <2>2. pc'[r] = "write" /\ row'[r] = w /\ call'[r] = c
    BY <2>1 DEF CInv, TypeOK
  <2>3. rooms[x] \in Room
    BY <1>1, <1>4 DEF CInv, TypeOK
  <2>4. /\ w \in Room /\ DOMAIN w = RoomColumn
        /\ \A k \in RoomColumn \ DOMAIN c.arg : w[k] = rooms[x][k]
        /\ "active" \in DOMAIN c.arg => w.active = c.arg.active
        /\ "active" \notin DOMAIN c.arg => w.active = rooms[x].active
    BY <1>1, <1>4, <2>3, PatchedRoomKeeps, RoomFields
  <2> HIDE DEF w
  <2>5. Shape(r)' /\ TicketCopied(r)'
    BY <1>1, <2>2, CallFields DEF Shape, TicketCopied, HoldsTicket
  <2>6. touched'[r] = {} /\ rooms'[x] = rooms[x]
    BY <1>1, <1>2, <2>2, History DEF tables
  <2>7. w.active => x \notin out'[r] \/ ("active" \in DOMAIN c.arg /\ c.arg.active)
    BY <1>1, <1>4, <2>2, <2>4, LookedUp
  <2>8. RoomCopied(r)'
    BY <1>1, <1>4, <2>2, <2>4, <2>6, <2>7 DEF RoomCopied, Named
  <2> QED
    BY <1>1, <1>2, <2>1, <2>4, <2>5, <2>8, Combine DEF PcSet
<1> QED
  BY <1>3, <1>4

-----------------------------------------------------------------------------
(***************************************************************************)
(* Requests write.                                                         *)
(***************************************************************************)

\* A ticket row is written: a new one, or over the one that is there.
LEMMA TicketWritten ==
  ASSUME CInv, Remember, NEW r \in Request, CreateTicket(r) \/ UpdateTicket(r)
  PROVE  /\ RowsStay /\ CInv'
         /\ \E t \in TicketId :
              /\ tickets' = [tickets EXCEPT ![t] = row[r]]
              /\ call[r].op = "update" => call[r].id = t
<1>1. /\ pc[r] = "write" /\ call[r].op \in {"create", "update"} /\ Answer(r) /\ HoldsTicket(r)
      /\ UNCHANGED <<categories, rooms>>
  BY DEF CreateTicket, UpdateTicket, Writes, HoldsTicket
<1>2. row[r] \in Ticket /\ Belongs(row[r]) /\ row[r] # NULL
  BY <1>1, TicketFields DEF CInv, TicketCopied
<1>3. PICK t \in TicketId :
        /\ tickets' = [tickets EXCEPT ![t] = row[r]]
        /\ call[r].op = "update" => call[r].id = t
  <2>1. call[r].op = "update" => call[r].id \in TicketId
    BY <1>1, Busy, CallFields
  <2> QED
    BY <2>1 DEF CreateTicket, UpdateTicket, Writes
<1>4. RowsStay
  BY <1>1, <1>2, <1>3 DEF RowsStay, CInv, TypeOK
<1>5. NamesDiffer'
  BY <1>1 DEF NamesDiffer, CInv, TypeOK
<1>6. RoomNameBelongs'
  <2>1. borne \subseteq borne'
    BY DEF Remember
  <2>2. ASSUME NEW u \in TicketId, tickets'[u] # NULL
        PROVE  Belongs(tickets[u])'
    <3>1. Belongs(tickets'[u])
      BY <1>2, <1>3, <2>2 DEF CInv, TypeOK, RoomNameBelongs
    <3> QED
      BY <2>1, <3>1 DEF Belongs
  <2> QED
    BY <2>2 DEF RoomNameBelongs
<1> QED
  BY <1>1, <1>3, <1>4, <1>5, <1>6, AnswerStep

\* A write of the catalog leaves the tickets alone, no two rooms with one name
\* and no room without one.
LEMMA CatalogWritten ==
  ASSUME CInv, Remember, NEW r \in Request, Answer(r), UNCHANGED tickets, RowsStay, NamesDiffer'
  PROVE  CInv'
<1>1. borne \subseteq borne'
  BY DEF Remember
<1>2. RoomNameBelongs'
  BY <1>1 DEF CInv, RoomNameBelongs, Belongs
<1> QED
  BY <1>2, AnswerStep

\* A room's row is written under a name that no other room has.
LEMMA RoomWritten ==
  ASSUME CInv, NEW x \in RoomId, NEW w \in Room, UNCHANGED <<tickets, categories>>,
         rooms' = IF Taken(w.name, x) THEN rooms ELSE [rooms EXCEPT ![x] = w]
  PROVE  RowsStay /\ NamesDiffer'
<1>1. w # NULL
  BY RoomFields
<1>2. CASE Taken(w.name, x)
  BY <1>2 DEF RowsStay, NamesDiffer, CInv, TypeOK
<1>3. CASE ~Taken(w.name, x)
  BY <1>1, <1>3 DEF RowsStay, NamesDiffer, Taken, CInv, TypeOK
<1> QED
  BY <1>2, <1>3

\* The writes of the administration.
LEMMA AdminWritten ==
  ASSUME CInv, Remember, NEW r \in Request,
         \/ CreateCategory(r) \/ DeactivateCategory(r)
         \/ CreateRoom(r) \/ UpdateRoom(r) \/ DeactivateRoom(r)
  PROVE  UNCHANGED tickets /\ RowsStay /\ CInv'
<1>1. pc[r] = "write" /\ Answer(r) /\ UNCHANGED tickets /\ call[r] \in Input
  BY Busy DEF CreateCategory, DeactivateCategory, CreateRoom, UpdateRoom, DeactivateRoom, Writes
<1>2. CASE CreateCategory(r) \/ DeactivateCategory(r)
  <2>1. UNCHANGED rooms /\ categories' \in [CategoryId -> BOOLEAN \cup {NULL}]
    <3>1. CASE CreateCategory(r)
      BY <3>1 DEF CreateCategory, CInv, TypeOK
    <3>2. CASE DeactivateCategory(r)
      BY <3>2 DEF DeactivateCategory, CInv, TypeOK
    <3> QED
      BY <1>2, <3>1, <3>2
  <2>2. RowsStay /\ NamesDiffer'
    BY <1>1, <2>1 DEF RowsStay, NamesDiffer, CInv, TypeOK
  <2> QED
    BY <1>1, <2>2, CatalogWritten
<1>3. CASE CreateRoom(r)
  <2> DEFINE w == [name |-> call[r].arg.name, building |-> call[r].arg.building, active |-> TRUE]
  <2>1. call[r].arg \in [name : Name \cup {Blank}, building : Building] /\ call[r].arg.name # Blank
    BY <1>1, <1>3, CallFields DEF CreateRoom, Writes, CInv, Shape
  <2>2. w \in Room /\ w.name = call[r].arg.name
    BY <2>1 DEF Room
  <2>3. PICK x \in RoomId :
          rooms' = IF Taken(w.name, x) THEN rooms ELSE [rooms EXCEPT ![x] = w]
    BY <1>3, <2>2 DEF CreateRoom
  <2>4. UNCHANGED <<tickets, categories>>
    BY <1>3 DEF CreateRoom
  <2> HIDE DEF w
  <2> QED
    BY <1>1, <2>2, <2>3, <2>4, RoomWritten, CatalogWritten
<1>4. CASE UpdateRoom(r)
  <2>1. row[r] \in Room /\ call[r].id \in RoomId
    BY <1>1, <1>4, CallFields DEF UpdateRoom, Writes, CInv, RoomCopied, HoldsRoom
  <2>2. rooms' = IF Taken(row[r].name, call[r].id) THEN rooms
                 ELSE [rooms EXCEPT ![call[r].id] = row[r]]
    BY <1>4 DEF UpdateRoom
  <2>3. UNCHANGED <<tickets, categories>>
    BY <1>4 DEF UpdateRoom
  <2> QED
    BY <1>1, <2>1, <2>2, <2>3, RoomWritten, CatalogWritten
<1>5. CASE DeactivateRoom(r)
  <2> DEFINE x == call[r].id
             w == [rooms[x] EXCEPT !.active = FALSE]
  <2>1. x \in RoomId /\ UNCHANGED <<tickets, categories>>
    BY <1>1, <1>5, CallFields DEF DeactivateRoom, Writes
  <2>2. CASE rooms[x] = NULL
    <3>1. UNCHANGED tables
      BY <1>5, <2>1, <2>2 DEF DeactivateRoom, tables
    <3> QED
      BY <1>1, <3>1, SameTables, CatalogWritten
  <2>3. CASE rooms[x] # NULL
    <3>1. rooms[x] \in Room
      BY <2>1, <2>3 DEF CInv, TypeOK
    <3>2. w \in Room /\ w.name = rooms[x].name
      BY <3>1 DEF Room
    <3>3. rooms' = [rooms EXCEPT ![x] = w]
      BY <1>5, <2>3 DEF DeactivateRoom, CInv, TypeOK
    <3> HIDE DEF w, x
    <3>4. ~Taken(w.name, x)
      BY <2>1, <2>3, <3>2 DEF Taken, CInv, TypeOK
    <3> QED
      BY <1>1, <2>1, <3>2, <3>3, <3>4, RoomWritten, CatalogWritten
  <2> QED
    BY <2>2, <2>3
<1> QED
  BY <1>2, <1>3, <1>4, <1>5

-----------------------------------------------------------------------------
(***************************************************************************)
(* The invariants.                                                         *)
(***************************************************************************)

\* The initial state.
LEMMA InitInv == Init => CInv
<1> SUFFICES ASSUME Init PROVE CInv
  OBVIOUS
<1>1. \A x \in RoomId : Seeded[x] # NULL => Seeded[x].name \in Name
  BY SeedAssumption, RoomFields
<1>2. TypeOK
  BY <1>1, SeedAssumption DEF Init, TypeOK
<1>3. \A r \in Request : Shape(r) /\ TicketCopied(r) /\ RoomCopied(r)
  BY DEF Init, Shape, TicketCopied, HoldsTicket, RoomCopied, HoldsRoom
<1>4. RoomNameBelongs /\ NamesOnRecord
  BY DEF Init, RoomNameBelongs, NamesOnRecord
<1> QED
  BY <1>2, <1>3, <1>4 DEF CInv

\* Steps of a request that leave the tables alone.
LEMMA ReadSteps ==
  ASSUME CInv, Remember, NEW r \in Request,
         \/ \E c \in Input : Arrive(r, c)
         \/ Abort(r) \/ TicketRead(r) \/ CategoryLookup(r) \/ RoomLookup(r) \/ RoomRead(r)
  PROVE  UNCHANGED tables /\ CInv'
<1>1. CASE Abort(r)
  <2>1. Answer(r) /\ UNCHANGED tables
    BY <1>1 DEF Abort
  <2> QED
    BY <2>1, SameTables, AnswerStep
<1>2. CASE ~Abort(r)
  BY <1>2, ArriveStep, TicketReadStep, CategoryLookupStep, RoomLookupStep, RoomReadStep
  DEF Arrive, TicketRead, CategoryLookup, RoomLookup, RoomRead
<1> QED
  BY <1>1, <1>2

\* Every step keeps the invariant.
LEMMA NextInv == CInv /\ [Next]_vars => CInv'
<1> SUFFICES ASSUME CInv, [Next]_vars PROVE CInv'
  OBVIOUS
<1>1. CASE UNCHANGED vars
  BY <1>1 DEF vars, tables, CInv, TypeOK, Shape, TicketCopied, HoldsTicket, Pending, Named,
     RoomCopied, HoldsRoom, RoomNameBelongs, Belongs, NamesOnRecord
<1>2. ASSUME NEW r \in Request, Step(r), Remember PROVE CInv'
  BY <1>2, ReadSteps, TicketWritten, AdminWritten DEF Step
<1> QED
  BY <1>1, <1>2 DEF Next

\* The inductive invariant holds in every behaviour.
THEOREM CatalogInvariance == Spec => []CInv
BY InitInv, NextInv, PTL DEF Spec

\* Types are right, no room is nameless and no two rooms share a name, whatever
\* creations and renamings race.
THEOREM CatalogTypeCorrect == Spec => []TypeOK
<1>1. CInv => TypeOK
  BY DEF CInv
<1> QED
  BY <1>1, CatalogInvariance, PTL

\* The name a ticket shows is one that the room it refers to has borne, or a
\* text that a client typed.
THEOREM RoomNamesStayBelonging == Spec => []RoomNameBelongs
<1>1. CInv => RoomNameBelongs
  BY DEF CInv
<1> QED
  BY <1>1, CatalogInvariance, PTL

-----------------------------------------------------------------------------
(***************************************************************************)
(* The action properties.                                                  *)
(***************************************************************************)

\* What was out of service before a request arrived is not put on a ticket, or
\* back into service, by it, but where its body says so or a PATCH restores it.
THEOREM RetiredIsFinal == Spec => RetiredStaysOut
<1> DEFINE OnTickets ==
             \A t \in TicketId, k \in {"category", "roomId"} :
               /\ tickets'[t] # NULL /\ tickets'[t][k] # NULL
               /\ tickets[t] # NULL => tickets'[t][k] # tickets[t][k]
               => \E r \in Request : PutsOnTicket(r, t, k)
           IntoService ==
             \A x \in RoomId :
               rooms[x] # NULL /\ ~rooms[x].active /\ rooms'[x].active
                 => \E r \in Request : PutsIntoService(r, x)
<1>1. ASSUME CInv, [Next]_vars PROVE OnTickets
  <2> SUFFICES ASSUME NEW t \in TicketId, NEW k \in {"category", "roomId"},
                      tickets'[t] # NULL, tickets'[t][k] # NULL,
                      tickets[t] # NULL => tickets'[t][k] # tickets[t][k]
               PROVE  \E r \in Request : PutsOnTicket(r, t, k)
    OBVIOUS
  <2>1. ~UNCHANGED tickets
    OBVIOUS
  <2>2. PICK r \in Request : Step(r) /\ Remember
    BY <1>1, <2>1 DEF Next, vars, tables
  <2>3. CreateTicket(r) \/ UpdateTicket(r)
    BY <1>1, <2>1, <2>2, ReadSteps, AdminWritten DEF Step, tables
  <2>4. PICK u \in TicketId :
          /\ tickets' = [tickets EXCEPT ![u] = row[r]]
          /\ call[r].op = "update" => call[r].id = u
    BY <1>1, <2>2, <2>3, TicketWritten
  <2>5. u = t /\ tickets'[t] = row[r]
    BY <1>1, <2>4 DEF CInv, TypeOK
  <2>6. pc[r] = "write" /\ call[r].op \in {"create", "update"}
    BY <2>3 DEF CreateTicket, UpdateTicket, Writes
  <2>7. row[r][k] \notin out[r] \/ (call[r].op = "update" /\ k \notin DOMAIN call[r].arg)
    BY <1>1, <2>6 DEF CInv, TicketCopied, HoldsTicket, Pending
  <2> QED
    BY <2>4, <2>5, <2>6, <2>7 DEF PutsOnTicket
<1>2. ASSUME CInv, [Next]_vars PROVE IntoService
  <2> SUFFICES ASSUME NEW x \in RoomId, rooms[x] # NULL, ~rooms[x].active, rooms'[x].active
               PROVE  \E r \in Request : PutsIntoService(r, x)
    OBVIOUS
  <2>1. ~UNCHANGED rooms
    OBVIOUS
  <2>2. PICK r \in Request : Step(r) /\ Remember
    BY <1>2, <2>1 DEF Next, vars, tables
  <2>3. CreateRoom(r) \/ UpdateRoom(r) \/ DeactivateRoom(r)
    BY <1>2, <2>1, <2>2, ReadSteps DEF Step, tables, CreateTicket, UpdateTicket,
       CreateCategory, DeactivateCategory
  <2>4. ~CreateRoom(r)
    BY <1>2 DEF CreateRoom, CInv, TypeOK
  <2>5. ~DeactivateRoom(r)
    BY <1>2 DEF DeactivateRoom, CInv, TypeOK, Room
  <2>6. /\ pc[r] = "write" /\ call[r].op = "update_room" /\ call[r].id = x
        /\ rooms'[x] = row[r] /\ row[r].active
    BY <1>2, <2>1, <2>3, <2>4, <2>5 DEF UpdateRoom, Writes, CInv, TypeOK
  <2> QED
    BY <1>2, <2>6 DEF PutsIntoService, CInv, RoomCopied, HoldsRoom
<1>3. CInv /\ [Next]_vars => [OnTickets /\ IntoService]_vars
  BY <1>1, <1>2
<1> QED
  BY <1>3, CatalogInvariance, PTL DEF Spec, RetiredStaysOut

\* A PATCH takes back only changes that somebody has made since it read the row.
THEOREM PatchesKeepOthers == Spec => PatchKeepsOthers
<1> DEFINE Keeps ==
             \A r \in Request :
               pc[r] = "write" /\ pc'[r] = "idle" /\ call[r].op \in {"update", "update_room"} =>
                 \A k \in DOMAIN row[r] \ (Named(r) \cup touched[r]) :
                   IF call[r].op = "update"
                   THEN tickets'[call[r].id][k] = tickets[call[r].id][k]
                   ELSE rooms'[call[r].id][k] = rooms[call[r].id][k]
<1>1. ASSUME CInv, [Next]_vars PROVE Keeps
  <2> SUFFICES ASSUME NEW r \in Request, pc[r] = "write", pc'[r] = "idle",
                      call[r].op \in {"update", "update_room"},
                      NEW k \in DOMAIN row[r] \ (Named(r) \cup touched[r])
               PROVE  IF call[r].op = "update"
                      THEN tickets'[call[r].id][k] = tickets[call[r].id][k]
                      ELSE rooms'[call[r].id][k] = rooms[call[r].id][k]
    OBVIOUS
  <2>1. PICK s \in Request : Step(s) /\ Remember
    BY <1>1 DEF Next, vars
  <2>2. s = r
    BY <1>1, <2>1 DEF Step, Arrive, Abort, TicketRead, CategoryLookup, RoomLookup, CreateTicket,
       UpdateTicket, CreateCategory, DeactivateCategory, CreateRoom, RoomRead, UpdateRoom,
       DeactivateRoom, Writes, Answer, CInv, TypeOK
  <2>3. UNCHANGED tables \/ UpdateTicket(r) \/ UpdateRoom(r)
    BY <2>1, <2>2 DEF Step, Arrive, Abort, TicketRead, CategoryLookup, RoomLookup, CreateTicket,
       CreateCategory, DeactivateCategory, CreateRoom, RoomRead, DeactivateRoom, Writes
  <2>4. CASE UNCHANGED tables
    BY <2>4 DEF tables
  <2>5. CASE UpdateTicket(r)
    <3>1. tickets' = [tickets EXCEPT ![call[r].id] = row[r]] /\ call[r].op = "update"
      BY <2>5 DEF UpdateTicket, Writes
    <3>2. call[r].id \in TicketId
      BY <1>1, <3>1, Busy, CallFields
    <3>3. row[r][k] = tickets[call[r].id][k]
      BY <1>1, <3>1 DEF CInv, TicketCopied, HoldsTicket
    <3> QED
      BY <1>1, <3>1, <3>2, <3>3 DEF CInv, TypeOK
  <2>6. CASE UpdateRoom(r)
    <3>1. /\ rooms' = rooms \/ rooms' = [rooms EXCEPT ![call[r].id] = row[r]]
          /\ call[r].op = "update_room"
      BY <2>6 DEF UpdateRoom, Writes
    <3>2. call[r].id \in RoomId
      BY <1>1, <3>1, Busy, CallFields
    <3>3. row[r][k] = rooms[call[r].id][k]
      BY <1>1, <3>1 DEF CInv, RoomCopied, HoldsRoom
    <3> QED
      BY <1>1, <3>1, <3>2, <3>3 DEF CInv, TypeOK
  <2> QED
    BY <2>3, <2>4, <2>5, <2>6
<1>2. CInv /\ [Next]_vars => [Keeps]_vars
  BY <1>1
<1> QED
  BY <1>2, CatalogInvariance, PTL DEF Spec, PatchKeepsOthers
-----------------------------------------------------------------------------
(***************************************************************************)
(* One request at a time.                                                  *)
(***************************************************************************)

\* Nothing has changed in the tables since the request arrived.
Alone(r) == pc[r] # "idle" => out[r] = Retired /\ touched[r] = {}

\* The tables change only when the request that is served is answered.
LEMMA AloneStep ==
  ASSUME CInv, [Next]_vars, NEW r \in Request, \A s \in Request : s = r, Alone(r)
  PROVE  Alone(r)'
<1>1. CASE UNCHANGED vars
  BY <1>1 DEF vars, tables, Alone, Retired
<1>2. CASE Step(r) /\ Remember
  <2>1. CASE pc'[r] = "idle"
    BY <2>1 DEF Alone
  <2>2. CASE pc'[r] # "idle"
    <3>1. ~CreateTicket(r) /\ ~UpdateTicket(r) /\ ~CreateCategory(r) /\ ~DeactivateCategory(r)
          /\ ~CreateRoom(r) /\ ~UpdateRoom(r) /\ ~DeactivateRoom(r)
      BY <2>2 DEF CreateTicket, UpdateTicket, CreateCategory, DeactivateCategory, CreateRoom,
         UpdateRoom, DeactivateRoom, Writes, Answer, CInv, TypeOK
    <3>2. UNCHANGED tables
      BY <1>2, <3>1, ReadSteps DEF Step
    <3>3. Retired' = Retired /\ ChangedUnder(r) = {}
      BY <3>2 DEF tables, Retired, ChangedUnder
    <3>4. out'[r] = Retired
      BY <1>2, <2>2, <3>3 DEF Remember, Alone
    <3>5. touched'[r] = {}
      <4>1. pc[r] = "idle" => row[r] = NULL
        BY DEF CInv, Shape
      <4> QED
        BY <1>2, <2>2, <3>3, <4>1 DEF Remember, Alone
    <3> QED
      BY <3>3, <3>4, <3>5 DEF Alone
  <2> QED
    BY <2>1, <2>2
<1> QED
  BY <1>1, <1>2 DEF Next

\* Lost changes, and things put out of service that turn up again, need a race:
\* when requests are served one at a time, what a step puts on a ticket is not
\* out of service, a room comes back into service only when the body of a PATCH
\* says so, and a PATCH changes no column that its body does not stand for.
THEOREM CatalogOneAtATime ==
  ASSUME \A r, s \in Request : r = s
  PROVE  Spec =>
    [][/\ \A t \in TicketId, k \in {"category", "roomId"} :
            /\ tickets'[t] # NULL /\ tickets'[t][k] # NULL
            /\ tickets[t] # NULL => tickets'[t][k] # tickets[t][k]
            => tickets'[t][k] \notin Retired
       /\ \A x \in RoomId :
            rooms[x] # NULL /\ ~rooms[x].active /\ rooms'[x].active =>
              \E r \in Request : /\ pc[r] = "write" /\ call[r].op = "update_room"
                                 /\ "active" \in DOMAIN call[r].arg /\ call[r].arg.active
       /\ \A r \in Request :
            pc[r] = "write" /\ pc'[r] = "idle" /\ call[r].op \in {"update", "update_room"} =>
              \A k \in DOMAIN row[r] \ Named(r) :
                IF call[r].op = "update"
                THEN tickets'[call[r].id][k] = tickets[call[r].id][k]
                ELSE rooms'[call[r].id][k] = rooms[call[r].id][k]]_vars
<1> DEFINE Quiet == \A r \in Request : Alone(r)
           Put(t, k) ==
             /\ tickets'[t] # NULL /\ tickets'[t][k] # NULL
             /\ tickets[t] # NULL => tickets'[t][k] # tickets[t][k]
           Back(x) == rooms[x] # NULL /\ ~rooms[x].active /\ rooms'[x].active
           Same(r, k) ==
             IF call[r].op = "update"
             THEN tickets'[call[r].id][k] = tickets[call[r].id][k]
             ELSE rooms'[call[r].id][k] = rooms[call[r].id][k]
           Patches(r) ==
             pc[r] = "write" /\ pc'[r] = "idle" /\ call[r].op \in {"update", "update_room"}
           Races ==
             /\ \A t \in TicketId, k \in {"category", "roomId"} :
                  Put(t, k) => \E r \in Request : PutsOnTicket(r, t, k)
             /\ \A x \in RoomId : Back(x) => \E r \in Request : PutsIntoService(r, x)
           Keeps ==
             \A r \in Request : Patches(r) =>
               \A k \in DOMAIN row[r] \ (Named(r) \cup touched[r]) : Same(r, k)
           InService ==
             /\ \A t \in TicketId, k \in {"category", "roomId"} :
                  Put(t, k) => tickets'[t][k] \notin Retired
             /\ \A x \in RoomId : Back(x) =>
                  \E r \in Request : /\ pc[r] = "write" /\ call[r].op = "update_room"
                                     /\ "active" \in DOMAIN call[r].arg /\ call[r].arg.active
             /\ \A r \in Request : Patches(r) =>
                  \A k \in DOMAIN row[r] \ Named(r) : Same(r, k)
<1>1. Init => Quiet
  BY DEF Init, Alone
<1>2. CInv /\ Quiet /\ [Next]_vars => Quiet'
  BY AloneStep
<1>3. ASSUME CInv, Quiet, Races, Keeps PROVE InService
  <2>1. ASSUME NEW t \in TicketId, NEW k \in {"category", "roomId"}, Put(t, k)
        PROVE  tickets'[t][k] \notin Retired
    <3>1. PICK r \in Request : PutsOnTicket(r, t, k)
      BY <1>3, <2>1
    <3>2. /\ pc[r] = "write" /\ HoldsTicket(r) /\ out[r] = Retired /\ touched[r] = {}
          /\ row[r][k] = tickets'[t][k]
      BY <1>3, <3>1 DEF PutsOnTicket, HoldsTicket, Alone
    <3>3. CASE row[r][k] \notin out[r]
      BY <3>2, <3>3
    <3>4. CASE call[r].op = "update" /\ k \notin DOMAIN call[r].arg
      <4>1. row[r] \in Ticket /\ tickets[t] # NULL /\ call[r].id = t
        BY <1>3, <3>1, <3>2, <3>4 DEF PutsOnTicket, CInv, TicketCopied
      <4>2. k \in DOMAIN row[r] \ (Named(r) \cup touched[r])
        BY <3>2, <3>4, <4>1 DEF Named, Ticket
      <4>3. row[r][k] = tickets[t][k]
        BY <1>3, <3>2, <3>4, <4>1, <4>2 DEF CInv, TicketCopied
      <4> QED
        BY <2>1, <3>2, <4>1, <4>3
    <3> QED
      BY <3>1, <3>3, <3>4 DEF PutsOnTicket
  <2>2. ASSUME NEW x \in RoomId, Back(x)
        PROVE  \E r \in Request : /\ pc[r] = "write" /\ call[r].op = "update_room"
                                  /\ "active" \in DOMAIN call[r].arg /\ call[r].arg.active
    <3>1. PICK r \in Request : PutsIntoService(r, x)
      BY <1>3, <2>2
    <3>2. x \in out[r]
      BY <1>3, <2>2, <3>1 DEF PutsIntoService, Alone, Retired
    <3> QED
      BY <3>1, <3>2 DEF PutsIntoService
  <2>3. ASSUME NEW r \in Request, Patches(r), NEW k \in DOMAIN row[r] \ Named(r)
        PROVE  Same(r, k)
    BY <1>3, <2>3 DEF Alone
  <2> QED
    BY <2>1, <2>2, <2>3
<1>4. CInv /\ Quiet /\ [Races]_vars /\ [Keeps]_vars => [InService]_vars
  BY <1>3
<1>5. Spec => [][Races]_vars
  BY RetiredIsFinal DEF RetiredStaysOut
<1>6. Spec => [][Keeps]_vars
  BY PatchesKeepOthers DEF PatchKeepsOthers
<1> QED
  BY <1>1, <1>2, <1>4, <1>5, <1>6, CatalogInvariance, PTL DEF Spec
=============================================================================
