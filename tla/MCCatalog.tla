------------------------------ MODULE MCCatalog ------------------------------
(***************************************************************************)
(* A small instance of Catalog: room m1 is in service, m2 can be created;  *)
(* an administrator keeps the catalog and a dispatcher edits a ticket.     *)
(***************************************************************************)
EXTENDS Catalog, TLC

CONSTANTS c1, c2, m1, m2, t1, nx, ny, text, b1, b2, r1, r2

MCSeeded == (m1 :> [name |-> nx, building |-> b1, active |-> TRUE]) @@ (m2 :> NULL)

C(op, id, arg) ==
  [op |-> op, roles |-> {IF op \in AdminOp THEN "admin" ELSE "dispatcher"},
   id |-> id, arg |-> arg]

AdminInput ==
  {C("create_category", NULL, NULL), C("deactivate_category", c1, NULL),
   C("create_room", NULL, [name |-> ny, building |-> b1]),
   C("update_room", m1, "name" :> ny), C("update_room", m1, "name" :> Blank),
   C("update_room", m1, "building" :> b2), C("update_room", m1, "active" :> TRUE),
   C("deactivate_room", m1, NULL)}

TicketInput ==
  {C("create", NULL, ("category" :> c1) @@ ("roomId" :> m1)),
   C("update", t1, "category" :> c1), C("update", t1, "room" :> text),
   C("update", t1, "roomId" :> m1), C("update", t1, "roomId" :> m2)}

\* A call of the administration by somebody else.
MCInput ==
  AdminInput \cup TicketInput
    \cup {[C("deactivate_room", m1, NULL) EXCEPT !.roles = {"manager"}]}

Symmetry == Permutations(Request)
=============================================================================
