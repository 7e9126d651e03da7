--------------------------- MODULE MCTicketService ---------------------------
(***************************************************************************)
(* Small instances of TicketService for TLC: an author u, a dispatcher d   *)
(* and an executor e.                                                      *)
(***************************************************************************)
EXTENDS TicketInvariant, TLC

CONSTANTS
  u, d, e,       \* the users
  v1, v2,        \* two texts of a column
  bad,           \* a refusal reason
  t1, r1, r2     \* a ticket id, request slots

\* user_roles as the demo seed fills it; the executor loses
\* the role at any moment in ChangingRoles.
Seeded == (u :> {"user"}) @@ (d :> {"dispatcher"}) @@ (e :> {"executor"})

StaticRoles == {[x \in User |-> Seeded[x]]}

ChangingRoles ==
  StaticRoles \cup {[x \in User |-> IF x = e THEN {"user"} ELSE Seeded[x]]}

\* The calls that `users` make of `op` with the arguments `args`.
Calls(op, users, args) ==
  {[op |-> op, user |-> w, tid |-> t, arg |-> x] :
     w \in users, t \in TicketId, x \in args}

Body == {[k \in Column |-> v1]}

Creates == Calls("create", {u}, Body)

\* A life of a ticket from new to closed.
Happy ==
  Creates \cup Calls("assign", {d}, {e})
          \cup Calls("transition", {e}, {"in_progress", "resolved"})
          \cup Calls("complete", {u}, Rating)

\* The ways back and out of it.
Detours ==
  Calls("refuse", {e}, {bad}) \cup Calls("reopen", {u}, {NULL})
    \cup Calls("cancel", {u}, {NULL})

Deletes == Calls("delete", {u}, {NULL})

\* PATCHes of different columns; one by the author, one by a dispatcher.
Updates == Calls("update", {u}, {"title" :> v2}) \cup Calls("update", {d}, {"details" :> v2})

\* Calls that some check turns away, and the uncounted reopening.
Odd == Calls("assign", {d}, {u}) \cup Calls("transition", {d}, {"reopened"})
         \cup Calls("transition", {u}, {"closed"})

Comments == Calls("comment", {e}, {NULL})

AllInput ==
  Happy \cup Detours \cup Deletes \cup Updates \cup Odd \cup Comments

\* Without Update.
SerialInput == Happy \cup Detours \cup Deletes \cup Odd \cup Comments

\* Operations that contend for the row of one ticket.
ContendedInput == Happy \cup Detours \cup Deletes \cup Calls("update", {u}, {"title" :> v2})

Symmetry == Permutations(Request)
=============================================================================
