--------------------------- MODULE TicketInvariant ---------------------------
(***************************************************************************)
(* The inductive invariant of TicketService: what each request knows, at   *)
(* each program counter, of its own copy, of the lock and of the tables.   *)
(***************************************************************************)
EXTENDS TicketService

\* A request's operation and note fit its program counter.
Shape(r) ==
  /\ pc[r] = "idle" <=> call[r] = NULL
  /\ pc[r] # "idle" => Valid(call[r])
  /\ pc[r] = "read" => call[r].op \in ReadOp
  /\ pc[r] = "write" => call[r].op \in {"create", "update", "delete", "comment"}
  /\ pc[r] \in {"begin", "notify"} \cup InTx => call[r].op \in TxOp
  /\ pc[r] = "comment" => call[r].op \in {"complete", "refuse"}
  /\ pc[r] # "commit" => note[r] = {}

\* A transaction holds the lock on its row, and the row stays live; a ticket
\* that an operation has read stays in the table.
RowThere(r) ==
  /\ pc[r] \in InTx => lock[call[r].tid] = r /\ Live(call[r].tid)
  /\ pc[r] = "write" /\ call[r].op # "create" => tickets[call[r].tid] # NULL

\* The status an operation moves its ticket to.
Target(c) == CASE c.op = "assign"   -> "assigned"
               [] c.op = "complete" -> "closed"
               [] c.op = "refuse"   -> "new"
               [] c.op = "reopen"   -> "reopened"
               [] OTHER             -> c.arg

\* What the checks made under the lock have established.
Checked(r) ==
  pc[r] = "locked" =>
    /\ row[r] = tickets[call[r].tid]
    /\ Entitled(call[r].actor, row[r], Target(call[r]))
    /\ call[r].op = "reopen" => row[r].reopenCount < 1

\* The comments a transaction adds besides its row.
OwnComments(c) ==
  IF c.op \in {"complete", "refuse"} THEN {WorkflowComment(c)} ELSE {}

\* A row that may be committed for ticket id once the comments cs are.
Publishable(t, id, cs) ==
  t \in Ticket /\ ~t.deleted /\ RowOK(t) /\ ExplainedBy(cs, id, t)

\* The row an operation makes of t.
After(c, t) ==
  CASE c.op = "assign" ->
         [t EXCEPT !.assignee = c.arg, !.status = "assigned", !.reason = NULL]
    [] c.op = "complete" -> [t EXCEPT !.rating = c.arg, !.status = "closed"]
    [] c.op = "refuse" ->
         [t EXCEPT !.reason = c.arg, !.assignee = NULL, !.status = "new"]
    [] c.op = "reopen" ->
         [t EXCEPT !.status = "reopened", !.reopenCount = @ + 1, !.rating = NULL]
    [] OTHER -> [t EXCEPT !.status = c.arg]

\* What a transaction is about to publish.
Saved(r) ==
  pc[r] \in {"comment", "commit"} =>
    /\ Publishable(row[r], call[r].tid, comments \cup OwnComments(call[r]))
    /\ pc[r] = "commit" => note[r] = OwnComments(call[r])
    /\ row[r] = After(call[r], tickets[call[r].tid])
    /\ row[r].author = tickets[call[r].tid].author
    /\ row[r].content = tickets[call[r].tid].content
    /\ row[r].status = Target(call[r])
    /\ Entitled(call[r].actor, tickets[call[r].tid], row[r].status)

\* The copy an Update writes back may be old, but it was a committed row once.
Copied(r) ==
  pc[r] = "write" /\ call[r].op = "update" =>
    Publishable(row[r], call[r].tid, comments)

RequestInv(r) == Shape(r) /\ RowThere(r) /\ Checked(r) /\ Saved(r) /\ Copied(r)

\* A lock that is held belongs to a transaction that works on its row.
LockUsed(t) == lock[t] # NULL => pc[lock[t]] \in InTx /\ call[lock[t]].tid = t

IInv ==
  /\ TypeOK
  /\ \A r \in Request : RequestInv(r)
  /\ \A t \in TicketId : LockUsed(t)
  /\ RowConsistent
  /\ RowExplained
=============================================================================
