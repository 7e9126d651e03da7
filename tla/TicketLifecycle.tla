--------------------------- MODULE TicketLifecycle ---------------------------
(***************************************************************************)
(* What the workflow promises of a ticket: its life when every operation   *)
(* takes effect at once, one at a time.  TicketService implements it with  *)
(* concurrent requests, transactions, aborts and crashes, as long as no    *)
(* Update among them races with another write of its ticket.               *)
(***************************************************************************)
EXTENDS Tables

VARIABLES tickets, comments

vars == <<tickets, comments>>

Init == tickets = [t \in TicketId |-> NULL] /\ comments = {}

\* Ticket t is open for an operation while its status is one of `from`.
In(t, from) ==
  tickets[t] # NULL /\ ~tickets[t].deleted /\ tickets[t].status \in from

Create(t, author, content) ==
  /\ tickets[t] = NULL
  /\ tickets' = [tickets EXCEPT ![t] = NewTicket(author, content)]
  /\ UNCHANGED comments

\* A PATCH rewrites the descriptive columns it names, and no other column.
Edit(t, patch) ==
  /\ In(t, TicketStatus)
  /\ tickets' = [tickets EXCEPT ![t].content = Patched(@, patch)]
  /\ UNCHANGED comments

Assign(t, w) ==
  /\ In(t, {"new", "assigned", "reopened"})
  /\ tickets' = [tickets EXCEPT ![t].status = "assigned", ![t].assignee = w,
                                ![t].reason = NULL]
  /\ UNCHANGED comments

\* The statuses POST /transitions moves a ticket to; a closed ticket it moves to
\* reopened keeps its rating and its reopening is not counted.
Move(t, to) ==
  /\ In(t, {s \in TicketStatus : CanTransition(s, to)})
  /\ to \in {"in_progress", "resolved", "cancelled", "reopened"}
  /\ tickets' = [tickets EXCEPT ![t].status = to]
  /\ UNCHANGED comments

Complete(t, author, rating) ==
  /\ In(t, {"resolved"})
  /\ rating \in 1..5
  /\ tickets' = [tickets EXCEPT ![t].status = "closed", ![t].rating = rating]
  /\ comments' = comments \cup
       {[ticket |-> t, author |-> author, kind |-> "closing", reason |-> NULL]}

Refuse(t, author, reason) ==
  /\ In(t, {"assigned", "in_progress"})
  /\ tickets' = [tickets EXCEPT ![t].status = "new", ![t].assignee = NULL,
                                ![t].reason = reason]
  /\ comments' = comments \cup
       {[ticket |-> t, author |-> author, kind |-> "refusal", reason |-> reason]}

Reopen(t) ==
  /\ In(t, {"closed"})
  /\ tickets[t].reopenCount < 1
  /\ tickets' = [tickets EXCEPT ![t].status = "reopened", ![t].rating = NULL,
                                ![t].reopenCount = @ + 1]
  /\ UNCHANGED comments

Delete(t) ==
  /\ In(t, TicketStatus)
  /\ tickets' = [tickets EXCEPT ![t].deleted = TRUE]
  /\ UNCHANGED comments

\* A user's comment may still arrive for a ticket deleted meanwhile.
AddComment(t, author) ==
  /\ tickets[t] # NULL
  /\ comments' = comments \cup
       {[ticket |-> t, author |-> author, kind |-> "user", reason |-> NULL]}
  /\ UNCHANGED tickets

Next ==
  \E t \in TicketId :
    \/ \E w \in User, content \in [Column -> Text] : Create(t, w, content)
    \/ \E patch \in Patch : Edit(t, patch)
    \/ \E w \in User : Assign(t, w)
    \/ \E to \in TicketStatus : Move(t, to)
    \/ \E w \in User, rating \in Rating : Complete(t, w, rating)
    \/ \E w \in User, reason \in Text : Refuse(t, w, reason)
    \/ Reopen(t)
    \/ Delete(t)
    \/ \E w \in User : AddComment(t, w)

Spec == Init /\ [][Next]_vars
=============================================================================
