---------------------------- MODULE ReopenHistory ----------------------------
(***************************************************************************)
(* TicketService with a record of how often each ticket really entered the *)
(* status reopened, which the column reopen_count is there to count.       *)
(***************************************************************************)
EXTENDS TicketService

VARIABLE reopenings   \* TicketId -> times the committed status became reopened

hvars == <<vars, reopenings>>

HInit == Init /\ reopenings = [t \in TicketId |-> 0]

\* The step reopens ticket t.
Reopens(t) ==
  /\ tickets[t] # NULL /\ tickets[t].status # "reopened"
  /\ tickets'[t].status = "reopened"

HNext ==
  /\ Next
  /\ reopenings' = [t \in TicketId |-> reopenings[t] + IF Reopens(t) THEN 1 ELSE 0]

HSpec == HInit /\ [][HNext]_hvars

-----------------------------------------------------------------------------

\* A ticket is reopened once: concurrent requests to reopen it, an answer lost
\* and asked for again, and a second round through closed do not get past the
\* count that CanReopen looks at.
ReopenedOnce == \A t \in TicketId : reopenings[t] <= 1

-----------------------------------------------------------------------------
(***************************************************************************)
(* What makes it inductive, and for which clients.                         *)
(***************************************************************************)

\* A call that neither PATCHes a ticket nor reopens it with POST /transitions.
Counting(c) == c.op # "update" /\ ~(c.op = "transition" /\ c.arg = "reopened")

\* The clients make such calls only.
CountingClients == \A in \in Input : Counting(in)

\* The column counts at least the reopenings there were.
Counted(t) ==
  reopenings[t] <= IF tickets[t] = NULL THEN 0 ELSE tickets[t].reopenCount

HInv ==
  /\ reopenings \in [TicketId -> Nat]
  /\ \A r \in Request : call[r] # NULL => Counting(call[r])
  /\ \A t \in TicketId : Counted(t)
=============================================================================
