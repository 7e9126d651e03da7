--------------------------- MODULE MCReopenHistory ---------------------------
(***************************************************************************)
(* Instances of ReopenHistory: whether a ticket is reopened once depends   *)
(* on which operations are used.                                           *)
(***************************************************************************)
EXTENDS MCTicketService, ReopenHistory

\* Reopening goes through POST /reopen only, and nobody PATCHes.
ReopenInput == Happy \cup Detours \cup Calls("reopen", {d}, {NULL})

\* POST /transitions is also asked to reopen.
TransitionInput == Happy \cup Calls("transition", {u, d}, {"reopened"})
=============================================================================
