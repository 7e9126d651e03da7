-------------------------- MODULE MCTicketAudience --------------------------
(***************************************************************************)
(* An instance of TicketAudience: requests that reopen, complete, refuse   *)
(* and cancel a ticket while its author reads it.                          *)
(***************************************************************************)
EXTENDS MCReopenHistory, TicketAudience

CONSTANT g1

AudienceInput == ReopenInput \cup Deletes

MCViewer == {[user |-> u, roles |-> {"user"}]}
=============================================================================
