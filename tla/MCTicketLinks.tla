---------------------------- MODULE MCTicketLinks ----------------------------
(***************************************************************************)
(* A small instance of TicketLinks: two tickets linked in both orders      *)
(* and unlinked, and a third one linked to the second.                     *)
(***************************************************************************)
EXTENDS TicketLinks

CONSTANTS t1, t2, t3

\* Unlink of the pair in the other order is the same statement.
MCInput ==
  {[op |-> "link", tid |-> t1, linked |-> t2], [op |-> "link", tid |-> t2, linked |-> t1],
   [op |-> "unlink", tid |-> t1, linked |-> t2], [op |-> "link", tid |-> t2, linked |-> t3]}
=============================================================================
