------------------------------- MODULE Tables -------------------------------
(***************************************************************************)
(* The rows of the tables tickets and comments, as the migrations declare  *)
(* them and the repository reads and writes them.                          *)
(***************************************************************************)
EXTENDS Domain

CONSTANTS
  User,        \* ids of the registered users (users are never deleted)
  TicketId,    \* ids the database may generate: bounds the tickets created
  Text,        \* values of the descriptive columns, and of refusal reasons
  Rating,      \* the numbers a client sends as a rating, valid or not
  NULL         \* SQL NULL, Go nil, and "no such row"

\* The descriptive columns: "details" stands for every one but the title.
Column == {"title", "details"}

Ticket == [status : TicketStatus, author : User, assignee : User \cup {NULL},
           content : [Column -> Text], rating : Rating \cup {NULL},
           reason : Text \cup {NULL}, reopenCount : Nat, deleted : BOOLEAN]

\* A comment's body is told apart only by what put it there.
Comment == [ticket : TicketId, author : User,
            kind : {"closing", "refusal", "user"}, reason : Text \cup {NULL}]

\* The row INSERT INTO tickets makes: the columns it does not name are NULL, or
\* have the default of the migration.
NewTicket(author, content) ==
  [status |-> "new", author |-> author, assignee |-> NULL,
   content |-> content, rating |-> NULL, reason |-> NULL, reopenCount |-> 0,
   deleted |-> FALSE]

\* A PATCH body: only the columns it names are given a value.
Patch == UNION {[S -> Text] : S \in SUBSET Column}

\* The descriptive columns with those a PATCH names replaced.
Patched(content, patch) ==
  [k \in Column |-> IF k \in DOMAIN patch THEN patch[k] ELSE content[k]]

ASSUME RatingAssumption == Rating \subseteq Int /\ NULL \notin Rating

ASSUME NullAssumption ==
  NULL \notin User /\ NULL \notin Text /\ NULL \notin Ticket
=============================================================================
