----------------------------- MODULE TicketLinks -----------------------------
(***************************************************************************)
(* Links between tickets.  Two tickets are linked by two rows of the table *)
(* ticket_links, one for each direction; Link inserts both and Unlink      *)
(* deletes both with one statement each.  PostgreSQL handles the rows of a *)
(* statement one after the other: an insertion waits for another open      *)
(* statement that is inserting or deleting the same key, does nothing when *)
(* the key is there, and does not lock the row that makes it do nothing.   *)
(* A deletion sees the rows that were there when its statement began.      *)
(* The foreign keys of an inserted row also wait, before the commit, for   *)
(* workflow operations that hold the rows of the two tickets; those wait   *)
(* for no link, so the wait only delays Inserted.                          *)
(***************************************************************************)
EXTENDS Domain

CONSTANTS
  TicketId,    \* the tickets
  Request,     \* request slots: bounds the requests in flight at once
  Input,       \* the calls of dispatchers: records [op, tid, linked]
  NULL

Op == {"link", "unlink"}

ASSUME InputAssumption == Input \subseteq [op : Op, tid : TicketId, linked : TicketId]

ASSUME NullAssumption == NULL \notin Input

\* The rows that make two tickets linked.
Both(a, b) == {<<a, b>>, <<b, a>>}

Key == TicketId \X TicketId

VARIABLES
  live,    \* tickets that are not soft-deleted
  links,   \* committed rows of ticket_links
  pc,      \* where each request is
  call,    \* the call each request serves, or NULL
  todo,    \* keys the request's statement has still to handle
  held,    \* keys its statement has inserted or deleted, not yet committed
  gone,    \* history: the tickets that were deleted when the request arrived
  torn     \* history: pairs a link of which was overtaken by an unlink

vars == <<live, links, pc, call, todo, held, gone, torn>>

Pair(r) == {call[r].tid, call[r].linked}

Init ==
  /\ live = TicketId
  /\ links = {}
  /\ pc = [r \in Request |-> "idle"]
  /\ call = [r \in Request |-> NULL]
  /\ todo = [r \in Request |-> {}]
  /\ held = [r \in Request |-> {}]
  /\ gone = [r \in Request |-> {}]
  /\ torn = {}

-----------------------------------------------------------------------------
(***************************************************************************)
(* Requests.                                                               *)
(***************************************************************************)

\* Link refuses to link a ticket to itself; a call that fails this check, or
\* whose actor may not link tickets, is answered at once and is no step.
Arrive(r, in) ==
  /\ pc[r] = "idle"
  /\ in.op = "link" => in.tid # in.linked
  /\ pc' = [pc EXCEPT ![r] = IF in.op = "link" THEN "check" ELSE "scan"]
  /\ call' = [call EXCEPT ![r] = in]
  /\ gone' = [gone EXCEPT ![r] = TicketId \ live]
  /\ UNCHANGED <<live, links, todo, held, torn>>

\* The statement ends, or never begins: it holds nothing, and the request is
\* answered.
Answer(r) ==
  /\ pc' = [pc EXCEPT ![r] = "idle"]
  /\ call' = [call EXCEPT ![r] = NULL]
  /\ held' = [held EXCEPT ![r] = {}]
  /\ gone' = [gone EXCEPT ![r] = {}]
  /\ UNCHANGED live

\* GetTicketByID of one of the two tickets.
Check(r, at, t, next, keys) ==
  /\ pc[r] = at
  /\ IF t \in live
     THEN /\ pc' = [pc EXCEPT ![r] = next]
          /\ todo' = [todo EXCEPT ![r] = keys]
          /\ UNCHANGED <<live, call, held, gone>>
     ELSE Answer(r) /\ UNCHANGED todo
  /\ UNCHANGED <<links, torn>>

CheckTicket(r) == Check(r, "check", call[r].tid, "check_linked", {})

\* Mutant: one direction is inserted.
CheckLinkedOneWay(r) ==
  Check(r, "check_linked", call[r].linked, "insert", {<<call[r].tid, call[r].linked>>})

\* Mutant: the linked ticket is not looked up.
CheckLinkedNot(r) ==
  /\ pc[r] = "check_linked"
  /\ pc' = [pc EXCEPT ![r] = "insert"]
  /\ todo' = [todo EXCEPT ![r] = Both(call[r].tid, call[r].linked)]
  /\ UNCHANGED <<live, links, call, held, gone, torn>>

\* Mutant: the lookup of the linked ticket is repeated until it is found.
CheckLinkedRetried(r) ==
  /\ pc[r] = "check_linked" /\ call[r].linked \in live
  /\ Check(r, "check_linked", call[r].linked, "insert", Both(call[r].tid, call[r].linked))

CheckLinked(r) ==
  Check(r, "check_linked", call[r].linked, "insert", Both(call[r].tid, call[r].linked))

-----------------------------------------------------------------------------
(***************************************************************************)
(* The two statements, row by row.                                         *)
(***************************************************************************)

\* The row a statement handles next: an insertion in the order of VALUES, a
\* deletion in the order in which it happens to find the rows.
NextKey(r, k) ==
  /\ k \in todo[r]
  /\ pc[r] = "insert" => k = <<call[r].tid, call[r].linked>>
                         \/ <<call[r].tid, call[r].linked>> \notin todo[r]

\* r waits for the transaction of s.
Waits(r, s) == r # s /\ \E k \in held[s] : NextKey(r, k)

Free(r) == \A s \in Request : ~Waits(r, s)

\* ON CONFLICT DO NOTHING: a committed row stays as it is, and unlocked.
InsertRow(r) ==
  /\ pc[r] = "insert" /\ Free(r)
  /\ \E k \in Key :
       /\ NextKey(r, k)
       /\ todo' = [todo EXCEPT ![r] = @ \ {k}]
       /\ held' = [held EXCEPT ![r] = @ \cup ({k} \ links)]
  /\ UNCHANGED <<live, links, pc, call, gone, torn>>

\* The snapshot of DELETE FROM ticket_links.
Scan(r) ==
  /\ pc[r] = "scan"
  /\ pc' = [pc EXCEPT ![r] = "delete"]
  /\ todo' = [todo EXCEPT ![r] = links \cap Both(call[r].tid, call[r].linked)]
  /\ UNCHANGED <<live, links, call, held, gone, torn>>

DeleteRow(r) ==
  /\ pc[r] = "delete"
  /\ \E k \in todo[r] :
       /\ \A s \in Request \ {r} : k \notin held[s]
       /\ todo' = [todo EXCEPT ![r] = @ \ {k}]
       /\ held' = [held EXCEPT ![r] = @ \cup {k}]
  /\ UNCHANGED <<live, links, pc, call, gone, torn>>

\* Mutant: the transaction of the insertion is left open.
InsertedLeftOpen(r) ==
  /\ pc[r] = "insert" /\ todo[r] = {}
  /\ links' = links \cup held[r]
  /\ pc' = [pc EXCEPT ![r] = "idle"]
  /\ UNCHANGED <<live, call, todo, held, gone, torn>>

\* The statement has handled its rows and commits.
Inserted(r) ==
  /\ pc[r] = "insert" /\ todo[r] = {}
  /\ links' = links \cup held[r]
  /\ Answer(r)
  /\ UNCHANGED <<todo, torn>>

\* A link under way that has found one of the rows there and passed on.
PassedOver(s, rows) ==
  /\ pc[s] = "insert"
  /\ (Both(call[s].tid, call[s].linked) \ (todo[s] \cup held[s])) \cap rows # {}

\* The rows are gone for every deletion whose snapshot had them; what is
\* inserted from now on it does not see.
Deleted(r) ==
  /\ pc[r] = "delete" /\ todo[r] = {}
  /\ links' = links \ held[r]
  /\ todo' = [s \in Request |-> IF pc[s] = "delete" THEN todo[s] \ held[r] ELSE todo[s]]
  /\ torn' = IF \E s \in Request : PassedOver(s, held[r])
             THEN torn \cup {Pair(r)} ELSE torn
  /\ Answer(r)

\* A statement fails or the client goes away: PostgreSQL undoes the statement.
Abort(r) ==
  /\ pc[r] # "idle"
  /\ todo' = [todo EXCEPT ![r] = {}]
  /\ Answer(r)
  /\ UNCHANGED <<links, torn>>

\* The requests of S wait for one another in a circle: whatever part of S is
\* taken, somebody in it waits for somebody of S outside it.
Circle(S) ==
  /\ \A r \in S : \E s \in S : Waits(r, s)
  /\ \A T \in (SUBSET S) \ {{}, S} : \E r \in T, s \in S \ T : Waits(r, s)

\* The deadlock detector aborts the statement of a request that is in a circle.
DetectDeadlock(r) ==
  /\ \E S \in SUBSET Request : r \in S /\ Circle(S)
  /\ Abort(r)

\* The ticket service soft-deletes a ticket, whatever links it has.
SoftDelete(t) ==
  /\ t \in live
  /\ live' = live \ {t}
  /\ UNCHANGED <<links, pc, call, todo, held, gone, torn>>

-----------------------------------------------------------------------------
(***************************************************************************)
(* The specification.                                                      *)
(***************************************************************************)

Working(r) ==
  \/ CheckTicket(r) \/ CheckLinked(r) \/ Scan(r)
  \/ Inserted(r) \/ Deleted(r)

Next ==
  \/ \E r \in Request :
       \/ \E in \in Input : Arrive(r, in)
       \/ Working(r)
       \/ InsertRow(r)
       \/ DeleteRow(r)
       \/ DetectDeadlock(r)
       \/ Abort(r)
  \/ \E t \in TicketId : SoftDelete(t)

Spec == Init /\ [][Next]_vars

\* Goroutines and statements run on; a statement that waits for a key gets it
\* some time, for PostgreSQL queues the waiters of a row; circles are detected.
Fairness ==
  \A r \in Request :
    /\ WF_vars(Working(r))
    /\ SF_vars(InsertRow(r) \/ DeleteRow(r))
    /\ WF_vars(DetectDeadlock(r))

FairSpec == Spec /\ Fairness

-----------------------------------------------------------------------------
(***************************************************************************)
(* Properties.                                                             *)
(***************************************************************************)

\* The type invariant; only a statement that runs holds keys, and a key is in
\* the hands of one statement.
TypeOK ==
  /\ live \subseteq TicketId
  /\ links \subseteq Key
  /\ pc \in [Request -> {"idle", "check", "check_linked", "scan", "insert", "delete"}]
  /\ call \in [Request -> [op : Op, tid : TicketId, linked : TicketId] \cup {NULL}]
  /\ todo \in [Request -> SUBSET Key]
  /\ held \in [Request -> SUBSET Key]
  /\ gone \in [Request -> SUBSET TicketId]
  /\ torn \subseteq SUBSET TicketId
  /\ \A r, s \in Request : r # s => held[r] \cap held[s] = {}
  /\ \A r \in Request : held[r] # {} => pc[r] \in {"insert", "delete"}

\* Two tickets are linked in both directions or not at all, whatever links,
\* deadlocks and aborts there are, unless an Unlink has overtaken a Link of the
\* same tickets: committed after the Link found one of the rows there.
OneWayOnlyByRace ==
  \A a, b \in TicketId :
    <<a, b>> \in links /\ <<b, a>> \notin links => {a, b} \in torn

\* Requests deadlock only over the two tickets all of them work on; links of
\* other tickets are never aborted for them.
CirclesShareAPair ==
  \A S \in SUBSET Request :
    Circle(S) => \A r, s \in S : Pair(r) = Pair(s)

\* A request never links a ticket that was deleted before it arrived, though
\* the two lookups and the insertion are three statements.
LinkedWereThere ==
  \A k \in links' \ links :
    \E r \in Request :
      /\ pc[r] = "insert" /\ k \in held[r]
      /\ k[1] \notin gone[r] /\ k[2] \notin gone[r]

NoLinkToDeleted == [][LinkedWereThere]_vars

\* Every request is answered, though requests that link the same tickets in
\* opposite orders wait for one another.
Answered == \A r \in Request : pc[r] # "idle" ~> pc[r] = "idle"

-----------------------------------------------------------------------------
(***************************************************************************)
(* What makes the safety properties inductive.                             *)
(***************************************************************************)

\* A request has a call as long as it runs; its statement, and nothing else of
\* it, works on the two rows of that call.
OnItsPair(r) ==
  /\ pc[r] # "idle" => call[r] # NULL
  /\ IF pc[r] \in {"insert", "delete"}
     THEN todo[r] \cup held[r] \subseteq Both(call[r].tid, call[r].linked)
     ELSE todo[r] = {}

\* A ticket that a link has looked up was not deleted when it arrived.
LookedUp(r) ==
  /\ gone[r] \cap live = {}
  /\ pc[r] \in {"check_linked", "insert"} => call[r].tid \notin gone[r]
  /\ pc[r] = "insert" => call[r].linked \notin gone[r]

\* A row that a link has passed on without inserting it is there, unless the
\* link was overtaken.
FoundThere(r) ==
  pc[r] = "insert" =>
    \A k \in Both(call[r].tid, call[r].linked) \ (todo[r] \cup held[r]) :
      k \in links \/ Pair(r) \in torn

\* An unlink takes both rows, which are there until somebody commits their
\* deletion, or none.
TakesBothOrNone(r) ==
  pc[r] = "delete" =>
    \/ Pair(r) \in torn
    \/ todo[r] \cup held[r] = {}
    \/ /\ todo[r] \cup held[r] = Both(call[r].tid, call[r].linked)
       /\ todo[r] \cup held[r] \subseteq links

\* The inductive invariant.
LInv ==
  /\ TypeOK
  /\ OneWayOnlyByRace
  /\ \A r \in Request :
       /\ OnItsPair(r)
       /\ LookedUp(r)
       /\ FoundThere(r)
       /\ TakesBothOrNone(r)
=============================================================================
