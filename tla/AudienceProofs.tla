--------------------------- MODULE AudienceProofs ---------------------------
(***************************************************************************)
(* What follows from the invariant of TicketService once something is said *)
(* of its clients (which calls they make, or that they take turns), or     *)
(* recorded of its steps (ReopenHistory, TicketAudience and RoleHistory).  *)
(***************************************************************************)
EXTENDS TicketAudience, RoleHistory, RefinementProofs

-----------------------------------------------------------------------------
(***************************************************************************)
(* What happens to a request's call and to the row it commits.             *)
(***************************************************************************)

\* A request's call is the one it arrived with, or the transition to cancelled
\* that Cancel makes of it.
LEMMA CallSteps ==
  ASSUME IInv, [Next]_vars, NEW r \in Request, call'[r] # NULL
  PROVE  \/ call'[r] = call[r]
         \/ \E in \in Input : call'[r].op = in.op /\ call'[r].arg = in.arg
         \/ call'[r].op = "transition" /\ call'[r].arg = "cancelled"
<1>1. CASE UNCHANGED vars
  BY <1>1 DEF vars
<1>2. ASSUME NEW s \in Request, NEW in \in Input, Arrive(s, in)
      PROVE  call'[r] = call[r] \/ (call'[r].op = in.op /\ call'[r].arg = in.arg)
  BY <1>2 DEF Arrive, IInv, TypeOK
<1>3. ASSUME NEW s \in Request, Locking(s)
      PROVE  call'[r] = call[r]
  BY <1>3 DEF Locking, AssignLock, TransitionLock, CompleteLock, RefuseLock,
     ReopenLock, LockRow, UpdateWrite, DeleteWrite, CommentWrite, Statement,
     Answer, IInv, TypeOK
<1>4. ASSUME NEW s \in Request, Working(s), ~CancelRead(s)
      PROVE  call'[r] = call[r]
  BY <1>4 DEF Working, Insert, UpdateRead, DeleteRead, CommentRead, Read,
     AssignWrite, AssignReject, TransitionWrite, CompleteWrite, RefuseWrite,
     ReopenWrite, Save, AddCommentInTx, Commit, Notify, Answer, IInv, TypeOK
<1>5. ASSUME NEW s \in Request, CancelRead(s)
      PROVE  call'[r] = call[r] \/ (call'[r].op = "transition" /\ call'[r].arg = "cancelled")
  <2>1. CASE Answer(s) \/ r # s
    BY <1>5, <2>1 DEF CancelRead, Answer, IInv, TypeOK
  <2>2. CASE ~Answer(s) /\ r = s
    <3>1. call[r] \in Call
      BY <1>5, <2>2, Busy DEF CancelRead
    <3>2. call'[r] = [call[r] EXCEPT !.op = "transition", !.arg = "cancelled"]
      BY <1>5, <2>2 DEF CancelRead, IInv, TypeOK
    <3> QED
      BY <3>1, <3>2, CallCancelled
  <2> QED
    BY <2>1, <2>2
<1>6. ASSUME NEW s \in Request, Abort(s)
      PROVE  call'[r] = call[r]
  BY <1>6 DEF Abort, Answer, IInv, TypeOK
<1>7. CASE Crash \/ ChangeRoles
  BY <1>7 DEF Crash, ChangeRoles
<1> QED
  BY <1>1, <1>2, <1>3, <1>4, <1>5, <1>6, <1>7 DEF Next

\* What the operations make of a row: the columns that the notices and the
\* count of reopenings are about.
LEMMA AfterFields ==
  ASSUME NEW t \in Ticket, NEW c, c.op \in TxOp
  PROVE  /\ After(c, t).reopenCount = IF c.op = "reopen" THEN t.reopenCount + 1 ELSE t.reopenCount
         /\ c.op = "complete" => After(c, t).rating = c.arg
         /\ c.op = "refuse" => After(c, t).reason = c.arg
         /\ After(c, t).status = Target(c)
BY DEF After, Target, Ticket, TxOp

\* The row that is committed is the row there was, moved by the operation.
LEMMA CommitRow ==
  ASSUME IInv, NEW r \in Request, Commit(r)
  PROVE  /\ call[r] \in Call /\ call[r].tid \in TicketId /\ call[r].op \in TxOp
         /\ tickets[call[r].tid] \in Ticket /\ row[r] \in Ticket
         /\ row[r] = After(call[r], tickets[call[r].tid])
         /\ tickets'[call[r].tid] = row[r]
         /\ \A t \in TicketId \ {call[r].tid} : tickets'[t] = tickets[t]
         /\ ExplainedBy(comments', call[r].tid, row[r])
         /\ Valid(call[r])
<1>1. pc[r] = "commit" /\ tickets' = [tickets EXCEPT ![call[r].tid] = row[r]]
      /\ comments' = comments \cup note[r]
  BY DEF Commit
<1>2. call[r] \in Call /\ call[r].tid \in TicketId
  BY <1>1, Busy
<1>3. /\ call[r].op \in TxOp /\ Live(call[r].tid) /\ Valid(call[r])
      /\ row[r] = After(call[r], tickets[call[r].tid])
      /\ Publishable(row[r], call[r].tid, comments \cup OwnComments(call[r]))
      /\ note[r] = OwnComments(call[r])
  BY <1>1 DEF IInv, RequestInv, Shape, RowThere, Saved, InTx
<1>4. tickets[call[r].tid] \in Ticket
  BY <1>2, <1>3, LiveRow DEF IInv
<1> QED
  BY <1>1, <1>2, <1>3, <1>4 DEF Publishable, IInv, TypeOK

-----------------------------------------------------------------------------
(***************************************************************************)
(* Reopening.                                                              *)
(***************************************************************************)

\* Whether a call counts its reopening depends on its operation and argument.
LEMMA CountingCalls ==
  ASSUME IInv, HInv, CountingClients, [Next]_vars
  PROVE  \A r \in Request : call'[r] # NULL => Counting(call'[r])
BY CallSteps DEF HInv, CountingClients, Counting

\* A step that counts a reopening of a ticket has increased its column, and no
\* step decreases it.
LEMMA CountedStep ==
  ASSUME IInv, HInv, HNext, NEW t \in TicketId
  PROVE  Counted(t)'
<1>1. /\ Counted(t) /\ reopenings[t] \in Nat
      /\ reopenings'[t] = reopenings[t] + IF Reopens(t) THEN 1 ELSE 0
  BY DEF HInv, HNext
<1>2. CASE tickets[t] = NULL
  <2>1. reopenings'[t] = 0
    BY <1>1, <1>2 DEF Reopens, Counted
  <2>2. tickets'[t] # NULL => tickets'[t].reopenCount \in Nat
    BY NextInv DEF HNext, IInv, TypeOK, Ticket
  <2> QED
    BY <2>1, <2>2 DEF Counted
<1>3. CASE tickets[t] # NULL
  <2>1. tickets[t] \in Ticket /\ tickets[t].reopenCount \in Nat
    BY <1>3 DEF IInv, TypeOK, Ticket
  <2>2. CASE tickets'[t] = tickets[t]
    BY <1>1, <1>3, <2>2 DEF Reopens, Counted
  <2>3. ASSUME NEW r \in Request, DeleteWrite(r),
               tickets'[t] = [tickets[t] EXCEPT !.deleted = TRUE]
        PROVE  Counted(t)'
    <3>1. /\ tickets'[t] # NULL /\ tickets'[t].status = tickets[t].status
          /\ tickets'[t].reopenCount = tickets[t].reopenCount
      BY <2>1, <2>3, NullAssumption DEF Ticket
    <3> QED
      BY <1>1, <1>3, <3>1 DEF Reopens, Counted
  <2>4. ASSUME NEW r \in Request, Commit(r), call[r].tid = t
        PROVE  Counted(t)'
    <3>1. /\ tickets'[t] # NULL /\ tickets'[t].status = Target(call[r])
          /\ tickets'[t].reopenCount = IF call[r].op = "reopen" THEN tickets[t].reopenCount + 1
                                                               ELSE tickets[t].reopenCount
      BY <2>4, CommitRow, AfterFields, NullAssumption
    <3>2. Counting(call[r]) /\ call[r].op \in TxOp
      BY <2>4, CommitRow, Busy, RequestAssumption DEF HInv, Commit
    <3>3. Reopens(t) => call[r].op = "reopen"
      BY <3>1, <3>2 DEF Reopens, Target, Counting, TxOp
    <3> QED
      BY <1>1, <1>3, <2>1, <3>1, <3>3 DEF Counted
  <2>5. ASSUME NEW r \in Request, UpdateWrite(r) PROVE FALSE
    BY <2>5, Busy, RequestAssumption DEF UpdateWrite, Statement, HInv, Counting
  <2>6. \/ tickets'[t] = tickets[t]
        \/ \E r \in Request : DeleteWrite(r) /\ tickets'[t] = [tickets[t] EXCEPT !.deleted = TRUE]
        \/ \E r \in Request : Commit(r) /\ call[r].tid = t
        \/ \E r \in Request : UpdateWrite(r)
    BY <1>3, Writers, WritersStep DEF HNext
  <2> QED
    BY <2>2, <2>3, <2>4, <2>5, <2>6
<1> QED
  BY <1>2, <1>3

\* The count is kept by every step of clients that reopen with POST /reopen.
LEMMA HStep ==
  ASSUME IInv, HInv, CountingClients, [HNext]_hvars
  PROVE  HInv'
<1>1. CASE UNCHANGED hvars
  BY <1>1 DEF hvars, vars, HInv, Counted
<1>2. CASE HNext
  <2>1. reopenings' \in [TicketId -> Nat]
    BY <1>2 DEF HNext, HInv
  <2>2. \A r \in Request : call'[r] # NULL => Counting(call'[r])
    BY <1>2, CountingCalls DEF HNext
  <2>3. \A t \in TicketId : Counted(t)'
    BY <1>2, CountedStep
  <2> QED
    BY <2>1, <2>2, <2>3 DEF HInv
<1> QED
  BY <1>1, <1>2

\* Nothing is reopened before there are tickets.
LEMMA InitHInv == HInit => HInv
BY DEF HInit, Init, HInv, Counted

\* The column never exceeds one, so neither do the reopenings it counts.
LEMMA CountBounds == IInv /\ HInv => ReopenedOnce
<1> SUFFICES ASSUME IInv, HInv, NEW t \in TicketId PROVE reopenings[t] <= 1
  BY DEF ReopenedOnce
<1>1. tickets[t] # NULL => tickets[t].reopenCount \in Nat /\ tickets[t].reopenCount <= 1
  BY DEF IInv, TypeOK, Ticket, RowConsistent, RowOK
<1> QED
  BY <1>1 DEF HInv, Counted

\* The column reopen_count counts at least every reopening there was, and bounds
\* them: for clients that neither PATCH tickets nor reopen them with
\* POST /transitions, the two ways past the count.
THEOREM CountingInvariance ==
  ASSUME CountingClients
  PROVE  HSpec => [](IInv /\ HInv)
<1>1. HInit => IInv /\ HInv
  BY InitInv, InitHInv DEF HInit
<1>2. IInv /\ HInv /\ [HNext]_hvars => IInv' /\ HInv'
  BY NextInv, HStep DEF HNext, hvars
<1> QED
  BY <1>1, <1>2, PTL DEF HSpec

\* Under such clients a ticket is reopened once.
THEOREM ReopenedAtMostOnce ==
  ASSUME CountingClients
  PROVE  HSpec => []ReopenedOnce
BY CountingInvariance, CountBounds, PTL

\* A step that gives a ticket another status is a commit, or the write of a PATCH.
LEMMA ReservedStep ==
  ASSUME IInv, Next, NEW t \in TicketId, tickets[t] # NULL,
         tickets'[t].status # tickets[t].status
  PROVE  \E r \in Request :
           \/ UpdateWrite(r) /\ call[r].tid = t /\ Live(t)
              /\ tickets'[t] = [row[r] EXCEPT !.content = Patched(@, call[r].arg)]
           \/ Commit(r) /\ call[r].tid = t
<1>1. tickets[t] \in Ticket
  BY DEF IInv, TypeOK
<1>2. [tickets[t] EXCEPT !.deleted = TRUE].status = tickets[t].status
  BY <1>1 DEF Ticket
<1> QED
  BY <1>2, Writers, WritersStep

\* A commit that gives a ticket a reserved status is that of its operation.
LEMMA CommitEnters ==
  ASSUME IInv, NEW r \in Request, Commit(r), NEW s \in DOMAIN ReservedFor,
         tickets'[call[r].tid].status = s
  PROVE  pc[r] = "commit" /\ pc'[r] = "notify" /\ call[r].op = ReservedFor[s]
<1>1. Target(call[r]) = s /\ Valid(call[r]) /\ call[r].op \in TxOp
  BY CommitRow, AfterFields
<1>2. s \in {"assigned", "closed", "new"}
  BY DEF ReservedFor
<1> QED
  BY <1>1, <1>2 DEF Target, Valid, OpenToTransition, TxOp, ReservedFor, Commit, IInv, TypeOK

\* An existing ticket becomes assigned, closed or new only by Assign, Complete
\* or Refuse, if no client PATCHes tickets: no transition and no cancellation
\* gets there, whatever it interleaves with.
THEOREM ReservedStatusesKept ==
  ASSUME \A in \in Input : in.op # "update"
  PROVE  Spec => StatusEnteredByItsOperation
<1> DEFINE Entered == \A t \in TicketId, s \in DOMAIN ReservedFor :
             /\ tickets[t] # NULL
             /\ tickets[t].status # s /\ tickets'[t].status = s
             => \E r \in Request :
                  /\ pc[r] = "commit" /\ pc'[r] = "notify"
                  /\ call[r].tid = t /\ call[r].op = ReservedFor[s]
<1>1. Init => NoUpdate
  BY NoUpdateInit
<1>2. IInv /\ NoUpdate /\ [Next]_vars => NoUpdate'
  BY NoUpdateStep
<1>3. ASSUME IInv, NoUpdate, Next PROVE Entered
  <2> SUFFICES ASSUME NEW t \in TicketId, NEW s \in DOMAIN ReservedFor, tickets[t] # NULL,
                      tickets[t].status # s, tickets'[t].status = s
               PROVE  \E r \in Request : /\ pc[r] = "commit" /\ pc'[r] = "notify"
                                         /\ call[r].tid = t /\ call[r].op = ReservedFor[s]
    OBVIOUS
  <2>1. PICK r \in Request : UpdateWrite(r) \/ (Commit(r) /\ call[r].tid = t)
    BY <1>3, ReservedStep
  <2>2. ~UpdateWrite(r)
    BY <1>3, Busy, RequestAssumption DEF UpdateWrite, Statement, NoUpdate
  <2> QED
    BY <1>3, <2>1, <2>2, CommitEnters
<1>4. IInv /\ NoUpdate /\ [Next]_vars => [Entered]_vars
  BY <1>3
<1> QED
  BY <1>1, <1>2, <1>4, Invariance, PTL DEF Spec, StatusEnteredByItsOperation

-----------------------------------------------------------------------------
(***************************************************************************)
(* One request at a time.                                                  *)
(***************************************************************************)

\* The copy a request is about to write back, or to delete by, is the row.
CopyIsRow(r) ==
  /\ pc[r] = "write" /\ call[r].op \in {"update", "delete"} =>
       row[r] = tickets[call[r].tid]
  /\ pc[r] = "write" /\ call[r].op = "delete" =>
       CanSoftDeleteTicket(call[r].actor, tickets[call[r].tid])

\* While a request is the only one, nothing comes between its read and its write.
LEMMA CopyIsRowStep ==
  ASSUME IInv, [Next]_vars, NEW r \in Request, \A s \in Request : s = r, CopyIsRow(r)
  PROVE  CopyIsRow(r)'
<1>1. CASE UNCHANGED vars \/ ChangeRoles
  BY <1>1 DEF vars, ChangeRoles, CopyIsRow
<1>2. ASSUME NEW in \in Input, Arrive(r, in) PROVE CopyIsRow(r)'
  <2>1. pc'[r] = FirstStep(in.op) /\ call'[r].op = in.op
    BY <1>2 DEF Arrive, IInv, TypeOK
  <2> QED
    BY <2>1 DEF CopyIsRow, FirstStep, ReadOp
<1>3. CASE UpdateRead(r) \/ DeleteRead(r) \/ CommentRead(r)
  <2>1. CASE Answer(r)
    BY <2>1 DEF Answer, CopyIsRow, IInv, TypeOK
  <2>2. CASE ~Answer(r)
    <3>1. /\ row' = [row EXCEPT ![r] = tickets[call[r].tid]] /\ UNCHANGED <<call, tickets>>
          /\ call[r].op = "delete" =>
               CanSoftDeleteTicket(call[r].actor, tickets[call[r].tid])
      BY <1>3, <2>2 DEF UpdateRead, DeleteRead, CommentRead, Read
    <3>2. row'[r] = tickets[call[r].tid]
      BY <3>1 DEF IInv, TypeOK
    <3> QED
      BY <3>1, <3>2 DEF CopyIsRow
  <2> QED
    BY <2>1, <2>2
<1>4. CASE Locking(r) \/ Abort(r) \/ Crash
  BY <1>4 DEF Locking, AssignLock, TransitionLock, CompleteLock, RefuseLock, ReopenLock,
     LockRow, UpdateWrite, DeleteWrite, CommentWrite, Statement, Abort, Crash, Answer,
     CopyIsRow, IInv, TypeOK
<1>5. CASE Working(r) /\ ~(UpdateRead(r) \/ DeleteRead(r) \/ CommentRead(r))
  BY <1>5 DEF Working, Insert, CancelRead, AssignWrite, AssignReject, TransitionWrite,
     CompleteWrite, RefuseWrite, ReopenWrite, Save, AddCommentInTx, Commit, Notify, Answer,
     CopyIsRow, IInv, TypeOK
<1> QED
  BY <1>1, <1>2, <1>3, <1>4, <1>5 DEF Next

\* An author's Delete removes a ticket that has moved on, and a PATCH brings an
\* old status back, only by a race: whoever makes the requests and whatever they
\* are, if one is served at a time then a ticket is deleted only by who may
\* delete it as it is, and a reserved status is entered by its operation.
THEOREM OneAtATimeIsRight ==
  ASSUME \A r, s \in Request : r = s
  PROVE  Spec => DeletesAreEntitled /\ StatusEnteredByItsOperation
<1> DEFINE Solo == \A r \in Request : CopyIsRow(r)
           Deletes == \A t \in TicketId :
             Live(t) /\ tickets'[t].deleted =>
               \E r \in Request :
                 /\ pc[r] = "write" /\ call[r].op = "delete" /\ call[r].tid = t
                 /\ CanSoftDeleteTicket(call[r].actor, tickets[t])
           Entered == \A t \in TicketId, s \in DOMAIN ReservedFor :
             /\ tickets[t] # NULL
             /\ tickets[t].status # s /\ tickets'[t].status = s
             => \E r \in Request :
                  /\ pc[r] = "commit" /\ pc'[r] = "notify"
                  /\ call[r].tid = t /\ call[r].op = ReservedFor[s]
<1>1. Init => Solo
  BY DEF Init, CopyIsRow
<1>2. IInv /\ Solo /\ [Next]_vars => Solo'
  BY CopyIsRowStep
<1>3. ASSUME IInv, Solo, NEW r \in Request, UpdateWrite(r), NEW t \in TicketId,
             call[r].tid = t, Live(t),
             tickets'[t] = [row[r] EXCEPT !.content = Patched(@, call[r].arg)]
      PROVE  tickets'[t].status = tickets[t].status /\ ~tickets'[t].deleted
  <2>1. row[r] = tickets[t] /\ tickets[t] \in Ticket
    BY <1>3, LiveRow DEF UpdateWrite, Statement, CopyIsRow, IInv
  <2> QED
    BY <1>3, <2>1 DEF Ticket, Live
<1>4. ASSUME IInv, Solo, Next PROVE Deletes
  <2> SUFFICES ASSUME NEW t \in TicketId, Live(t), tickets'[t].deleted
               PROVE  \E r \in Request :
                        /\ pc[r] = "write" /\ call[r].op = "delete" /\ call[r].tid = t
                        /\ CanSoftDeleteTicket(call[r].actor, tickets[t])
    OBVIOUS
  <2>1. PICK r \in Request :
          \/ UpdateWrite(r) /\ call[r].tid = t
             /\ tickets'[t] = [row[r] EXCEPT !.content = Patched(@, call[r].arg)]
          \/ DeleteWrite(r) /\ call[r].tid = t
          \/ Commit(r) /\ call[r].tid = t
    BY <1>4, Writers, WritersStep DEF Live
  <2>2. ASSUME Commit(r), call[r].tid = t PROVE FALSE
    <3>1. tickets'[t] = row[r]
      BY <1>4, <2>2, CommitRow
    <3>2. ~row[r].deleted
      BY <1>4, <2>2 DEF Commit, IInv, RequestInv, Saved, Publishable
    <3> QED
      BY <3>1, <3>2
  <2>3. DeleteWrite(r) /\ call[r].tid = t
    BY <1>3, <1>4, <2>1, <2>2
  <2> QED
    BY <1>4, <2>3 DEF DeleteWrite, Statement, CopyIsRow
<1>5. ASSUME IInv, Solo, Next PROVE Entered
  <2> SUFFICES ASSUME NEW t \in TicketId, NEW s \in DOMAIN ReservedFor, tickets[t] # NULL,
                      tickets[t].status # s, tickets'[t].status = s
               PROVE  \E r \in Request : /\ pc[r] = "commit" /\ pc'[r] = "notify"
                                         /\ call[r].tid = t /\ call[r].op = ReservedFor[s]
    OBVIOUS
  <2>1. PICK r \in Request :
          \/ UpdateWrite(r) /\ call[r].tid = t /\ Live(t)
             /\ tickets'[t] = [row[r] EXCEPT !.content = Patched(@, call[r].arg)]
          \/ Commit(r) /\ call[r].tid = t
    BY <1>5, ReservedStep
  <2>2. Commit(r) /\ call[r].tid = t
    BY <1>3, <1>5, <2>1
  <2> QED
    BY <1>5, <2>2, CommitEnters
<1>6. IInv /\ Solo /\ [Next]_vars => [Deletes]_vars /\ [Entered]_vars
  BY <1>4, <1>5
<1> QED
  BY <1>1, <1>2, <1>6, Invariance, PTL
  DEF Spec, DeletesAreEntitled, StatusEnteredByItsOperation

\* The same holds of everything else: served one at a time, any calls of any
\* clients, PATCHes among them, live the serial life of TicketLifecycle, aborts
\* and crashes in the middle of them notwithstanding.
THEOREM OneAtATimeIsSerial ==
  ASSUME \A r, s \in Request : r = s
  PROVE  Spec => ServesSerially
<1> DEFINE Solo == \A r \in Request : CopyIsRow(r)
<1>1. Init => Solo /\ Lifecycle!Init
  BY DEF Init, CopyIsRow, Lifecycle!Init
<1>2. IInv /\ Solo /\ [Next]_vars => Solo'
  BY CopyIsRowStep
<1>3. ASSUME IInv, Solo, [Next]_vars PROVE Lifecycle!Next \/ UNCHANGED Lifecycle!vars
  <2>1. CASE UNCHANGED <<tickets, comments>>
    BY <2>1 DEF Lifecycle!vars
  <2>2. \A r \in Request : UpdateWrite(r) => row[r] = tickets[call[r].tid]
    BY <1>3 DEF UpdateWrite, Statement, CopyIsRow
  <2> QED
    BY <1>3, <2>1, <2>2, Writers, InsertRefines, UpdateRefines, DeleteRefines, CommentRefines,
       CommitRefines DEF vars
<1>4. IInv /\ Solo /\ [Next]_vars => [Lifecycle!Next]_(Lifecycle!vars)
  BY <1>3
<1> QED
  BY <1>1, <1>2, <1>4, Invariance, PTL DEF Spec, ServesSerially, Lifecycle!Spec

-----------------------------------------------------------------------------
(***************************************************************************)
(* What the commits can make of a ticket.                                  *)
(***************************************************************************)

\* What a commit was entitled to, and where that leads in the graph of statuses.
LEMMA CommitEdge ==
  ASSUME IInv, NEW r \in Request, Commit(r), NEW t, t = tickets[call[r].tid]
  PROVE  \/ CanTransition(t.status, Target(call[r]))
         \/ t.status = "assigned" /\ Target(call[r]) = "assigned"
<1>1. t.status \in TicketStatus
  BY CommitRow DEF Ticket
<1>2. Entitled(call[r].actor, t, Target(call[r]))
  BY DEF Commit, IInv, RequestInv, Saved
<1> QED
  BY <1>1, <1>2, EntitledEdges DEF CanTransition

\* If no Update has an outdated copy, a step changes a status along the graph.
LEMMA GraphStep ==
  ASSUME IInv, Next, \A r \in Request : UpdateWrite(r) => row[r] = tickets[call[r].tid],
         NEW t \in TicketId, tickets[t] # NULL, tickets'[t].status # tickets[t].status
  PROVE  CanTransition(tickets[t].status, tickets'[t].status)
<1>1. PICK r \in Request :
        \/ UpdateWrite(r) /\ call[r].tid = t /\ Live(t)
           /\ tickets'[t] = [row[r] EXCEPT !.content = Patched(@, call[r].arg)]
        \/ Commit(r) /\ call[r].tid = t
  BY ReservedStep
<1>2. ASSUME UpdateWrite(r), call[r].tid = t, Live(t),
             tickets'[t] = [row[r] EXCEPT !.content = Patched(@, call[r].arg)]
      PROVE  FALSE
  <2>1. row[r] = tickets[t] /\ tickets[t] \in Ticket
    BY <1>2, LiveRow DEF IInv
  <2> QED
    BY <1>2, <2>1 DEF Ticket
<1>3. CASE Commit(r) /\ call[r].tid = t
  <2>1. tickets'[t].status = Target(call[r])
    BY <1>3, CommitRow, AfterFields
  <2> QED
    BY <1>3, <2>1, CommitEdge
<1> QED
  BY <1>1, <1>2, <1>3

\* A ticket's status changes only along the graph of allowed transitions, from
\* one committed row to the next, if PATCHes do not race: none is sent, or
\* requests are served one at a time.  (A racing PATCH can bring an old status
\* back, which is one of the findings.)
THEOREM MovesByTheGraph ==
  ASSUME (\A in \in Input : in.op # "update") \/ (\A r, s \in Request : r = s)
  PROVE  Spec => [][\A t \in TicketId :
                      tickets[t] # NULL /\ tickets'[t].status # tickets[t].status
                        => CanTransition(tickets[t].status, tickets'[t].status)]_vars
<1> DEFINE Solo == \A r \in Request : CopyIsRow(r)
           Graph == \A t \in TicketId :
                      tickets[t] # NULL /\ tickets'[t].status # tickets[t].status
                        => CanTransition(tickets[t].status, tickets'[t].status)
<1>1. Init => Solo /\ NoUpdate
  BY NoUpdateInit DEF Init, CopyIsRow
<1>2. ASSUME IInv, Solo \/ NoUpdate, Next PROVE Graph
  <2>1. \A r \in Request : UpdateWrite(r) => row[r] = tickets[call[r].tid]
    BY <1>2, Busy, RequestAssumption DEF UpdateWrite, Statement, CopyIsRow, NoUpdate
  <2> QED
    BY <1>2, <2>1, GraphStep
<1>3. IInv /\ (Solo \/ NoUpdate) /\ [Next]_vars => [Graph]_vars
  BY <1>2
<1>4. CASE \A in \in Input : in.op # "update"
  <2>1. IInv /\ NoUpdate /\ [Next]_vars => NoUpdate'
    BY <1>4, NoUpdateStep
  <2> QED
    BY <1>1, <1>3, <2>1, Invariance, PTL DEF Spec
<1>5. CASE \A r, s \in Request : r = s
  <2>1. IInv /\ Solo /\ [Next]_vars => Solo'
    BY <1>5, CopyIsRowStep
  <2> QED
    BY <1>1, <1>3, <2>1, Invariance, PTL DEF Spec
<1> QED
  BY <1>4, <1>5

\* A workflow call that is repeated, because its answer was lost, while the ticket
\* still is what the first one made of it, is refused; only an Assign may go
\* through again, and changes nothing.  For all clients and any interleaving.
\* (Create and AddComment are not of this kind: their repetition adds a row.)
THEOREM RepeatsAreHarmless ==
  Spec => [][\A r \in Request, x \in Ticket :
               /\ pc[r] = "commit" /\ pc'[r] = "notify"
               /\ tickets[call[r].tid] = After(call[r], x)
               => call[r].op = "assign" /\ UNCHANGED <<tickets, comments>>]_vars
<1> DEFINE Harmless == \A r \in Request, x \in Ticket :
               /\ pc[r] = "commit" /\ pc'[r] = "notify"
               /\ tickets[call[r].tid] = After(call[r], x)
               => call[r].op = "assign" /\ UNCHANGED <<tickets, comments>>
<1>1. ASSUME IInv, Next, NEW r \in Request, NEW x \in Ticket,
             pc[r] = "commit", pc'[r] = "notify",
             tickets[call[r].tid] = After(call[r], x)
      PROVE  call[r].op = "assign" /\ UNCHANGED <<tickets, comments>>
  <2> DEFINE c == call[r]
  <2>1. Commit(r)
    BY <1>1, CommitOnly
  <2>2. c \in Call /\ c.tid \in TicketId /\ c.op \in TxOp /\ Valid(c)
        /\ tickets[c.tid] \in Ticket /\ row[r] = After(c, tickets[c.tid])
    BY <1>1, <2>1, CommitRow
  <2>3. tickets[c.tid].status = Target(c)
    BY <1>1, <2>2, AfterFields
  <2>4. Target(c) = "assigned"
    <3>1. Target(c) \in TicketStatus
      BY <2>2, <2>3 DEF Ticket
    <3>2. ~CanTransition(Target(c), Target(c))
      BY <3>1 DEF CanTransition, allowedTransitions, TicketStatus
    <3> QED
      BY <1>1, <2>1, <2>3, <3>2, CommitEdge
  <2>5. c.op = "assign"
    BY <2>2, <2>4 DEF Target, Valid, OpenToTransition, TxOp
  <2>6. After(c, After(c, x)) = After(c, x)
    BY <2>5 DEF After, Ticket
  <2>7. row[r] = tickets[c.tid] /\ note[r] = {}
    BY <1>1, <2>2, <2>5, <2>6 DEF IInv, RequestInv, Saved, OwnComments
  <2> QED
    BY <1>1, <2>1, <2>2, <2>5, <2>7 DEF Commit, IInv, TypeOK
<1>2. IInv /\ [Next]_vars => [Harmless]_vars
  BY <1>1
<1> QED
  BY <1>2, Invariance, PTL DEF Spec

-----------------------------------------------------------------------------
(***************************************************************************)
(* Notices and answers.                                                    *)
(***************************************************************************)

\* More comments do not make a notice less true.
LEMMA TrueMono ==
  ASSUME comments \subseteq comments', NEW n, NEW id, NEW t, TrueOf(n, id, t)
  PROVE  TrueOf(n, id, t)'
<1>1. ExplainedBy(comments, id, t) => ExplainedBy(comments', id, t)
  BY ExplainedMono
<1> QED
  BY <1>1 DEF TrueOf

\* Comments are only added.
LEMMA CommentsGrow ==
  ASSUME [Next]_vars
  PROVE  comments \subseteq comments'
BY Writers DEF vars, Insert, UpdateWrite, DeleteWrite, CommentWrite, Commit

\* Only a commit, or a request that is there already, reaches "notify".
LEMMA ToNotify ==
  ASSUME IInv, Next, NEW r \in Request, pc'[r] = "notify"
  PROVE  Commit(r) \/ (pc[r] = "notify" /\ call'[r] = call[r])
<1>1. ASSUME NEW s \in Request, NEW in \in Input, Arrive(s, in)
      PROVE  pc[r] = "notify" /\ call'[r] = call[r]
  BY <1>1 DEF Arrive, FirstStep, IInv, TypeOK
<1>2. ASSUME NEW s \in Request, Locking(s)
      PROVE  pc[r] = "notify" /\ call'[r] = call[r]
  BY <1>2 DEF Locking, AssignLock, TransitionLock, CompleteLock, RefuseLock,
     ReopenLock, LockRow, UpdateWrite, DeleteWrite, CommentWrite, Statement,
     Answer, IInv, TypeOK
<1>3. ASSUME NEW s \in Request, Working(s), ~Commit(s)
      PROVE  pc[r] = "notify" /\ call'[r] = call[r]
  BY <1>3 DEF Working, Insert, UpdateRead, DeleteRead, CommentRead, CancelRead, Read,
     AssignWrite, AssignReject, TransitionWrite, CompleteWrite, RefuseWrite,
     ReopenWrite, Save, AddCommentInTx, Notify, Answer, IInv, TypeOK
<1>4. ASSUME NEW s \in Request, Commit(s), s # r
      PROVE  pc[r] = "notify" /\ call'[r] = call[r]
  BY <1>4 DEF Commit, IInv, TypeOK
<1>5. ASSUME NEW s \in Request, Abort(s)
      PROVE  pc[r] = "notify" /\ call'[r] = call[r]
  BY <1>5 DEF Abort, Answer, IInv, TypeOK
<1>6. CASE Crash \/ ChangeRoles
  BY <1>6 DEF Crash, ChangeRoles
<1> QED
  BY <1>1, <1>2, <1>3, <1>4, <1>5, <1>6 DEF Next

\* At its commit, what the notice of an operation will say has become true.
LEMMA TrueAtCommit ==
  ASSUME IInv, NEW r \in Request, Commit(r),
         NEW c, NEW t, c = call[r], t = row[r]
  PROVE  TrueOf(NoticeOf(c, t), c.tid, t)'
<1>1. /\ c.op \in TxOp /\ t \in Ticket /\ t.status = Target(c)
      /\ c.op = "complete" => t.rating = c.arg
      /\ c.op = "refuse" => t.reason = c.arg
      /\ ExplainedBy(comments', c.tid, t)
  BY CommitRow, AfterFields
<1> QED
  BY <1>1 DEF TrueOf, NoticeOf, AssignNotice, CompleteNotice, RefuseNotice, notifyStatus,
     Target, TxOp

\* What a request is about to say stays true of a row its ticket has had.
LEMMA ToldStep ==
  ASSUME IInv, AInv, HNext, Keep, NEW r \in Request
  PROVE  Told(r)'
<1> SUFFICES ASSUME pc'[r] = "notify",
                    NEW c, NEW t, c = call'[r], t = updated'[r]
             PROVE  <<c.tid, t>> \in past' /\ TrueOf(NoticeOf(c, t), c.tid, t)'
  BY DEF Told
<1>1. CASE Commit(r)
  <2>1. pc[r] = "commit" /\ call' = call
    BY <1>1 DEF Commit
  <2>2. c = call[r] /\ t = row[r]
    BY <2>1 DEF Keep
  <2>3. <<c.tid, t>> \in past'
    BY <1>1, <2>2, CommitRow, NullAssumption DEF Keep
  <2> QED
    BY <1>1, <2>2, <2>3, TrueAtCommit
<1>2. CASE pc[r] = "notify" /\ call'[r] = call[r]
  <2>1. updated'[r] = updated[r] /\ past \subseteq past'
    BY <1>2 DEF Keep
  <2>2. <<c.tid, t>> \in past /\ TrueOf(NoticeOf(c, t), c.tid, t)
    BY <1>2, <2>1 DEF AInv, Told
  <2>3. comments \subseteq comments'
    BY CommentsGrow DEF HNext
  <2> QED
    BY <1>2, <2>1, <2>2, <2>3, TrueMono
<1> QED
  BY <1>1, <1>2, ToNotify DEF HNext

\* A GET reads a row that the comments explain, and later all the comments of
\* the ticket.
LEMMA GetStep ==
  ASSUME IInv, AInv, Get
  PROVE  AInv'
<1> DEFINE V == [at : {"idle", "read", "answer"}, tid : TicketId \cup {NULL},
                 row : Ticket \cup {NULL}, comments : SUBSET Comment]
<1>1. view \in [Reader -> V] /\ UNCHANGED <<tickets, comments, pc, call, updated, past>>
  BY DEF AInv, Get, hvars, vars
<1>2. \A r \in Request : Told(r)'
  BY <1>1 DEF AInv, Told, TrueOf
<1>3. PICK g \in Reader :
        \/ \E actor \in Viewer, t \in TicketId : GetTicket(g, actor, t)
        \/ GetComments(g)
        \/ GetAnswer(g)
  BY DEF Get
<1> HIDE DEF V
<1>4. ASSUME NEW x \in V, view' = [view EXCEPT ![g] = x],
             x.at = "read" => ExplainedBy(comments, x.tid, x.row),
             x.at = "answer" => ExplainedBy(x.comments, x.tid, x.row)
      PROVE  AInv'
  <2>1. view' \in [Reader -> V] /\ view'[g] = x /\ \A h \in Reader \ {g} : view'[h] = view[h]
    BY <1>1, <1>4
  <2>2. (\A h \in Reader : Readable(h)') /\ SeenExplained'
    BY <1>1, <1>4, <2>1 DEF AInv, Readable, SeenExplained
  <2> QED
    BY <1>2, <2>1, <2>2 DEF AInv, V
<1>5. CASE \E actor \in Viewer, t \in TicketId : GetTicket(g, actor, t)
  <2>1. PICK actor \in Viewer, t \in TicketId : GetTicket(g, actor, t)
    BY <1>5
  <2> DEFINE x == [at |-> "read", tid |-> t, row |-> tickets[t], comments |-> {}]
  <2>2. x \in V /\ view' = [view EXCEPT ![g] = x]
    BY <2>1, LiveRow DEF GetTicket, V, IInv
  <2>3. ExplainedBy(comments, x.tid, x.row)
    BY <2>1 DEF GetTicket, Live, IInv, RowExplained
  <2>4. x.at = "read"
    OBVIOUS
  <2> HIDE DEF x
  <2> QED
    BY <1>4, <2>2, <2>3, <2>4
<1>6. CASE GetComments(g)
  <2> DEFINE w == view[g]
             cs == {c \in comments : c.ticket = w.tid}
             x == [w EXCEPT !.at = "answer", !.comments = cs]
  <2>1. w \in V /\ w.at = "read" /\ cs \in SUBSET Comment
    BY <1>1, <1>6 DEF GetComments, IInv, TypeOK
  <2>2. view' = [view EXCEPT ![g] = x]
    BY <1>1, <1>6 DEF GetComments
  <2>3. ExplainedBy(comments, w.tid, w.row)
    BY <2>1 DEF AInv, Readable
  <2>4. ExplainedBy(cs, w.tid, w.row)
    BY <2>3 DEF ExplainedBy
  <2> HIDE DEF cs, w
  <2>5. /\ x \in V /\ x.at = "answer" /\ x.tid = w.tid /\ x.row = w.row
        /\ x.comments = cs
    BY <2>1 DEF V
  <2> HIDE DEF x
  <2> QED
    BY <1>4, <2>2, <2>4, <2>5
<1>7. CASE GetAnswer(g)
  <2>1. NoView \in V /\ NoView.at = "idle"
    BY DEF NoView, V
  <2> QED
    BY <1>4, <1>7, <2>1 DEF GetAnswer
<1> QED
  BY <1>3, <1>5, <1>6, <1>7

\* Every step keeps what is said and shown true.
LEMMA AStep ==
  ASSUME IInv, AInv, [ANext]_avars
  PROVE  AInv'
<1>1. CASE UNCHANGED avars
  BY <1>1 DEF avars, hvars, vars, AInv, Told, TrueOf, Readable, SeenExplained
<1>2. CASE HNext /\ Keep /\ UNCHANGED view
  <2>1. \A r \in Request : Told(r)'
    BY <1>2, ToldStep
  <2>2. comments \subseteq comments'
    BY <1>2, CommentsGrow DEF HNext
  <2>3. \A g \in Reader : Readable(g)'
    BY <1>2, <2>2, ExplainedMono DEF AInv, Readable
  <2>4. SeenExplained'
    BY <1>2 DEF AInv, SeenExplained
  <2> QED
    BY <1>2, <2>1, <2>3, <2>4 DEF AInv
<1>3. CASE Get
  BY <1>3, GetStep
<1> QED
  BY <1>1, <1>2, <1>3 DEF ANext

\* Nothing is said or shown at first.
LEMMA InitAInv == AInit => AInv
BY DEF AInit, HInit, Init, NoView, AInv, Told, Readable, SeenExplained

\* Neither the records of what happened nor the GETs add to what the service
\* does: all that is proved about TicketService and ReopenHistory holds here too.
THEOREM WatchingChangesNothing == ASpec => HSpec /\ Spec
<1>1. AInit => HInit /\ Init
  BY DEF AInit, HInit
<1>2. [ANext]_avars => [HNext]_hvars /\ [Next]_vars
  BY DEF ANext, HNext, Get, avars, hvars
<1> QED
  BY <1>1, <1>2, PTL DEF ASpec, HSpec, Spec

\* The two invariants hold in every state, with notices and GETs.
THEOREM AudienceInvariance == ASpec => [](IInv /\ AInv)
<1>1. AInit => IInv /\ AInv
  BY InitInv, InitAInv DEF AInit, HInit
<1>2. [ANext]_avars => [Next]_vars
  BY DEF ANext, HNext, Get, avars, hvars
<1>3. IInv /\ AInv /\ [ANext]_avars => IInv' /\ AInv'
  BY <1>2, NextInv, AStep
<1> QED
  BY <1>1, <1>3, PTL DEF ASpec

\* The comments in the answer of a GET explain the row in it.
THEOREM AnswersAreExplained == ASpec => []SeenExplained
<1>1. AInv => SeenExplained
  BY DEF AInv
<1> QED
  BY <1>1, AudienceInvariance, PTL

\* A notice tells what was true of a committed row of the ticket.
THEOREM NoticesTellTheTruth == ASpec => NoticesAreTrue
<1> DEFINE Truth ==
             \A r \in Request : Notifies(r) =>
               \E p \in past :
                 p[1] = call[r].tid /\ TrueOf(NoticeOf(call[r], updated[r]), p[1], p[2])
<1>1. AInv => Truth
  BY DEF AInv, Told, Notifies
<1>2. AInv /\ [ANext]_avars => [Truth]_avars
  BY <1>1
<1> QED
  BY <1>2, AudienceInvariance, PTL DEF ASpec, NoticesAreTrue

-----------------------------------------------------------------------------
(***************************************************************************)
(* What a PATCH can do to the life of a ticket.                            *)
(***************************************************************************)

\* The step puts an older row of a live ticket back, with some of its columns
\* rewritten.
Restores(t) ==
  /\ Live(t) /\ UNCHANGED comments
  /\ \E p \in past, patch \in Patch :
       /\ p[1] = t /\ ~p[2].deleted
       /\ tickets' = [tickets EXCEPT ![t] =
                        [p[2] EXCEPT !.content = Patched(@, patch)]]

\* The check each operation makes of the row it reads without a lock.
Permitted(c, t) ==
  CASE c.op = "update"  -> CanEditTicket(c.actor, t)
    [] c.op = "delete"  -> CanSoftDeleteTicket(c.actor, t)
    [] c.op = "comment" -> CanCommentOnTicket(c.actor, t)

\* The rows of the table, and the copies that requests were checked against and
\* that Updates are about to write back, are on record.
Recorded ==
  /\ \A t \in TicketId : tickets[t] # NULL => <<t, tickets[t]>> \in past
  /\ \A r \in Request :
       pc[r] = "write" /\ call[r].op # "create" =>
         <<call[r].tid, row[r]>> \in past /\ ~row[r].deleted /\ Permitted(call[r], row[r])

\* The copy of an Update, a Delete or a comment is the one it had, or a row that
\* was just read and checked.
LEMMA CopyTaken ==
  ASSUME IInv, [Next]_vars, NEW r \in Request, pc'[r] = "write",
         call'[r].op # "create"
  PROVE  /\ call'[r] = call[r]
         /\ \/ pc[r] = "write" /\ row'[r] = row[r]
            \/ /\ pc[r] = "read" /\ Live(call[r].tid)
               /\ row'[r] = tickets[call[r].tid]
               /\ Permitted(call[r], tickets[call[r].tid])
<1> DEFINE Same == pc[r] = "write" /\ call'[r] = call[r] /\ row'[r] = row[r]
<1>1. CASE UNCHANGED vars \/ ChangeRoles
  BY <1>1 DEF vars, ChangeRoles
<1>2. ASSUME NEW s \in Request, NEW in \in Input, Arrive(s, in) PROVE Same
  <2>1. CASE s = r
    <3>1. pc'[r] = FirstStep(in.op) /\ call'[r].op = in.op
      BY <1>2, <2>1 DEF Arrive, IInv, TypeOK
    <3>2. in.op \in TxOp \cup ReadOp \cup {"create"}
      BY InputAssumption DEF Op
    <3> QED
      BY <3>1, <3>2 DEF FirstStep
  <2>2. CASE s # r
    BY <1>2, <2>2 DEF Arrive, IInv, TypeOK
  <2> QED
    BY <2>1, <2>2
<1>3. ASSUME NEW s \in Request, Locking(s) PROVE Same
  BY <1>3 DEF Locking, AssignLock, TransitionLock, CompleteLock, RefuseLock,
     ReopenLock, LockRow, UpdateWrite, DeleteWrite, CommentWrite, Statement,
     Answer, IInv, TypeOK
<1>4. ASSUME NEW s \in Request, UpdateRead(s) \/ DeleteRead(s) \/ CommentRead(s)
      PROVE  Same \/ (/\ pc[r] = "read" /\ call'[r] = call[r] /\ Live(call[r].tid)
                      /\ row'[r] = tickets[call[r].tid]
                      /\ Permitted(call[r], tickets[call[r].tid]))
  BY <1>4 DEF UpdateRead, DeleteRead, CommentRead, Read, Permitted, Answer, IInv, TypeOK
<1>5. ASSUME NEW s \in Request, Working(s) \/ Abort(s),
             ~(UpdateRead(s) \/ DeleteRead(s) \/ CommentRead(s))
      PROVE  Same
  BY <1>5 DEF Working, Insert, CancelRead, AssignWrite, AssignReject, TransitionWrite,
     CompleteWrite, RefuseWrite, ReopenWrite, Save, AddCommentInTx, Commit, Notify,
     Abort, Answer, IInv, TypeOK
<1>6. CASE Crash
  BY <1>6 DEF Crash
<1> QED
  BY <1>1, <1>2, <1>3, <1>4, <1>5, <1>6 DEF Next

\* Every step keeps the record.
LEMMA RecordedStep ==
  ASSUME IInv, Recorded, [ANext]_avars
  PROVE  Recorded'
<1>1. CASE Get \/ UNCHANGED avars
  BY <1>1 DEF Get, avars, hvars, vars, Recorded
<1>2. CASE HNext /\ Keep
  <2>1. \A t \in TicketId : tickets'[t] # NULL => <<t, tickets'[t]>> \in past'
    BY <1>2 DEF Keep
  <2>2. past \subseteq past'
    BY <1>2 DEF Keep
  <2>3. ASSUME NEW r \in Request, pc'[r] = "write", call'[r].op # "create"
        PROVE  /\ <<call'[r].tid, row'[r]>> \in past' /\ ~row'[r].deleted
               /\ Permitted(call'[r], row'[r])
    <3>1. pc[r] # "idle"
      BY <1>2, <2>3, CopyTaken DEF HNext
    <3> QED
      BY <1>2, <2>2, <2>3, <3>1, CopyTaken, Busy DEF HNext, Recorded, Live
  <2> QED
    BY <2>1, <2>3 DEF Recorded
<1> QED
  BY <1>1, <1>2 DEF ANext

\* The write of an Update restores the row it has read, or does nothing.
LEMMA UpdateRestores ==
  ASSUME IInv, Recorded, NEW r \in Request, UpdateWrite(r)
  PROVE  (\E t \in TicketId : Restores(t)) \/ UNCHANGED <<tickets, comments>>
<1>1. /\ call[r].tid \in TicketId /\ call[r].arg \in Patch
      /\ pc[r] = "write" /\ call[r].op = "update"
  BY Busy DEF UpdateWrite, Statement, ArgOf
<1>2. <<call[r].tid, row[r]>> \in past /\ ~row[r].deleted
  BY <1>1 DEF Recorded
<1>3. CASE Live(call[r].tid)
  <2> DEFINE p == <<call[r].tid, row[r]>>
  <2>1. tickets' = [tickets EXCEPT ![p[1]] = [p[2] EXCEPT !.content = Patched(@, call[r].arg)]]
        /\ UNCHANGED comments
    BY <1>3 DEF UpdateWrite
  <2>2. p \in past /\ p[1] = call[r].tid /\ ~p[2].deleted
    BY <1>2
  <2>3. Restores(call[r].tid)
    BY <1>1, <1>3, <2>1, <2>2 DEF Restores
  <2> QED
    BY <1>1, <2>3
<1>4. CASE ~Live(call[r].tid)
  BY <1>4 DEF UpdateWrite
<1> QED
  BY <1>3, <1>4

\* Whatever the clients send, the committed tickets and comments live the serial
\* life of TicketLifecycle but for the writes of PATCHes, and the worst that one
\* of those does is to put a whole row the ticket once had back, with the columns
\* it names rewritten: never a mixture of two rows, never a deleted ticket.
THEOREM PatchAtWorstRestores ==
  ASpec => [][Lifecycle!Next \/ \E t \in TicketId : Restores(t)]_<<tickets, comments>>
<1>1. AInit => Recorded
  BY DEF AInit, HInit, Init, Recorded
<1>2. IInv /\ Recorded /\ [ANext]_avars => Recorded'
  BY RecordedStep
<1>3. ASSUME IInv, Recorded, [ANext]_avars
      PROVE  [Lifecycle!Next \/ \E t \in TicketId : Restores(t)]_<<tickets, comments>>
  <2>1. [Next]_vars
    BY <1>3 DEF ANext, HNext, Get, avars, hvars
  <2>2. CASE UNCHANGED vars
    BY <2>2 DEF vars
  <2>3. CASE Next
    BY <1>3, <2>3, Writers, InsertRefines, DeleteRefines, CommentRefines, CommitRefines,
       UpdateRestores DEF Lifecycle!vars
  <2> QED
    BY <2>1, <2>2, <2>3
<1>4. IInv /\ Recorded /\ [ANext]_avars
        => [Lifecycle!Next \/ \E t \in TicketId : Restores(t)]_<<tickets, comments>>
  BY <1>3
<1> QED
  BY <1>1, <1>2, <1>4, AudienceInvariance, PTL DEF ASpec

\* Whoever PATCHes, deletes or comments on a ticket was entitled to by the row
\* the request has read, which the ticket had at some time and undeleted: the
\* check may be out of date when the write comes, but it was made, on a row of
\* that ticket.  (The finding about Delete says how it is out of date.)
THEOREM WritesWereEntitled ==
  ASpec => [][\A r \in Request :
                pc[r] = "write" /\ call[r].op # "create" =>
                  /\ <<call[r].tid, row[r]>> \in past /\ ~row[r].deleted
                  /\ Permitted(call[r], row[r])]_avars
<1> DEFINE Was == \A r \in Request :
                pc[r] = "write" /\ call[r].op # "create" =>
                  /\ <<call[r].tid, row[r]>> \in past /\ ~row[r].deleted
                  /\ Permitted(call[r], row[r])
<1>1. AInit => Recorded
  BY DEF AInit, HInit, Init, Recorded
<1>2. IInv /\ Recorded /\ [ANext]_avars => Recorded'
  BY RecordedStep
<1>3. IInv /\ Recorded /\ [ANext]_avars => [Was]_avars
  BY DEF Recorded
<1> QED
  BY <1>1, <1>2, <1>3, AudienceInvariance, PTL DEF ASpec
-----------------------------------------------------------------------------
(***************************************************************************)
(* What nobody can change.                                                 *)
(***************************************************************************)

\* The copy an Update is about to write back has the author of the ticket.
AuthorCopied(r) ==
  pc[r] = "write" /\ call[r].op = "update" => row[r].author = tickets[call[r].tid].author

\* A step leaves a ticket in the table, with the author it has.
LEMMA AuthorStep ==
  ASSUME IInv, \A r \in Request : AuthorCopied(r), [Next]_vars,
         NEW t \in TicketId, tickets[t] # NULL
  PROVE  tickets'[t] # NULL /\ tickets'[t].author = tickets[t].author
<1>1. tickets[t] \in Ticket
  BY DEF IInv, TypeOK
<1>2. CASE tickets'[t] = tickets[t]
  BY <1>2
<1>3. ASSUME NEW r \in Request, UpdateWrite(r), call[r].tid = t,
             tickets'[t] = [row[r] EXCEPT !.content = Patched(@, call[r].arg)]
      PROVE  tickets'[t] # NULL /\ tickets'[t].author = tickets[t].author
  <2>1. row[r] \in Ticket /\ row[r].author = tickets[t].author
        /\ Patched(row[r].content, call[r].arg) \in [Column -> Text]
    <3>1. call[r].arg \in Patch /\ pc[r] = "write" /\ call[r].op = "update"
      BY <1>3, Busy DEF UpdateWrite, Statement, ArgOf
    <3>2. row[r] \in Ticket /\ row[r].author = tickets[t].author
      BY <1>3, <3>1 DEF AuthorCopied, IInv, RequestInv, Copied, Publishable
    <3>3. row[r].content \in [Column -> Text]
      BY <3>2 DEF Ticket
    <3> QED
      BY <3>1, <3>2, <3>3, PatchedType
  <2>2. tickets'[t] \in Ticket /\ tickets'[t].author = row[r].author
    BY <1>3, <2>1 DEF Ticket
  <2> QED
    BY <2>1, <2>2, NullAssumption
<1>4. CASE tickets'[t] = [tickets[t] EXCEPT !.deleted = TRUE]
  <2>1. tickets'[t] \in Ticket /\ tickets'[t].author = tickets[t].author
    BY <1>1, <1>4 DEF Ticket
  <2> QED
    BY <2>1, NullAssumption
<1>5. ASSUME NEW r \in Request, Commit(r), call[r].tid = t
      PROVE  tickets'[t] # NULL /\ tickets'[t].author = tickets[t].author
  <2>1. tickets'[t] = row[r] /\ row[r] \in Ticket
    BY <1>5, CommitRow
  <2>2. row[r].author = tickets[t].author
    BY <1>5 DEF Commit, IInv, RequestInv, Saved
  <2> QED
    BY <2>1, <2>2, NullAssumption
<1> QED
  BY <1>2, <1>3, <1>4, <1>5, Writers, WritersStep DEF vars

\* And the copies of Updates keep the author, too.
LEMMA AuthorCopiedStep ==
  ASSUME IInv, \A r \in Request : AuthorCopied(r), [Next]_vars, NEW r \in Request
  PROVE  AuthorCopied(r)'
<1> SUFFICES ASSUME pc'[r] = "write", call'[r].op = "update"
             PROVE  row'[r].author = tickets'[call'[r].tid].author
  BY DEF AuthorCopied
<1>1. /\ call'[r] = call[r]
      /\ (pc[r] = "write" /\ row'[r] = row[r])
         \/ (pc[r] = "read" /\ Live(call[r].tid) /\ row'[r] = tickets[call[r].tid])
  BY CopyTaken
<1>2. call[r].tid \in TicketId
  BY <1>1, Busy
<1>3. tickets[call[r].tid] # NULL /\ row'[r].author = tickets[call[r].tid].author
  BY <1>1 DEF AuthorCopied, Live, IInv, RequestInv, RowThere
<1> QED
  BY <1>1, <1>2, <1>3, AuthorStep

\* A ticket stays in the table and keeps its author, by whom its owner is known,
\* whatever races.  (The UPDATE statements do not name author_id, while the model
\* writes whole rows back, from copies that may be out of date: so this also says
\* that the shorter model makes no difference there.)
THEOREM AuthorsNeverChange ==
  Spec => [][\A t \in TicketId :
               tickets[t] # NULL =>
                 tickets'[t] # NULL /\ tickets'[t].author = tickets[t].author]_vars
<1> DEFINE Kept == \A t \in TicketId :
               tickets[t] # NULL =>
                 tickets'[t] # NULL /\ tickets'[t].author = tickets[t].author
           Copies == \A r \in Request : AuthorCopied(r)
<1>1. Init => Copies
  BY DEF Init, AuthorCopied
<1>2. IInv /\ Copies /\ [Next]_vars => Copies'
  BY AuthorCopiedStep
<1>3. IInv /\ Copies /\ [Next]_vars => [Kept]_vars
  BY AuthorStep
<1> QED
  BY <1>1, <1>2, <1>3, Invariance, PTL DEF Spec
-----------------------------------------------------------------------------
(***************************************************************************)
(* Roles that are granted and revoked meanwhile.                           *)
(***************************************************************************)

\* A request that is served has the actor it had, or arrives with the roles that
\* are in force.
LEMMA ActorSteps ==
  ASSUME IInv, [Next]_vars, NEW r \in Request, pc'[r] # "idle"
  PROVE  \/ pc[r] # "idle" /\ call'[r].actor = call[r].actor
         \/ userRoles' = userRoles
            /\ call'[r].actor.roles = userRoles[call'[r].actor.user]
<1> DEFINE Same == pc[r] # "idle" /\ call'[r].actor = call[r].actor
<1>1. CASE UNCHANGED vars \/ ChangeRoles
  BY <1>1 DEF vars, ChangeRoles
<1>2. ASSUME NEW s \in Request, NEW in \in Input, Arrive(s, in)
      PROVE  Same \/ (userRoles' = userRoles
                      /\ call'[r].actor.roles = userRoles[call'[r].actor.user])
  BY <1>2 DEF Arrive, IInv, TypeOK
<1>3. ASSUME NEW s \in Request, Locking(s) PROVE Same
  BY <1>3 DEF Locking, AssignLock, TransitionLock, CompleteLock, RefuseLock,
     ReopenLock, LockRow, UpdateWrite, DeleteWrite, CommentWrite, Statement,
     Answer, IInv, TypeOK
<1>4. ASSUME NEW s \in Request, CancelRead(s) PROVE Same
  <2>1. CASE Answer(s) \/ r # s
    BY <1>4, <2>1 DEF CancelRead, Answer, IInv, TypeOK
  <2>2. CASE ~Answer(s) /\ r = s
    <3>1. call[r] \in Call
      BY <1>4, <2>2, Busy DEF CancelRead
    <3>2. call'[r] = [call[r] EXCEPT !.op = "transition", !.arg = "cancelled"]
      BY <1>4, <2>2 DEF CancelRead, IInv, TypeOK
    <3> QED
      BY <1>4, <2>2, <3>1, <3>2, CallCancelled DEF CancelRead
  <2> QED
    BY <2>1, <2>2
<1>5. ASSUME NEW s \in Request, Working(s) \/ Abort(s), ~CancelRead(s) PROVE Same
  BY <1>5 DEF Working, Insert, UpdateRead, DeleteRead, CommentRead, Read, AssignWrite,
     AssignReject, TransitionWrite, CompleteWrite, RefuseWrite, ReopenWrite, Save,
     AddCommentInTx, Commit, Notify, Abort, Answer, IInv, TypeOK
<1>6. CASE Crash
  BY <1>6 DEF Crash
<1> QED
  BY <1>1, <1>2, <1>3, <1>4, <1>5, <1>6 DEF Next

\* An Assign comes to its commit by a write that has looked the assignee up.
LEMMA AssignSteps ==
  ASSUME IInv, [Next]_vars, NEW r \in Request, pc'[r] = "commit", call'[r].op = "assign"
  PROVE  /\ call'[r] = call[r] /\ pc[r] # "idle"
         /\ pc[r] = "commit" \/ (Eligible(call[r].arg) /\ userRoles' = userRoles)
<1> DEFINE Same == pc[r] = "commit" /\ call'[r] = call[r]
<1>1. CASE UNCHANGED vars \/ ChangeRoles
  BY <1>1 DEF vars, ChangeRoles
<1>2. ASSUME NEW s \in Request, NEW in \in Input, Arrive(s, in) PROVE Same
  <2>1. s # r
    BY <1>2 DEF Arrive, FirstStep, IInv, TypeOK
  <2> QED
    BY <1>2, <2>1 DEF Arrive, IInv, TypeOK
<1>3. ASSUME NEW s \in Request, Locking(s) PROVE Same
  BY <1>3 DEF Locking, AssignLock, TransitionLock, CompleteLock, RefuseLock,
     ReopenLock, LockRow, UpdateWrite, DeleteWrite, CommentWrite, Statement,
     Answer, IInv, TypeOK
<1>4. ASSUME NEW s \in Request, AssignWrite(s)
      PROVE  \/ Same
             \/ /\ call'[r] = call[r] /\ pc[r] # "idle"
                /\ Eligible(call[r].arg) /\ userRoles' = userRoles
  BY <1>4 DEF AssignWrite, Save, IInv, TypeOK
<1>5. ASSUME NEW s \in Request, AddCommentInTx(s) PROVE Same
  BY <1>5 DEF AddCommentInTx, IInv, RequestInv, Shape, TypeOK
<1>6. ASSUME NEW s \in Request, Working(s) \/ Abort(s), ~AssignWrite(s), ~AddCommentInTx(s)
      PROVE  Same
  BY <1>6 DEF Working, Insert, UpdateRead, DeleteRead, CommentRead, Read, CancelRead,
     AssignReject, TransitionWrite, CompleteWrite, RefuseWrite, ReopenWrite, Save,
     Commit, Notify, Abort, Answer, IInv, TypeOK
<1>7. CASE Crash
  BY <1>7 DEF Crash
<1> QED
  BY <1>1, <1>2, <1>3, <1>4, <1>5, <1>6, <1>7 DEF Next

\* The assignee an operation leaves on a row of ticket id is one it had, or the
\* one an Assign has appointed.
LEMMA AfterAssignee ==
  ASSUME NEW t \in Ticket, NEW c, c.op \in TxOp
  PROVE  After(c, t).assignee = IF c.op = "assign" THEN c.arg
                                ELSE IF c.op = "refuse" THEN NULL ELSE t.assignee
BY DEF After, Ticket, TxOp

\* The tables keep to those who were appointed.
LEMMA HandsStep ==
  ASSUME IInv, RInv, RNext, NEW t \in TicketId, tickets'[t] # NULL
  PROVE  tickets'[t].assignee # NULL => <<t, tickets'[t].assignee>> \in appointed'
<1> SUFFICES ASSUME tickets'[t].assignee # NULL
             PROVE  <<t, tickets'[t].assignee>> \in appointed'
  OBVIOUS
<1>1. appointed \subseteq appointed' /\ Next
  BY DEF RNext, Record
<1>2. CASE tickets'[t] = tickets[t]
  BY <1>1, <1>2 DEF RInv, AssigneesQualified
<1>3. ASSUME NEW r \in Request, Insert(r), tickets'[t] # tickets[t] PROVE FALSE
  <2>1. tickets'[t] = NewTicket(call[r].actor.user, call[r].arg)
    BY <1>3 DEF Insert, IInv, TypeOK
  <2> QED
    BY <2>1 DEF NewTicket
<1>4. ASSUME NEW r \in Request, UpdateWrite(r), call[r].tid = t,
             tickets'[t] = [row[r] EXCEPT !.content = Patched(@, call[r].arg)]
      PROVE  <<t, tickets'[t].assignee>> \in appointed'
  <2>1. row[r] \in Ticket /\ InGoodHands(t, row[r])
    BY <1>4 DEF UpdateWrite, Statement, IInv, RequestInv, Copied, Publishable, RInv
  <2>2. tickets'[t].assignee = row[r].assignee
    BY <1>4, <2>1 DEF Ticket
  <2> QED
    BY <1>1, <2>1, <2>2 DEF InGoodHands
<1>5. CASE tickets[t] # NULL /\ tickets'[t] = [tickets[t] EXCEPT !.deleted = TRUE]
  <2>1. tickets'[t].assignee = tickets[t].assignee
    BY <1>5 DEF IInv, TypeOK, Ticket
  <2> QED
    BY <1>1, <1>5, <2>1 DEF RInv, AssigneesQualified
<1>6. ASSUME NEW r \in Request, Commit(r), call[r].tid = t
      PROVE  <<t, tickets'[t].assignee>> \in appointed'
  <2>1. tickets'[t].assignee = IF call[r].op = "assign" THEN call[r].arg
                               ELSE IF call[r].op = "refuse" THEN NULL ELSE tickets[t].assignee
    BY <1>6, CommitRow, AfterAssignee
  <2>2. CASE call[r].op = "assign"
    <3>1. Appoints(r)
      BY <1>6, <2>2 DEF Commit, Appoints, Commits, RInv, IInv, TypeOK
    <3> QED
      BY <1>6, <2>1, <2>2, <3>1 DEF RNext, Record
  <2>3. CASE call[r].op # "assign"
    BY <1>1, <1>6, <2>1, <2>3, CommitRow, NullAssumption DEF RInv, AssigneesQualified
  <2> QED
    BY <2>2, <2>3
<1>7. ASSUME NEW r \in Request, tickets[t] = NULL,
             UpdateWrite(r) \/ DeleteWrite(r) \/ CommentWrite(r) \/ Commit(r)
      PROVE  tickets'[t] = tickets[t]
  BY <1>7, Busy DEF UpdateWrite, DeleteWrite, CommentWrite, Commit, Statement, Live,
     IInv, TypeOK, RequestInv, RowThere, InTx
<1> QED
  BY <1>1, <1>2, <1>3, <1>4, <1>5, <1>6, <1>7, Writers, WritersStep

\* What is known of roles is kept by every step.
LEMMA RStep ==
  ASSUME IInv, RInv, [RNext]_rvars
  PROVE  RInv'
<1>1. CASE UNCHANGED rvars
  BY <1>1 DEF rvars, vars, RInv, RolesOfItsTime, QualifiedDuring, InGoodHands, AssigneesQualified
<1>2. CASE RNext
  <2>1. Next /\ appointed \subseteq appointed'
    BY <1>2 DEF RNext, Record
  <2>2. ASSUME NEW r \in Request, pc'[r] # "idle"
        PROVE  inForce'[r] = inForce[r] \cup {userRoles'}
    BY <1>2, <2>2 DEF RNext, Record
  <2>3. ASSUME NEW r \in Request, pc'[r] # "idle" PROVE RolesOfItsTime(r)'
    BY <2>1, <2>2, <2>3, ActorSteps DEF RInv, RolesOfItsTime
  <2>4. ASSUME NEW r \in Request, pc'[r] = "commit", call'[r].op = "assign"
        PROVE  QualifiedDuring(r, call[r].arg)' /\ call'[r] = call[r]
    <3>1. /\ call'[r] = call[r] /\ pc[r] # "idle"
          /\ pc[r] = "commit" \/ (Eligible(call[r].arg) /\ userRoles' = userRoles)
      BY <2>1, <2>4, AssignSteps
    <3>2. inForce'[r] = inForce[r] \cup {userRoles'}
      BY <2>2, <2>4
    <3> QED
      BY <2>4, <3>1, <3>2 DEF RInv, QualifiedDuring, Eligible
  <2>5. ASSUME NEW r \in Request, pc'[r] = "write", call'[r].op = "update"
        PROVE  InGoodHands(call[r].tid, row[r])'
    <3>1. /\ call'[r] = call[r]
          /\ \/ pc[r] = "write" /\ row'[r] = row[r]
             \/ pc[r] = "read" /\ Live(call[r].tid) /\ row'[r] = tickets[call[r].tid]
      BY <2>1, <2>5, CopyTaken
    <3>2. call[r].tid \in TicketId
      BY <3>1, Busy
    <3> QED
      BY <2>1, <2>5, <3>1, <3>2 DEF RInv, InGoodHands, AssigneesQualified, Live
  <2>6. AssigneesQualified'
    BY <1>2, HandsStep DEF AssigneesQualified
  <2> QED
    BY <2>3, <2>4, <2>5, <2>6 DEF RInv, RolesOfItsTime
<1> QED
  BY <1>1, <1>2

\* What each request knows of roles, together with the invariant of the service.
THEOREM RolesInvariance == RSpec => [](IInv /\ RInv)
<1>1. RInit => IInv /\ RInv
  BY InitInv DEF RInit, Init, RInv, RolesOfItsTime, AssigneesQualified
<1>2. IInv /\ RInv /\ [RNext]_rvars => IInv' /\ RInv'
  BY NextInv, RStep DEF RNext, rvars
<1> QED
  BY <1>1, <1>2, PTL DEF RSpec

\* Whoever has a ticket in hand was assigned this ticket by a request while which
\* was served he was an executor or an administrator, whatever is revoked or
\* PATCHed then and later.
THEOREM AssigneesStayQualified == RSpec => []AssigneesQualified
<1>1. RInv => AssigneesQualified
  BY DEF RInv
<1> QED
  BY <1>1, RolesInvariance, PTL

\* Whoever moves a ticket is entitled to by the roles he had at some time since
\* his request arrived, on the row as it is at the commit.
THEOREM RevokedRolesStayRevoked == RSpec => RevokedRolesMoveNothing
<1>1. ASSUME IInv, RInv, RNext, NEW r \in Request, Commits(r) PROVE EntitledByRoles(r)
  <2>1. Entitled(call[r].actor, tickets[call[r].tid], tickets'[call[r].tid].status)
    BY <1>1, EntitledStep DEF RNext, EntitledCommit, Commits, vars
  <2>2. call[r].actor \in Actor
    BY <1>1, Busy DEF Commits
  <2>3. PICK roles \in inForce[r] : roles[call[r].actor.user] = call[r].actor.roles
    BY <1>1 DEF RInv, RolesOfItsTime, Commits
  <2>4. [user |-> call[r].actor.user, roles |-> roles[call[r].actor.user]] = call[r].actor
    BY <2>2, <2>3 DEF Actor
  <2> QED
    BY <2>1, <2>3, <2>4 DEF EntitledByRoles
<1>2. IInv /\ RInv /\ [RNext]_rvars => [RolesSuffice]_rvars
  BY <1>1 DEF RolesSuffice
<1> QED
  BY <1>2, RolesInvariance, PTL DEF RSpec, RevokedRolesMoveNothing
=============================================================================
