------------------------- MODULE TicketServiceProofs -------------------------
(***************************************************************************)
(* Proofs about TicketService, for any number of users, tickets, requests  *)
(* and texts, and any set of calls.                                        *)
(***************************************************************************)
EXTENDS TicketInvariant, TLAPS

PcSet == {"idle", "read", "write", "begin", "notify"} \cup InTx

-----------------------------------------------------------------------------
(***************************************************************************)
(* Calls, rows and the helpers of the actions.                             *)
(***************************************************************************)

\* A call has the fields of Call, and an argument that fits its operation.
LEMMA CallFields ==
  ASSUME NEW c \in Call
  PROVE  /\ c.op \in Op /\ c.tid \in TicketId /\ c.actor \in Actor
         /\ c.arg \in ArgOf(c.op)
         /\ c = [op |-> c.op, tid |-> c.tid, arg |-> c.arg, actor |-> c.actor]
BY DEF Call

\* A record built from an operation, an argument of it and an actor is a call.
LEMMA CallMade ==
  ASSUME NEW o \in Op, NEW t \in TicketId, NEW x \in ArgOf(o), NEW w \in Actor
  PROVE  [op |-> o, tid |-> t, arg |-> x, actor |-> w] \in Call
BY DEF Call

\* The call Cancel passes on to Transition.
LEMMA CallCancelled ==
  ASSUME NEW c \in Call
  PROVE  /\ [c EXCEPT !.op = "transition", !.arg = "cancelled"] \in Call
         /\ [c EXCEPT !.op = "transition", !.arg = "cancelled"].op = "transition"
         /\ [c EXCEPT !.op = "transition", !.arg = "cancelled"].arg = "cancelled"
         /\ [c EXCEPT !.op = "transition", !.arg = "cancelled"].tid = c.tid
         /\ [c EXCEPT !.op = "transition", !.arg = "cancelled"].actor = c.actor
<1>1. PICK o \in Op : c \in [op : {o}, tid : TicketId, arg : ArgOf(o), actor : Actor]
  BY DEF Call
<1>2. "cancelled" \in ArgOf("transition") /\ "transition" \in Op
  BY DEF ArgOf, TicketStatus, Op, TxOp
<1>3. [c EXCEPT !.op = "transition", !.arg = "cancelled"] \in
        [op : {"transition"}, tid : TicketId, arg : ArgOf("transition"), actor : Actor]
  BY <1>1, <1>2
<1>4. [c EXCEPT !.op = "transition", !.arg = "cancelled"] \in Call
  BY <1>2, <1>3 DEF Call
<1> QED
  BY <1>1, <1>4

\* A request that is not idle has a call with a ticket id.
LEMMA Busy ==
  ASSUME IInv, NEW r \in Request, pc[r] # "idle"
  PROVE  /\ call[r] \in Call /\ call[r].tid \in TicketId /\ call[r].op \in Op
         /\ call[r].arg \in ArgOf(call[r].op) /\ call[r].actor \in Actor
BY CallFields DEF IInv, TypeOK, RequestInv, Shape

\* A live ticket has a row that is not deleted.
LEMMA LiveRow ==
  ASSUME TypeOK, NEW t \in TicketId, Live(t)
  PROVE  tickets[t] \in Ticket
BY DEF TypeOK, Live

\* What some comments explain, more comments explain.
LEMMA ExplainedMono ==
  ASSUME NEW cs, NEW ds, cs \subseteq ds, NEW id, NEW t, ExplainedBy(cs, id, t)
  PROVE  ExplainedBy(ds, id, t)
BY DEF ExplainedBy

\* The tables keep their promises when rows stay and comments are added.
LEMMA TablesKept ==
  ASSUME IInv, UNCHANGED tickets, comments \subseteq comments'
  PROVE  RowConsistent' /\ RowExplained'
BY ExplainedMono DEF IInv, RowConsistent, RowExplained

\* A request keeps its invariant when another one takes a step, unless the row
\* it has locked changes.
LEMMA Frame ==
  ASSUME IInv, NEW s \in Request,
         pc'[s] = pc[s], call'[s] = call[s], row'[s] = row[s], note'[s] = note[s],
         comments \subseteq comments',
         \A t \in TicketId : tickets[t] # NULL => tickets'[t] # NULL,
         pc[s] \in InTx => /\ tickets'[call[s].tid] = tickets[call[s].tid]
                           /\ lock'[call[s].tid] = s
  PROVE  RequestInv(s)'
<1>1. Shape(s)'
  BY DEF IInv, RequestInv, Shape
<1>2. RowThere(s)'
  BY Busy DEF IInv, RequestInv, RowThere, Live, InTx
<1>3. Checked(s)'
  BY DEF IInv, RequestInv, Checked, InTx
<1>4. Saved(s)'
  <2>1. CASE pc[s] \in {"comment", "commit"}
    <3>1. comments \cup OwnComments(call[s]) \subseteq comments' \cup OwnComments(call[s])
      OBVIOUS
    <3>2. Publishable(row[s], call[s].tid, comments' \cup OwnComments(call[s]))
      BY <2>1, <3>1, ExplainedMono DEF IInv, RequestInv, Saved, Publishable
    <3> QED
      BY <2>1, <3>2 DEF IInv, RequestInv, Saved, InTx
  <2> QED
    BY <2>1 DEF Saved
<1>5. Copied(s)'
  <2>1. CASE pc[s] = "write" /\ call[s].op = "update"
    <3>1. Publishable(row[s], call[s].tid, comments')
      BY <2>1, ExplainedMono DEF IInv, RequestInv, Copied, Publishable
    <3> QED
      BY <3>1 DEF Copied
  <2> QED
    BY <2>1 DEF Copied
<1> QED
  BY <1>1, <1>2, <1>3, <1>4, <1>5 DEF RequestInv

-----------------------------------------------------------------------------
(***************************************************************************)
(* Type correctness.                                                       *)
(***************************************************************************)

\* The initial state has the types of the tables.
LEMMA InitType == Init => TypeOK
BY RoleAssumption DEF Init, TypeOK, InTx

\* A call that arrives, with the roles the middleware loads, is a call.
LEMMA ArriveType ==
  ASSUME TypeOK, NEW r \in Request, NEW in \in Input, Arrive(r, in)
  PROVE  TypeOK'
<1> DEFINE c == [op |-> in.op, tid |-> in.tid, arg |-> in.arg,
                 actor |-> [user |-> in.user, roles |-> userRoles[in.user]]]
<1>1. c \in Call
  BY InputAssumption, CallMade DEF TypeOK, Actor
<1>2. FirstStep(in.op) \in PcSet
  BY DEF FirstStep, PcSet
<1> QED
  BY <1>1, <1>2 DEF Arrive, TypeOK, PcSet

\* Answer sets pc, call, row and note to values of their types.
LEMMA AnswerType ==
  ASSUME TypeOK, NEW r \in Request, Answer(r)
  PROVE  /\ pc' \in [Request -> PcSet]
         /\ call' \in [Request -> Call \cup {NULL}]
         /\ row' \in [Request -> Ticket \cup {NULL}]
         /\ note' \in [Request -> SUBSET Comment]
BY DEF Answer, TypeOK, PcSet

\* A lock given back leaves the lock table in its type.
LEMMA ReleaseType ==
  ASSUME TypeOK, NEW r \in Request, Release(r)
  PROVE  lock' \in [TicketId -> Request \cup {NULL}]
BY DEF Release, TypeOK

\* INSERT INTO tickets makes a row of the table.
LEMMA NewTicketType ==
  ASSUME NEW w \in User, NEW content \in [Column -> Text]
  PROVE  NewTicket(w, content) \in Ticket
BY DEF NewTicket, Ticket, TicketStatus

\* A PATCH applied to the descriptive columns gives descriptive columns.
LEMMA PatchedType ==
  ASSUME NEW content \in [Column -> Text], NEW patch \in Patch
  PROVE  Patched(content, patch) \in [Column -> Text]
BY DEF Patched, Patch

\* Create keeps the types.
LEMMA InsertType ==
  ASSUME IInv, NEW r \in Request, Insert(r)
  PROVE  TypeOK'
<1>1. NewTicket(call[r].actor.user, call[r].arg) \in Ticket
  BY Busy, NewTicketType DEF Insert, Actor, ArgOf
<1>2. tickets' \in [TicketId -> Ticket \cup {NULL}]
  BY <1>1 DEF Insert, IInv, TypeOK
<1> QED
  BY <1>2, AnswerType DEF IInv, Insert, TypeOK, PcSet

\* Reading a row without a lock keeps the types.
LEMMA ReadType ==
  ASSUME IInv, NEW r \in Request,
         UpdateRead(r) \/ DeleteRead(r) \/ CommentRead(r) \/ CancelRead(r)
  PROVE  TypeOK'
<1>1. TypeOK
  BY DEF IInv
<1>2. call[r] \in Call /\ call[r].tid \in TicketId /\ call[r].actor \in Actor
  BY Busy DEF UpdateRead, DeleteRead, CommentRead, CancelRead, Read
<1>3. CASE CancelRead(r) /\ ~Answer(r)
  <2> DEFINE c == [call[r] EXCEPT !.op = "transition", !.arg = "cancelled"]
  <2>1. c \in Call
    BY <1>2, CallCancelled
  <2>2. call' = [call EXCEPT ![r] = c]
    BY <1>3, <1>1 DEF CancelRead, TypeOK
  <2> HIDE DEF c
  <2> QED
    BY <1>1, <1>3, <2>1, <2>2 DEF CancelRead, TypeOK
<1>4. CASE UpdateRead(r) /\ ~Answer(r)
  BY <1>1, <1>2, <1>4, LiveRow DEF UpdateRead, Read, TypeOK
<1>5. CASE DeleteRead(r) /\ ~Answer(r)
  BY <1>1, <1>2, <1>5, LiveRow DEF DeleteRead, Read, TypeOK
<1>6. CASE CommentRead(r) /\ ~Answer(r)
  BY <1>1, <1>2, <1>6, LiveRow DEF CommentRead, Read, TypeOK
<1>7. CASE Answer(r)
  <2>1. UNCHANGED <<tickets, comments, userRoles, lock>>
    BY DEF UpdateRead, DeleteRead, CommentRead, CancelRead, Read
  <2> QED
    BY <1>1, <1>7, <2>1, AnswerType DEF TypeOK, PcSet
<1> QED
  BY <1>3, <1>4, <1>5, <1>6, <1>7

\* The single statements of Update, Delete and AddComment keep the types.
LEMMA StatementType ==
  ASSUME IInv, NEW r \in Request,
         UpdateWrite(r) \/ DeleteWrite(r) \/ CommentWrite(r)
  PROVE  TypeOK'
<1>1. TypeOK
  BY DEF IInv
<1>2. call[r].tid \in TicketId /\ call[r].arg \in ArgOf(call[r].op)
      /\ call[r].actor \in Actor
  BY Busy DEF UpdateWrite, DeleteWrite, CommentWrite, Statement
<1>3. Answer(r) /\ UNCHANGED <<userRoles, lock>>
  BY DEF UpdateWrite, DeleteWrite, CommentWrite, Statement
<1>4. tickets' \in [TicketId -> Ticket \cup {NULL}] /\ comments' \subseteq Comment
  <2>1. CASE UpdateWrite(r)
    <3> DEFINE new == [row[r] EXCEPT !.content = Patched(@, call[r].arg)]
    <3>1. call[r].op = "update" /\ pc[r] = "write"
      BY <2>1 DEF UpdateWrite, Statement
    <3>2. row[r] \in Ticket
      BY <3>1 DEF IInv, RequestInv, Copied, Publishable
    <3>3. Patched(row[r].content, call[r].arg) \in [Column -> Text]
      BY <1>2, <3>1, <3>2, PatchedType DEF ArgOf, Ticket
    <3>4. new \in Ticket
      BY <3>2, <3>3 DEF Ticket
    <3> HIDE DEF new
    <3> QED
      BY <1>1, <2>1, <3>4 DEF UpdateWrite, TypeOK, new
  <2>2. CASE DeleteWrite(r)
    <3> DEFINE new == [tickets[call[r].tid] EXCEPT !.deleted = TRUE]
    <3>1. CASE Live(call[r].tid)
      <4>1. new \in Ticket
        BY <1>1, <1>2, <3>1, LiveRow DEF Ticket
      <4>2. tickets' = [tickets EXCEPT ![call[r].tid] = new]
        BY <2>2, <3>1 DEF DeleteWrite
      <4> HIDE DEF new
      <4> QED
        BY <1>1, <2>2, <4>1, <4>2 DEF DeleteWrite, TypeOK
    <3> QED
      BY <1>1, <2>2, <3>1 DEF DeleteWrite, TypeOK
  <2>3. CASE CommentWrite(r)
    BY <1>1, <1>2, <2>3 DEF CommentWrite, TypeOK, Comment, Actor
  <2> QED
    BY <2>1, <2>2, <2>3
<1> QED
  BY <1>1, <1>3, <1>4, AnswerType DEF TypeOK, PcSet

\* SELECT FOR UPDATE and what follows it keep the types.
LEMMA LockType ==
  ASSUME IInv, NEW r \in Request,
         \/ AssignLock(r) \/ TransitionLock(r) \/ CompleteLock(r)
         \/ RefuseLock(r) \/ ReopenLock(r)
  PROVE  TypeOK'
<1>1. TypeOK
  BY DEF IInv
<1>2. call[r].tid \in TicketId
  BY Busy DEF AssignLock, TransitionLock, CompleteLock, RefuseLock, ReopenLock, LockRow
<1>3. \/ Answer(r) /\ UNCHANGED <<tickets, comments, userRoles, lock>>
      \/ /\ Live(call[r].tid)
         /\ pc' = [pc EXCEPT ![r] = "locked"]
         /\ row' = [row EXCEPT ![r] = tickets[call[r].tid]]
         /\ lock' = [lock EXCEPT ![call[r].tid] = r]
         /\ UNCHANGED <<call, note, tickets, comments, userRoles>>
  BY DEF AssignLock, TransitionLock, CompleteLock, RefuseLock, ReopenLock, LockRow
<1> QED
  BY <1>1, <1>2, <1>3, AnswerType, LiveRow DEF TypeOK, PcSet, InTx

-----------------------------------------------------------------------------
(***************************************************************************)
(* How a step of one request keeps the invariant of all.                   *)
(***************************************************************************)

\* The step of request r leaves the other requests and the rows they have
\* locked alone; what is left to show is about r and the tables.
LEMMA Step ==
  ASSUME IInv, TypeOK', NEW r \in Request,
         \A s \in Request \ {r} : /\ pc'[s] = pc[s] /\ call'[s] = call[s]
                                  /\ row'[s] = row[s] /\ note'[s] = note[s],
         comments \subseteq comments',
         \A t \in TicketId : tickets[t] # NULL => tickets'[t] # NULL,
         \A t \in TicketId : lock[t] # NULL /\ lock[t] # r =>
                              tickets'[t] = tickets[t] /\ lock'[t] = lock[t],
         \A t \in TicketId : lock'[t] # NULL /\ lock'[t] # r => lock[t] = lock'[t],
         \A t \in TicketId : lock'[t] = r => pc'[r] \in InTx /\ call'[r].tid = t,
         RequestInv(r)', RowConsistent', RowExplained'
  PROVE  IInv'
<1>1. ASSUME NEW s \in Request \ {r}
      PROVE  RequestInv(s)'
  <2>1. CASE pc[s] \in InTx
    <3>1. call[s].tid \in TicketId
      BY <2>1, Busy DEF InTx
    <3>2. lock[call[s].tid] = s /\ s # NULL
      BY <2>1, RequestAssumption DEF IInv, RequestInv, RowThere
    <3> QED
      BY <2>1, <3>1, <3>2, Frame
  <2>2. CASE pc[s] \notin InTx
    BY <2>2, Frame
  <2> QED
    BY <2>1, <2>2
<1>2. ASSUME NEW t \in TicketId
      PROVE  LockUsed(t)'
  <2>1. CASE lock'[t] = r
    BY <2>1 DEF LockUsed
  <2>2. CASE lock'[t] # NULL /\ lock'[t] # r
    <3>1. lock'[t] \in Request \ {r} /\ lock[t] = lock'[t]
      BY <2>2 DEF TypeOK
    <3> QED
      BY <2>2, <3>1 DEF IInv, LockUsed
  <2> QED
    BY <2>1, <2>2 DEF LockUsed
<1> QED
  BY <1>1, <1>2 DEF IInv

\* What Answer leaves behind, and what it leaves alone.
LEMMA Answered1 ==
  ASSUME TypeOK, NEW r \in Request, Answer(r)
  PROVE  /\ pc'[r] = "idle"
         /\ RequestInv(r)'
         /\ \A s \in Request \ {r} : /\ pc'[s] = pc[s] /\ call'[s] = call[s]
                                    /\ row'[s] = row[s] /\ note'[s] = note[s]
<1>1. /\ pc'[r] = "idle" /\ call'[r] = NULL /\ note'[r] = {}
  BY DEF Answer, TypeOK
<1>2. RequestInv(r)'
  BY <1>1 DEF RequestInv, Shape, RowThere, Checked, Saved, Copied, InTx
<1> QED
  BY <1>1, <1>2 DEF Answer, TypeOK

\* A request that is not in a transaction holds no lock.
LEMMA NoLock ==
  ASSUME IInv, NEW r \in Request, pc[r] \notin InTx, NEW t \in TicketId
  PROVE  lock[t] # r
BY RequestAssumption DEF IInv, LockUsed

\* A request is answered outside a transaction and nothing else changes.
LEMMA AnswerOnly ==
  ASSUME IInv, NEW r \in Request, Answer(r), pc[r] \notin InTx,
         UNCHANGED <<tickets, comments, userRoles, lock>>
  PROVE  IInv'
<1>1. TypeOK'
  BY AnswerType DEF IInv, TypeOK, PcSet
<1>2. RowConsistent' /\ RowExplained'
  BY TablesKept
<1> QED
  BY <1>1, <1>2, Answered1, NoLock, Step DEF IInv

\* A transaction ends without a commit.
LEMMA RollbackInv ==
  ASSUME IInv, NEW r \in Request, Answer(r), Release(r),
         UNCHANGED <<tickets, comments, userRoles>>
  PROVE  IInv'
<1>1. TypeOK'
  BY AnswerType, ReleaseType DEF IInv, TypeOK, PcSet
<1>2. RowConsistent' /\ RowExplained'
  BY TablesKept
<1>3. \A t \in TicketId : lock'[t] # r
  BY RequestAssumption DEF Release
<1>4. \A t \in TicketId : lock[t] # r => lock'[t] = lock[t]
  BY DEF Release
<1>5. \A t \in TicketId : lock'[t] # NULL => lock[t] = lock'[t]
  BY DEF Release
<1> QED
  BY <1>1, <1>2, <1>3, <1>4, <1>5, Answered1, Step DEF IInv

\* A step of a request that stays in, or stays out of, a transaction and
\* changes only what is its own.
LEMMA OwnStep ==
  ASSUME IInv, TypeOK', NEW r \in Request,
         \A s \in Request \ {r} : /\ pc'[s] = pc[s] /\ call'[s] = call[s]
                                  /\ row'[s] = row[s] /\ note'[s] = note[s],
         UNCHANGED <<tickets, comments, lock>>,
         pc[r] \in InTx => pc'[r] \in InTx /\ call'[r] = call[r],
         RequestInv(r)'
  PROVE  IInv'
<1>1. RowConsistent' /\ RowExplained'
  BY TablesKept
<1>2. \A t \in TicketId : lock'[t] = r => pc'[r] \in InTx /\ call'[r].tid = t
  BY RequestAssumption DEF IInv, LockUsed
<1> QED
  BY <1>1, <1>2, Step

-----------------------------------------------------------------------------
(***************************************************************************)
(* Requests that arrive, create and read.                                  *)
(***************************************************************************)

\* The invariant holds initially.
LEMMA InitInv == Init => IInv
<1> SUFFICES ASSUME Init PROVE IInv
  OBVIOUS
<1>1. TypeOK
  BY InitType
<1>2. ASSUME NEW r \in Request PROVE RequestInv(r)
  BY DEF Init, RequestInv, Shape, RowThere, Checked, Saved, Copied, InTx
<1>3. (\A t \in TicketId : LockUsed(t)) /\ RowConsistent /\ RowExplained
  BY DEF Init, LockUsed, RowConsistent, RowExplained
<1> QED
  BY <1>1, <1>2, <1>3 DEF IInv

\* A new request keeps the invariant.
LEMMA ArriveInv ==
  ASSUME IInv, NEW r \in Request, NEW in \in Input, Arrive(r, in)
  PROVE  IInv'
<1> DEFINE c == [op |-> in.op, tid |-> in.tid, arg |-> in.arg,
                 actor |-> [user |-> in.user, roles |-> userRoles[in.user]]]
<1>1. TypeOK'
  BY ArriveType DEF IInv
<1>2. c \in Call /\ c.op \in Op /\ c.op = in.op
  BY InputAssumption, CallMade DEF IInv, TypeOK, Actor
<1>3. /\ pc[r] = "idle" /\ Valid(c)
      /\ pc'[r] = FirstStep(c.op) /\ call'[r] = c /\ note'[r] = note[r]
  BY DEF Arrive, IInv, TypeOK
<1>4. note'[r] = {}
  BY <1>3 DEF IInv, RequestInv, Shape
<1> HIDE DEF c
<1>5. /\ FirstStep(c.op) \in {"begin", "read", "write"}
      /\ FirstStep(c.op) = "begin" => c.op \in TxOp
      /\ FirstStep(c.op) = "read" => c.op \in ReadOp
      /\ FirstStep(c.op) = "write" => c.op = "create"
  BY <1>2 DEF FirstStep, Op
<1>6. RequestInv(r)'
  <2>1. Shape(r)'
    BY <1>2, <1>3, <1>4, <1>5, RequestAssumption DEF Shape, InTx
  <2>2. RowThere(r)' /\ Checked(r)' /\ Saved(r)' /\ Copied(r)'
    BY <1>3, <1>5 DEF RowThere, Checked, Saved, Copied, InTx
  <2> QED
    BY <2>1, <2>2 DEF RequestInv
<1> QED
  BY <1>1, <1>3, <1>6, OwnStep DEF Arrive, IInv, TypeOK, InTx

\* Create keeps the invariant: a new row promises little and needs no comment.
LEMMA InsertInv ==
  ASSUME IInv, NEW r \in Request, Insert(r)
  PROVE  IInv'
<1>1. TypeOK'
  BY InsertType
<1>2. CASE UNCHANGED tickets
  BY <1>2, AnswerOnly DEF Insert, InTx
<1>3. CASE \E t \in TicketId :
             /\ tickets[t] = NULL
             /\ tickets' = [tickets EXCEPT
                             ![t] = NewTicket(call[r].actor.user, call[r].arg)]
  <2>1. PICK t \in TicketId :
          /\ tickets[t] = NULL
          /\ tickets' = [tickets EXCEPT
                          ![t] = NewTicket(call[r].actor.user, call[r].arg)]
    BY <1>3
  <2> DEFINE new == NewTicket(call[r].actor.user, call[r].arg)
  <2>2. /\ new.status = "new" /\ new.assignee = NULL /\ new.reason = NULL
        /\ new.rating = NULL /\ new.reopenCount = 0
    BY DEF NewTicket
  <2>3. tickets'[t] = new /\ \A x \in TicketId \ {t} : tickets'[x] = tickets[x]
    BY <2>1 DEF IInv, TypeOK
  <2> HIDE DEF new
  <2>4. lock[t] = NULL
    <3>1. ASSUME lock[t] # NULL PROVE FALSE
      BY <3>1, <2>1 DEF IInv, LockUsed, TypeOK, RequestInv, RowThere, Live
    <3> QED
      BY <3>1
  <2>5. RowConsistent'
    BY <2>2, <2>3 DEF RowConsistent, RowOK, IInv
  <2>6. RowExplained'
    BY <2>2, <2>3 DEF RowExplained, ExplainedBy, IInv, Insert
  <2>7. \A x \in TicketId : tickets[x] # NULL => tickets'[x] = tickets[x]
    BY <2>1, <2>3
  <2> QED
    BY <1>1, <2>4, <2>5, <2>6, <2>7, <2>3, Answered1, NoLock, Step
    DEF Insert, InTx, IInv
<1> QED
  BY <1>2, <1>3 DEF Insert

\* GetTicketByID returns a row the copy of which may be published.
LEMMA LiveRowPublishable ==
  ASSUME IInv, NEW t \in TicketId, Live(t)
  PROVE  Publishable(tickets[t], t, comments)
BY LiveRow DEF IInv, Live, RowConsistent, RowExplained, Publishable

\* Reading a row without a lock keeps the invariant: the copy is publishable.
LEMMA ReadInv ==
  ASSUME IInv, NEW r \in Request,
         UpdateRead(r) \/ DeleteRead(r) \/ CommentRead(r) \/ CancelRead(r)
  PROVE  IInv'
<1>1. TypeOK'
  BY ReadType
<1>2. /\ pc[r] = "read" /\ call[r] \in Call /\ call[r].tid \in TicketId
      /\ UNCHANGED <<tickets, comments, userRoles, lock>>
  BY Busy DEF UpdateRead, DeleteRead, CommentRead, CancelRead, Read
<1>3. CASE Answer(r)
  BY <1>2, <1>3, AnswerOnly DEF InTx
<1>4. CASE ~CancelRead(r) /\ ~Answer(r)
  <2>1. /\ Live(call[r].tid)
        /\ call[r].op \in {"update", "delete", "comment"}
        /\ pc' = [pc EXCEPT ![r] = "write"]
        /\ row' = [row EXCEPT ![r] = tickets[call[r].tid]]
        /\ UNCHANGED <<call, note>>
    BY <1>4 DEF UpdateRead, DeleteRead, CommentRead, Read
  <2>2. /\ pc'[r] = "write" /\ row'[r] = tickets[call[r].tid]
        /\ call'[r] = call[r] /\ note'[r] = note[r]
    BY <2>1 DEF IInv, TypeOK
  <2>3. Shape(r)'
    BY <1>2, <2>1, <2>2 DEF IInv, RequestInv, Shape, InTx
  <2>4. RowThere(r)' /\ Checked(r)' /\ Saved(r)'
    BY <1>2, <2>1, <2>2 DEF RowThere, Checked, Saved, InTx, Live
  <2>5. Copied(r)'
    BY <1>2, <2>1, <2>2, LiveRowPublishable DEF Copied
  <2>6. RequestInv(r)'
    BY <2>3, <2>4, <2>5 DEF RequestInv
  <2> QED
    BY <1>1, <1>2, <2>1, <2>6, OwnStep DEF InTx, IInv, TypeOK
<1>5. CASE CancelRead(r) /\ ~Answer(r)
  <2> DEFINE c == [call[r] EXCEPT !.op = "transition", !.arg = "cancelled"]
  <2>1. call' = [call EXCEPT ![r] = c] /\ pc' = [pc EXCEPT ![r] = "begin"]
        /\ UNCHANGED <<row, note>>
    BY <1>5 DEF CancelRead, IInv, TypeOK
  <2>2. c \in Call /\ c.op = "transition" /\ c.arg = "cancelled"
    BY <1>2, CallCancelled
  <2> HIDE DEF c
  <2>3. pc'[r] = "begin" /\ call'[r] = c /\ note'[r] = note[r]
    BY <2>1 DEF IInv, TypeOK
  <2>4. Valid(c)
    BY <2>2 DEF Valid, OpenToTransition
  <2>5. Shape(r)'
    BY <1>2, <2>2, <2>3, <2>4, RequestAssumption
    DEF IInv, RequestInv, Shape, InTx, TxOp
  <2>6. RequestInv(r)'
    BY <2>3, <2>5 DEF RequestInv, RowThere, Checked, Saved, Copied, InTx
  <2> QED
    BY <1>1, <1>2, <2>1, <2>6, OwnStep DEF InTx, IInv, TypeOK
<1> QED
  BY <1>3, <1>4, <1>5

-----------------------------------------------------------------------------
(***************************************************************************)
(* Statements that wait for the row lock.                                  *)
(***************************************************************************)

\* A row that agrees with another on the workflow's columns keeps its promises.
LEMMA SameWorkflow ==
  ASSUME NEW t, NEW x, NEW id, NEW cs,
         x.status = t.status, x.assignee = t.assignee, x.rating = t.rating,
         x.reason = t.reason, x.reopenCount = t.reopenCount,
         RowOK(t), ExplainedBy(cs, id, t)
  PROVE  RowOK(x) /\ ExplainedBy(cs, id, x)
BY DEF RowOK, ExplainedBy

\* A request outside a transaction replaces an unlocked row.
LEMMA Replace ==
  ASSUME IInv, TypeOK', NEW r \in Request, pc[r] \notin InTx, Answer(r),
         NEW t \in TicketId, lock[t] = NULL, NEW new,
         tickets' = [tickets EXCEPT ![t] = new], new # NULL,
         RowOK(new), ExplainedBy(comments, t, new),
         UNCHANGED <<comments, lock>>
  PROVE  IInv'
<1>1. tickets'[t] = new /\ \A x \in TicketId \ {t} : tickets'[x] = tickets[x]
  BY DEF IInv, TypeOK
<1>2. RowConsistent' /\ RowExplained'
  BY <1>1 DEF IInv, RowConsistent, RowExplained
<1>3. \A x \in TicketId : tickets[x] # NULL => tickets'[x] # NULL
  BY <1>1
<1>4. \A x \in TicketId : lock[x] # NULL /\ lock[x] # r =>
                           tickets'[x] = tickets[x] /\ lock'[x] = lock[x]
  BY <1>1
<1> QED
  BY <1>2, <1>3, <1>4, NoLock, Answered1, Step DEF IInv

\* A statement outside a transaction keeps the invariant: it waits for the row
\* lock, so nobody's locked copy goes stale.
LEMMA StatementInv ==
  ASSUME IInv, NEW r \in Request,
         UpdateWrite(r) \/ DeleteWrite(r) \/ CommentWrite(r)
  PROVE  IInv'
<1>1. TypeOK'
  BY StatementType
<1>2. /\ pc[r] = "write" /\ call[r] \in Call /\ call[r].tid \in TicketId
      /\ lock[call[r].tid] = NULL /\ Answer(r) /\ UNCHANGED <<userRoles, lock>>
  BY Busy DEF UpdateWrite, DeleteWrite, CommentWrite, Statement
<1>3. CASE UNCHANGED <<tickets, comments>>
  BY <1>2, <1>3, AnswerOnly DEF InTx
<1>4. CASE UpdateWrite(r) /\ Live(call[r].tid)
  <2> DEFINE new == [row[r] EXCEPT !.content = Patched(@, call[r].arg)]
  <2>1. tickets' = [tickets EXCEPT ![call[r].tid] = new] /\ UNCHANGED comments
    BY <1>4 DEF UpdateWrite
  <2>2. Publishable(row[r], call[r].tid, comments)
    BY <1>2, <1>4 DEF IInv, RequestInv, Copied, UpdateWrite, Statement
  <2>3. /\ new.status = row[r].status /\ new.assignee = row[r].assignee
        /\ new.rating = row[r].rating /\ new.reason = row[r].reason
        /\ new.reopenCount = row[r].reopenCount
    BY <2>2 DEF Publishable, Ticket
  <2>4. new # NULL
    <3>1. /\ call[r].op = "update" /\ call[r].arg \in Patch
          /\ row[r].content \in [Column -> Text] /\ row[r] \in Ticket
      BY <1>2, <1>4, <2>2, Busy DEF UpdateWrite, Statement, ArgOf, Publishable, Ticket
    <3>2. new \in Ticket
      BY <3>1, PatchedType DEF Ticket
    <3> QED
      BY <3>2, NullAssumption
  <2> HIDE DEF new
  <2>5. RowOK(new) /\ ExplainedBy(comments, call[r].tid, new)
    BY <2>2, <2>3, SameWorkflow DEF Publishable
  <2> QED
    BY <1>1, <1>2, <2>1, <2>4, <2>5, Replace DEF InTx
<1>5. CASE DeleteWrite(r) /\ Live(call[r].tid)
  <2> DEFINE old == tickets[call[r].tid]
             new == [old EXCEPT !.deleted = TRUE]
  <2>1. tickets' = [tickets EXCEPT ![call[r].tid] = new] /\ UNCHANGED comments
    BY <1>5 DEF DeleteWrite
  <2>2. Publishable(old, call[r].tid, comments)
    BY <1>2, <1>5, LiveRowPublishable
  <2>3. /\ new.status = old.status /\ new.assignee = old.assignee
        /\ new.rating = old.rating /\ new.reason = old.reason
        /\ new.reopenCount = old.reopenCount /\ new \in Ticket
    BY <2>2 DEF Publishable, Ticket
  <2> HIDE DEF new, old
  <2>4. RowOK(new) /\ ExplainedBy(comments, call[r].tid, new) /\ new # NULL
    BY <2>2, <2>3, SameWorkflow, NullAssumption DEF Publishable
  <2> QED
    BY <1>1, <1>2, <2>1, <2>4, Replace DEF InTx
<1>6. CASE CommentWrite(r)
  <2>1. UNCHANGED tickets /\ comments \subseteq comments'
    BY <1>6 DEF CommentWrite
  <2>2. RowConsistent' /\ RowExplained'
    BY <2>1, TablesKept
  <2> QED
    BY <1>1, <1>2, <2>1, <2>2, NoLock, Answered1, Step DEF IInv, InTx
<1> QED
  BY <1>3, <1>4, <1>5, <1>6 DEF UpdateWrite, DeleteWrite

-----------------------------------------------------------------------------
(***************************************************************************)
(* The checks made under the row lock.                                     *)
(***************************************************************************)

\* Refuse and Complete ask two rules of the domain layer; one implies the other.
LEMMA RefuseIsATransition ==
  ASSUME NEW actor, NEW t, CanRefuse(actor, t)
  PROVE  CanActorTransition(actor, t.status, "new", t)
BY DEF CanRefuse, CanActorTransition, CanTransition, allowedTransitions, TicketStatus

\* Whoever may complete a ticket may move it to closed.
LEMMA CompleteIsATransition ==
  ASSUME NEW actor, NEW t, CanComplete(actor, t)
  PROVE  CanActorTransition(actor, t.status, "closed", t)
BY DEF CanComplete, CanActorTransition, CanTransition, allowedTransitions, TicketStatus

\* Reopen asks CanReopen alone.
LEMMA ReopenIsATransition ==
  ASSUME NEW actor, NEW t, CanReopen(actor, t)
  PROVE  CanActorTransition(actor, t.status, "reopened", t)
BY DEF CanReopen, CanActorTransition, CanTransition, allowedTransitions, TicketStatus

\* Assign asks CanAssign and looks at the status itself.
LEMMA AssignIsEntitled ==
  ASSUME NEW actor, NEW t, CanAssign(actor),
         t.status \in {"new", "reopened", "assigned"}
  PROVE  Entitled(actor, t, "assigned")
BY DEF CanAssign, Entitled, CanActorTransition, CanTransition, allowedTransitions,
       TicketStatus

\* Locking the row keeps the invariant: the checks of the operation establish
\* what Checked says of it.
LEMMA LockInv ==
  ASSUME IInv, NEW r \in Request,
         \/ AssignLock(r) \/ TransitionLock(r) \/ CompleteLock(r)
         \/ RefuseLock(r) \/ ReopenLock(r)
  PROVE  IInv'
<1> DEFINE id == call[r].tid
<1>1. TypeOK'
  BY LockType
<1>2. /\ pc[r] = "begin" /\ lock[id] = NULL
      /\ \/ Answer(r) /\ UNCHANGED lock
         \/ /\ Live(id)
            /\ pc' = [pc EXCEPT ![r] = "locked"]
            /\ row' = [row EXCEPT ![r] = tickets[id]]
            /\ lock' = [lock EXCEPT ![id] = r]
            /\ UNCHANGED <<call, note>>
      /\ UNCHANGED <<tickets, comments, userRoles>>
  BY DEF AssignLock, TransitionLock, CompleteLock, RefuseLock, ReopenLock, LockRow
<1>3. id \in TicketId /\ call[r] \in Call /\ Valid(call[r]) /\ note[r] = {}
  BY <1>2, Busy DEF IInv, RequestInv, Shape
<1>4. CASE Answer(r) /\ UNCHANGED lock
  BY <1>2, <1>4, AnswerOnly DEF InTx
<1>5. CASE ~(Answer(r) /\ UNCHANGED lock)
  <2>1. /\ Live(id) /\ pc'[r] = "locked" /\ row'[r] = tickets[id] /\ lock'[id] = r
        /\ call'[r] = call[r] /\ note'[r] = note[r]
        /\ \A t \in TicketId \ {id} : lock'[t] = lock[t]
    BY <1>2, <1>3, <1>5 DEF IInv, TypeOK
  <2>2. /\ Entitled(call[r].actor, tickets[id], Target(call[r]))
        /\ call[r].op = "reopen" => tickets[id].reopenCount < 1
    <3>1. CASE AssignLock(r)
      <4>1. /\ call[r].op = "assign"
            /\ tickets[id].status \in {"new", "reopened", "assigned"}
        BY <1>5, <3>1 DEF AssignLock, LockRow
      <4>2. CanAssign(call[r].actor)
        BY <1>3, <4>1 DEF Valid
      <4> QED
        BY <4>1, <4>2, AssignIsEntitled DEF Target
    <3>2. CASE TransitionLock(r)
      BY <1>5, <3>2 DEF TransitionLock, LockRow, Target, Entitled
    <3>3. CASE CompleteLock(r)
      BY <1>5, <3>3 DEF CompleteLock, LockRow, Target, Entitled
    <3>4. CASE RefuseLock(r)
      BY <1>5, <3>4, RefuseIsATransition DEF RefuseLock, LockRow, Target, Entitled
    <3>5. CASE ReopenLock(r)
      <4>1. call[r].op = "reopen" /\ CanReopen(call[r].actor, tickets[id])
        BY <1>5, <3>5 DEF ReopenLock, LockRow
      <4> QED
        BY <4>1, ReopenIsATransition DEF Target, Entitled, CanReopen
    <3> QED
      BY <3>1, <3>2, <3>3, <3>4, <3>5
  <2>3. Shape(r)'
    BY <1>2, <1>3, <2>1 DEF IInv, RequestInv, Shape, InTx
  <2>4. RowThere(r)'
    BY <1>2, <2>1 DEF RowThere, Live
  <2>5. Checked(r)'
    BY <1>2, <2>1, <2>2 DEF Checked
  <2>6. Saved(r)' /\ Copied(r)'
    BY <2>1 DEF Saved, Copied
  <2>7. RequestInv(r)'
    BY <2>3, <2>4, <2>5, <2>6 DEF RequestInv
  <2>8. RowConsistent' /\ RowExplained'
    BY <1>2, TablesKept
  <2>9. \A t \in TicketId : lock'[t] = r => pc'[r] \in InTx /\ call'[r].tid = t
    BY <1>2, <2>1, NoLock DEF InTx
  <2>10. \A s \in Request \ {r} : /\ pc'[s] = pc[s] /\ call'[s] = call[s]
                                  /\ row'[s] = row[s] /\ note'[s] = note[s]
    BY <1>2, <1>5 DEF IInv, TypeOK
  <2> QED
    BY <1>1, <1>2, <1>3, <2>1, <2>7, <2>8, <2>9, <2>10, Step
<1> QED
  BY <1>2, <1>4, <1>5

-----------------------------------------------------------------------------
(***************************************************************************)
(* The statements of a transaction and its commit.                         *)
(***************************************************************************)

\* What a transaction knows while it has the row locked.
LEMMA LockedRow ==
  ASSUME IInv, NEW r \in Request, pc[r] = "locked"
  PROVE  /\ call[r] \in Call /\ call[r].tid \in TicketId /\ call[r].op \in TxOp
         /\ call[r].arg \in ArgOf(call[r].op) /\ Valid(call[r])
         /\ row[r] = tickets[call[r].tid]
         /\ Publishable(row[r], call[r].tid, comments)
         /\ Entitled(call[r].actor, row[r], Target(call[r]))
         /\ call[r].op = "reopen" => row[r].reopenCount < 1
<1>1. /\ call[r] \in Call /\ call[r].tid \in TicketId
      /\ call[r].arg \in ArgOf(call[r].op)
  BY Busy
<1>2. Live(call[r].tid) /\ row[r] = tickets[call[r].tid]
  BY DEF IInv, RequestInv, RowThere, Checked, InTx
<1>3. Publishable(row[r], call[r].tid, comments)
  BY <1>1, <1>2, LiveRowPublishable
<1> QED
  BY <1>1, <1>2, <1>3 DEF IInv, RequestInv, Shape, Checked, InTx

\* An actor is entitled to a move only along the graph of transitions, or to
\* name another executor.
LEMMA EntitledEdges ==
  ASSUME NEW actor, NEW t, t.status \in TicketStatus, NEW to, Entitled(actor, t, to)
  PROVE  \/ to \in allowedTransitions[t.status]
         \/ to = "assigned" /\ t.status = "assigned"
BY DEF Entitled, CanActorTransition, CanTransition

\* The row each operation saves keeps the promises of RowOK, and is explained
\* by the comments together with the operation's own.
LEMMA SavedRow ==
  ASSUME IInv, NEW r \in Request, pc[r] = "locked",
         \/ AssignWrite(r) \/ TransitionWrite(r) \/ CompleteWrite(r)
         \/ RefuseWrite(r) \/ ReopenWrite(r)
  PROVE  /\ Publishable(row'[r], call[r].tid, comments \cup OwnComments(call[r]))
         /\ row'[r].status = Target(call[r])
         /\ row'[r].author = row[r].author /\ row'[r].content = row[r].content
         /\ pc'[r] = "comment" => call[r].op \in {"complete", "refuse"}
         /\ pc'[r] = "commit" => call[r].op \notin {"complete", "refuse"}
         /\ pc'[r] \in {"comment", "commit"}
<1> DEFINE t == row[r]  x == row'[r]  c == call[r]
<1>1. /\ t \in Ticket /\ ~t.deleted /\ RowOK(t) /\ ExplainedBy(comments, c.tid, t)
      /\ c.arg \in ArgOf(c.op) /\ Valid(c) /\ Entitled(c.actor, t, Target(c))
      /\ c.op = "reopen" => t.reopenCount < 1
  BY LockedRow DEF Publishable
<1>2. t.status \in TicketStatus
  BY <1>1 DEF Ticket
<1>3. \/ Target(c) \in allowedTransitions[t.status]
      \/ Target(c) = "assigned" /\ t.status = "assigned"
  BY <1>1, <1>2, EntitledEdges
<1>4. CASE AssignWrite(r)
  <2>1. /\ c.op = "assign" /\ c.arg \in User /\ pc'[r] = "commit"
        /\ x = [t EXCEPT !.assignee = c.arg, !.status = "assigned", !.reason = NULL]
    BY <1>1, <1>4 DEF AssignWrite, Save, ArgOf, IInv, TypeOK
  <2> HIDE DEF x, t, c
  <2>2. /\ x \in Ticket /\ x.status = "assigned" /\ x.assignee = c.arg
        /\ x.reason = NULL /\ x.rating = t.rating /\ x.reopenCount = t.reopenCount
        /\ x.author = t.author /\ x.content = t.content /\ x.deleted = t.deleted
    BY <1>1, <2>1 DEF Ticket, TicketStatus
  <2>3. RowOK(x) /\ ExplainedBy(comments \cup OwnComments(c), c.tid, x)
    BY <1>1, <2>1, <2>2, NullAssumption DEF RowOK, ExplainedBy
  <2>4. Target(c) = "assigned"
    BY <2>1 DEF Target
  <2> QED
    BY <1>1, <2>1, <2>2, <2>3, <2>4 DEF Publishable, x, t, c
<1>5. CASE TransitionWrite(r)
  <2>1. /\ c.op = "transition" /\ c.arg \in TicketStatus /\ pc'[r] = "commit"
        /\ x = [t EXCEPT !.status = c.arg]
    BY <1>1, <1>5 DEF TransitionWrite, Save, ArgOf, IInv, TypeOK
  <2>2. c.arg \in {"in_progress", "resolved", "reopened", "cancelled"}
        /\ Target(c) = c.arg
    BY <1>1, <2>1 DEF Valid, OpenToTransition, TicketStatus, Target
  <2> HIDE DEF x, t, c
  <2>3. /\ x \in Ticket /\ x.status = c.arg /\ x.assignee = t.assignee
        /\ x.reason = t.reason /\ x.rating = t.rating /\ x.reopenCount = t.reopenCount
        /\ x.author = t.author /\ x.content = t.content /\ x.deleted = t.deleted
    BY <1>1, <2>1 DEF Ticket
  <2>4. /\ c.arg = "in_progress" => t.status = "assigned"
        /\ c.arg = "resolved" => t.status = "in_progress"
        /\ c.arg = "reopened" => t.status = "closed"
        /\ c.arg = "cancelled" => t.status \in {"new", "assigned", "in_progress", "reopened"}
    BY <1>2, <1>3, <2>2 DEF allowedTransitions, TicketStatus
  <2>5. RowOK(x)
    BY <1>1, <2>2, <2>3, <2>4 DEF RowOK
  <2>6. ExplainedBy(comments \cup OwnComments(c), c.tid, x)
    BY <1>1, <2>2, <2>3, <2>4 DEF ExplainedBy
  <2> QED
    BY <1>1, <2>1, <2>2, <2>3, <2>5, <2>6 DEF Publishable, x, t, c
<1>6. CASE CompleteWrite(r)
  <2>1. /\ c.op = "complete" /\ c.arg \in Rating /\ c.arg \in 1..5
        /\ pc'[r] = "comment"
        /\ x = [t EXCEPT !.rating = c.arg, !.status = "closed"]
    BY <1>1, <1>6 DEF CompleteWrite, Save, ArgOf, Valid, RatingInRange, IInv, TypeOK
  <2>2. Target(c) = "closed" /\ t.status = "resolved"
    BY <1>2, <1>3, <2>1 DEF Target, allowedTransitions, TicketStatus
  <2>3. WorkflowComment(c) \in comments \cup OwnComments(c)
        /\ WorkflowComment(c).ticket = c.tid /\ WorkflowComment(c).kind = "closing"
    BY <2>1 DEF OwnComments, WorkflowComment
  <2> HIDE DEF x, t, c
  <2>4. /\ x \in Ticket /\ x.status = "closed" /\ x.assignee = t.assignee
        /\ x.reason = t.reason /\ x.rating = c.arg /\ x.reopenCount = t.reopenCount
        /\ x.author = t.author /\ x.content = t.content /\ x.deleted = t.deleted
    BY <1>1, <2>1 DEF Ticket, TicketStatus
  <2>5. RowOK(x)
    BY <1>1, <2>1, <2>2, <2>4 DEF RowOK
  <2>6. ExplainedBy(comments \cup OwnComments(c), c.tid, x)
    BY <1>1, <2>2, <2>3, <2>4 DEF ExplainedBy, RowOK
  <2> QED
    BY <1>1, <2>1, <2>2, <2>4, <2>5, <2>6 DEF Publishable, x, t, c
<1>7. CASE RefuseWrite(r)
  <2>1. /\ c.op = "refuse" /\ c.arg \in Text /\ pc'[r] = "comment"
        /\ x = [t EXCEPT !.reason = c.arg, !.assignee = NULL, !.status = "new"]
    BY <1>1, <1>7 DEF RefuseWrite, Save, ArgOf, IInv, TypeOK
  <2>2. Target(c) = "new"
    BY <2>1 DEF Target
  <2>3. WorkflowComment(c) \in comments \cup OwnComments(c)
        /\ WorkflowComment(c).ticket = c.tid /\ WorkflowComment(c).kind = "refusal"
        /\ WorkflowComment(c).reason = c.arg
    BY <2>1 DEF OwnComments, WorkflowComment
  <2> HIDE DEF x, t, c
  <2>4. /\ x \in Ticket /\ x.status = "new" /\ x.assignee = NULL
        /\ x.reason = c.arg /\ x.rating = t.rating /\ x.reopenCount = t.reopenCount
        /\ x.author = t.author /\ x.content = t.content /\ x.deleted = t.deleted
    BY <1>1, <2>1 DEF Ticket, TicketStatus
  <2>5. RowOK(x)
    BY <1>1, <2>4 DEF RowOK
  <2>6. ExplainedBy(comments \cup OwnComments(c), c.tid, x)
    BY <1>1, <2>3, <2>4 DEF ExplainedBy
  <2> QED
    BY <1>1, <2>1, <2>2, <2>4, <2>5, <2>6 DEF Publishable, x, t, c
<1>8. CASE ReopenWrite(r)
  <2>1. /\ c.op = "reopen" /\ pc'[r] = "commit"
        /\ x = [t EXCEPT !.status = "reopened", !.reopenCount = @ + 1, !.rating = NULL]
    BY <1>1, <1>8 DEF ReopenWrite, Save, IInv, TypeOK
  <2>2. Target(c) = "reopened" /\ t.status = "closed"
    BY <1>2, <1>3, <2>1 DEF Target, allowedTransitions, TicketStatus
  <2> DEFINE n == t.reopenCount + 1
  <2>3. t.reopenCount \in Nat /\ n \in Nat
    BY <1>1 DEF Ticket
  <2>4. x = [t EXCEPT !.status = "reopened", !.reopenCount = n, !.rating = NULL]
    BY <2>1
  <2> HIDE DEF x, t, c, n
  <2>5. /\ x \in Ticket /\ x.status = "reopened" /\ x.assignee = t.assignee
        /\ x.reason = t.reason /\ x.rating = NULL /\ x.reopenCount = n
        /\ x.author = t.author /\ x.content = t.content /\ x.deleted = t.deleted
    BY <1>1, <2>3, <2>4 DEF Ticket, TicketStatus
  <2>6. RowOK(x)
    BY <1>1, <2>1, <2>2, <2>3, <2>5 DEF RowOK, n
  <2>7. ExplainedBy(comments \cup OwnComments(c), c.tid, x)
    BY <1>1, <2>2, <2>5 DEF ExplainedBy
  <2> QED
    BY <1>1, <2>1, <2>2, <2>5, <2>6, <2>7 DEF Publishable, x, t, c
<1> QED
  BY <1>4, <1>5, <1>6, <1>7, <1>8

\* Writing the row inside the transaction keeps the invariant.
LEMMA SaveInv ==
  ASSUME IInv, NEW r \in Request,
         \/ AssignWrite(r) \/ TransitionWrite(r) \/ CompleteWrite(r)
         \/ RefuseWrite(r) \/ ReopenWrite(r)
  PROVE  IInv'
<1>1. /\ pc[r] = "locked" /\ UNCHANGED <<tickets, comments, userRoles, lock, call, note>>
      /\ \E x : row' = [row EXCEPT ![r] = x]
      /\ \E p : pc' = [pc EXCEPT ![r] = p]
  BY DEF AssignWrite, TransitionWrite, CompleteWrite, RefuseWrite, ReopenWrite, Save
<1>2. /\ Publishable(row'[r], call[r].tid, comments \cup OwnComments(call[r]))
      /\ row'[r].status = Target(call[r])
      /\ row'[r].author = row[r].author /\ row'[r].content = row[r].content
      /\ pc'[r] = "comment" => call[r].op \in {"complete", "refuse"}
      /\ pc'[r] = "commit" => call[r].op \notin {"complete", "refuse"}
      /\ pc'[r] \in {"comment", "commit"}
  BY <1>1, SavedRow
<1>3. /\ call[r].op \in TxOp /\ row[r] = tickets[call[r].tid] /\ Valid(call[r])
      /\ Entitled(call[r].actor, row[r], Target(call[r]))
  BY <1>1, LockedRow
<1>4. TypeOK'
  BY <1>1, <1>2 DEF IInv, TypeOK, Publishable, InTx
<1>5. Shape(r)'
  BY <1>1, <1>2, <1>3 DEF IInv, RequestInv, Shape, InTx
<1>6. RowThere(r)'
  BY <1>1, <1>2 DEF IInv, RequestInv, RowThere, InTx, Live
<1>7. Checked(r)' /\ Copied(r)'
  BY <1>2 DEF Checked, Copied
<1>8. Saved(r)'
  <2>1. note[r] = {}
    BY <1>1 DEF IInv, RequestInv, Shape
  <2>2. row'[r] = After(call[r], row[r])
    BY <1>1 DEF After, AssignWrite, TransitionWrite, CompleteWrite, RefuseWrite,
                ReopenWrite, Save, IInv, TypeOK
  <2> QED
    BY <1>1, <1>2, <1>3, <2>1, <2>2 DEF Saved, OwnComments
<1>9. RequestInv(r)'
  BY <1>5, <1>6, <1>7, <1>8 DEF RequestInv
<1> QED
  BY <1>1, <1>2, <1>4, <1>9, OwnStep DEF InTx, IInv, TypeOK

\* The comment of Complete and of Refuse is a row of comments.
LEMMA WorkflowCommentType ==
  ASSUME NEW c \in Call, c.op \in {"complete", "refuse"}
  PROVE  WorkflowComment(c) \in Comment
<1>1. c.tid \in TicketId /\ c.actor.user \in User
  BY CallFields DEF Actor
<1>2. c.op = "refuse" => c.arg \in Text
  BY CallFields DEF ArgOf
<1> QED
  BY <1>1, <1>2 DEF WorkflowComment, Comment

\* Adding the comment inside the transaction keeps the invariant.
LEMMA AddCommentInv ==
  ASSUME IInv, NEW r \in Request, AddCommentInTx(r)
  PROVE  IInv'
<1>1. /\ pc[r] = "comment" /\ UNCHANGED <<tickets, comments, userRoles, lock, call, row>>
      /\ note' = [note EXCEPT ![r] = {WorkflowComment(call[r])}]
      /\ pc' = [pc EXCEPT ![r] = "commit"]
  BY DEF AddCommentInTx
<1>2. /\ pc'[r] = "commit" /\ note'[r] = {WorkflowComment(call[r])}
      /\ call[r].op \in {"complete", "refuse"} /\ call[r] \in Call
  BY <1>1, Busy DEF IInv, TypeOK, RequestInv, Shape
<1>3. TypeOK'
  BY <1>1, <1>2, WorkflowCommentType DEF IInv, TypeOK, InTx
<1>4. Shape(r)'
  BY <1>1, <1>2 DEF IInv, RequestInv, Shape, InTx
<1>5. RowThere(r)'
  BY <1>1, <1>2 DEF IInv, RequestInv, RowThere, InTx, Live
<1>6. Checked(r)' /\ Copied(r)'
  BY <1>2 DEF Checked, Copied
<1>7. Saved(r)'
  BY <1>1, <1>2 DEF IInv, RequestInv, Saved, OwnComments
<1>8. RequestInv(r)'
  BY <1>4, <1>5, <1>6, <1>7 DEF RequestInv
<1> QED
  BY <1>1, <1>2, <1>3, <1>8, OwnStep DEF InTx, IInv, TypeOK

\* Commit keeps the invariant: row and comment become visible together.
LEMMA CommitInv ==
  ASSUME IInv, NEW r \in Request, Commit(r)
  PROVE  IInv'
<1> DEFINE id == call[r].tid
<1>1. /\ pc[r] = "commit" /\ UNCHANGED <<userRoles, call>> /\ Release(r)
      /\ tickets' = [tickets EXCEPT ![id] = row[r]]
      /\ comments' = comments \cup note[r]
      /\ pc' = [pc EXCEPT ![r] = "notify"]
      /\ row' = [row EXCEPT ![r] = NULL]
      /\ note' = [note EXCEPT ![r] = {}]
  BY DEF Commit
<1>2. id \in TicketId
  BY <1>1, Busy
<1>3. /\ Publishable(row[r], id, comments') /\ lock[id] = r /\ Valid(call[r])
      /\ call[r] # NULL /\ call[r].op \in TxOp
  BY <1>1 DEF IInv, RequestInv, Saved, RowThere, Shape, InTx
<1>4. TypeOK'
  BY <1>1, <1>2, <1>3, ReleaseType DEF IInv, TypeOK, Publishable, InTx
<1>5. /\ tickets'[id] = row[r] /\ \A t \in TicketId \ {id} : tickets'[t] = tickets[t]
      /\ pc'[r] = "notify" /\ note'[r] = {} /\ call'[r] = call[r]
  BY <1>1, <1>2 DEF IInv, TypeOK
<1>6. RowConsistent'
  BY <1>3, <1>5 DEF IInv, RowConsistent, Publishable
<1>7. RowExplained'
  <2> SUFFICES ASSUME NEW t \in TicketId, tickets'[t] # NULL
               PROVE  ExplainedBy(comments', t, tickets'[t])
    BY DEF RowExplained
  <2>1. CASE t = id
    BY <1>3, <1>5, <2>1 DEF Publishable
  <2>2. CASE t # id
    BY <1>1, <1>5, <2>2, ExplainedMono DEF IInv, RowExplained
  <2> QED
    BY <2>1, <2>2
<1>8. RequestInv(r)'
  BY <1>3, <1>5 DEF RequestInv, Shape, RowThere, Checked, Saved, Copied, InTx
<1>9. \A t \in TicketId : lock[t] = r \/ lock'[t] = lock[t]
  BY <1>1 DEF Release
<1>10. \A t \in TicketId : lock'[t] # r
  BY <1>1, RequestAssumption DEF Release
<1>11. \A t \in TicketId : tickets[t] # NULL => tickets'[t] # NULL
  BY <1>3, <1>5, NullAssumption DEF Publishable
<1>12. \A t \in TicketId : lock'[t] # NULL => lock'[t] = lock[t]
  BY <1>1 DEF Release
<1>13. \A t \in TicketId : lock[t] # r => tickets'[t] = tickets[t]
  BY <1>3, <1>5
<1>14. \A s \in Request \ {r} : /\ pc'[s] = pc[s] /\ call'[s] = call[s]
                                /\ row'[s] = row[s] /\ note'[s] = note[s]
  BY <1>1 DEF IInv, TypeOK
<1> QED
  BY <1>1, <1>4, <1>6, <1>7, <1>8, <1>9, <1>10, <1>11, <1>12, <1>13, <1>14, Step

-----------------------------------------------------------------------------
(***************************************************************************)
(* Answers, failures and the admin service.                                *)
(***************************************************************************)

\* Notifying keeps the invariant.
LEMMA NotifyInv ==
  ASSUME IInv, NEW r \in Request, Notify(r)
  PROVE  IInv'
BY AnswerOnly DEF Notify, InTx

\* An abort keeps the invariant, at whatever point it comes.
LEMMA AbortInv ==
  ASSUME IInv, NEW r \in Request, Abort(r) \/ AssignReject(r)
  PROVE  IInv'
BY RollbackInv DEF Abort, AssignReject

\* A crash keeps the invariant.
LEMMA CrashInv ==
  ASSUME IInv, Crash
  PROVE  IInv'
<1>1. /\ UNCHANGED <<tickets, comments, userRoles>>
      /\ \A r \in Request : pc'[r] = "idle" /\ call'[r] = NULL /\ note'[r] = {}
      /\ \A t \in TicketId : lock'[t] = NULL
  BY DEF Crash
<1>2. TypeOK'
  BY DEF Crash, IInv, TypeOK
<1>3. \A r \in Request : RequestInv(r)'
  BY <1>1 DEF RequestInv, Shape, RowThere, Checked, Saved, Copied, InTx
<1>4. \A t \in TicketId : LockUsed(t)'
  BY <1>1 DEF LockUsed
<1>5. RowConsistent' /\ RowExplained'
  BY <1>1, TablesKept
<1> QED
  BY <1>2, <1>3, <1>4, <1>5 DEF IInv

\* A change of roles keeps the invariant: nothing in it looks at userRoles.
LEMMA ChangeRolesInv ==
  ASSUME IInv, UNCHANGED <<tickets, comments, lock, pc, call, row, note>>,
         userRoles' \in RoleTables \/ UNCHANGED userRoles
  PROVE  IInv'
<1>1. TypeOK'
  BY RoleAssumption DEF IInv, TypeOK
<1>2. \A r \in Request : RequestInv(r)'
  BY DEF IInv, RequestInv, Shape, RowThere, Checked, Saved, Copied, Live
<1>3. \A t \in TicketId : LockUsed(t)'
  BY DEF IInv, LockUsed
<1>4. RowConsistent' /\ RowExplained'
  BY TablesKept
<1> QED
  BY <1>1, <1>2, <1>3, <1>4 DEF IInv

-----------------------------------------------------------------------------
(***************************************************************************)
(* The theorems.                                                           *)
(***************************************************************************)

\* Every step keeps the invariant.
LEMMA NextInv == IInv /\ [Next]_vars => IInv'
<1> SUFFICES ASSUME IInv, [Next]_vars PROVE IInv'
  OBVIOUS
<1>1. CASE UNCHANGED vars
  BY <1>1, ChangeRolesInv DEF vars
<1>2. ASSUME NEW r \in Request, NEW in \in Input, Arrive(r, in) PROVE IInv'
  BY <1>2, ArriveInv
<1>3. ASSUME NEW r \in Request, Locking(r) PROVE IInv'
  BY <1>3, LockInv, StatementInv DEF Locking
<1>4. ASSUME NEW r \in Request, Working(r) PROVE IInv'
  BY <1>4, InsertInv, ReadInv, SaveInv, AbortInv, AddCommentInv, CommitInv, NotifyInv
  DEF Working
<1>5. ASSUME NEW r \in Request, Abort(r) PROVE IInv'
  BY <1>5, AbortInv
<1>6. CASE Crash
  BY <1>6, CrashInv
<1>7. CASE ChangeRoles
  BY <1>7, ChangeRolesInv DEF ChangeRoles
<1> QED
  BY <1>1, <1>2, <1>3, <1>4, <1>5, <1>6, <1>7 DEF Next

\* Every reachable state satisfies the inductive invariant.
THEOREM Invariance == Spec => []IInv
BY InitInv, NextInv, PTL DEF Spec

\* The tables and the requests always have their types.
THEOREM TypeCorrect == Spec => []TypeOK
<1>1. IInv => TypeOK
  BY DEF IInv
<1> QED
  BY <1>1, Invariance, PTL

\* A row's status, assignee, refusal reason, rating and reopen count never
\* contradict each other, stale PATCHes, aborts and crashes included.
THEOREM RowsStayConsistent == Spec => []RowConsistent
<1>1. IInv => RowConsistent
  BY DEF IInv
<1> QED
  BY <1>1, Invariance, PTL

\* Complete and Refuse publish the row and the comment that explains it
\* together or not at all.
THEOREM RowsStayExplained == Spec => []RowExplained
<1>1. IInv => RowExplained
  BY DEF IInv
<1> QED
  BY <1>1, Invariance, PTL

\* What SELECT FOR UPDATE returned is still the row when the transaction
\* writes.
THEOREM LocksProtect == Spec => []LockedCopyFresh
<1>1. IInv => LockedCopyFresh
  BY DEF IInv, RequestInv, RowThere, Checked, LockedCopyFresh, InTx
<1> QED
  BY <1>1, Invariance, PTL

-----------------------------------------------------------------------------
(***************************************************************************)
(* What no step does.                                                      *)
(***************************************************************************)

\* The steps that write the tables.
LEMMA Writers ==
  ASSUME Next
  PROVE  \/ UNCHANGED <<tickets, comments>>
         \/ \E r \in Request :
              \/ Insert(r) \/ UpdateWrite(r) \/ DeleteWrite(r) \/ CommentWrite(r)
              \/ Commit(r)
BY DEF Next, Arrive, Locking, Working, Abort, Crash, ChangeRoles,
       AssignLock, TransitionLock, CompleteLock, RefuseLock, ReopenLock, LockRow,
       UpdateRead, DeleteRead, CommentRead, Read, CancelRead,
       AssignWrite, AssignReject, TransitionWrite, CompleteWrite, RefuseWrite,
       ReopenWrite, Save, AddCommentInTx, Notify

\* What each of them does to the row and the comments of a ticket in the table.
LEMMA WritersStep ==
  ASSUME IInv, NEW r \in Request, NEW t \in TicketId, tickets[t] # NULL,
         \/ Insert(r) \/ UpdateWrite(r) \/ DeleteWrite(r) \/ CommentWrite(r)
         \/ Commit(r)
  PROVE  \/ /\ tickets'[t] = tickets[t]
            /\ \A c \in comments' \ comments : c.ticket = t => c.kind = "user"
         \/ /\ UpdateWrite(r) /\ call[r].tid = t /\ Live(t)
            /\ tickets'[t] = [row[r] EXCEPT !.content = Patched(@, call[r].arg)]
         \/ /\ DeleteWrite(r) /\ call[r].tid = t /\ Live(t)
            /\ tickets'[t] = [tickets[t] EXCEPT !.deleted = TRUE]
         \/ /\ Commit(r) /\ call[r].tid = t /\ Live(t)
            /\ tickets'[t] = row[r] /\ row[r].content = tickets[t].content
<1>1. CASE Insert(r)
  BY <1>1 DEF Insert, IInv, TypeOK
<1>2. CASE UpdateWrite(r)
  BY <1>2, Busy DEF UpdateWrite, Statement, IInv, TypeOK
<1>3. CASE DeleteWrite(r)
  BY <1>3, Busy DEF DeleteWrite, Statement, IInv, TypeOK
<1>4. CASE CommentWrite(r)
  BY <1>4 DEF CommentWrite
<1>5. CASE Commit(r)
  <2>1. /\ call[r].tid \in TicketId /\ Live(call[r].tid)
        /\ row[r].content = tickets[call[r].tid].content
        /\ note[r] = OwnComments(call[r])
    BY <1>5, Busy DEF Commit, IInv, RequestInv, RowThere, Saved, InTx
  <2>2. \A c \in note[r] : c.ticket = call[r].tid
    BY <2>1 DEF OwnComments, WorkflowComment
  <2>3. tickets' = [tickets EXCEPT ![call[r].tid] = row[r]]
        /\ comments' = comments \cup note[r]
    BY <1>5 DEF Commit
  <2> QED
    BY <1>5, <2>1, <2>2, <2>3 DEF IInv, TypeOK
<1> QED
  BY <1>1, <1>2, <1>3, <1>4, <1>5

\* No step changes or explains a deleted ticket.
LEMMA DeletedStep == IInv /\ [Next]_vars => [DeletedStays]_vars
<1> SUFFICES ASSUME IInv, Next, NEW t \in TicketId,
                    tickets[t] # NULL, tickets[t].deleted
             PROVE  /\ tickets'[t] = tickets[t]
                    /\ \A c \in comments' \ comments : c.ticket = t => c.kind = "user"
  BY DEF DeletedStays
<1>1. CASE UNCHANGED <<tickets, comments>>
  BY <1>1
<1>2. ASSUME NEW r \in Request,
             \/ Insert(r) \/ UpdateWrite(r) \/ DeleteWrite(r) \/ CommentWrite(r)
             \/ Commit(r)
      PROVE  /\ tickets'[t] = tickets[t]
             /\ \A c \in comments' \ comments : c.ticket = t => c.kind = "user"
  BY <1>2, WritersStep DEF Live
<1> QED
  BY <1>1, <1>2, Writers

\* No request under way when a ticket is deleted changes it, or comments on a
\* move of it, afterwards.
THEOREM DeletionIsFinal == Spec => DeletedIsFinal
BY Invariance, DeletedStep, PTL DEF Spec, DeletedIsFinal

\* No step but an Update's changes the descriptive columns.
LEMMA EditStep == IInv /\ [Next]_vars => [EditByUpdate]_vars
<1> SUFFICES ASSUME IInv, Next, NEW t \in TicketId, tickets[t] # NULL,
                    tickets'[t].content # tickets[t].content
             PROVE  \E r \in Request :
                      /\ pc[r] = "write" /\ call[r].op = "update" /\ call[r].tid = t
                      /\ \A k \in DOMAIN call[r].arg :
                           tickets'[t].content[k] = call[r].arg[k]
  BY DEF EditByUpdate
<1>1. PICK r \in Request :
        \/ Insert(r) \/ UpdateWrite(r) \/ DeleteWrite(r) \/ CommentWrite(r)
        \/ Commit(r)
  BY Writers
<1>2. CASE /\ DeleteWrite(r) /\ call[r].tid = t /\ Live(t)
           /\ tickets'[t] = [tickets[t] EXCEPT !.deleted = TRUE]
  <2>1. tickets[t] \in Ticket
    BY <1>2, LiveRow DEF IInv
  <2> QED
    BY <1>2, <2>1 DEF Ticket
<1>3. CASE /\ UpdateWrite(r) /\ call[r].tid = t /\ Live(t)
           /\ tickets'[t] = [row[r] EXCEPT !.content = Patched(@, call[r].arg)]
  <2>1. pc[r] = "write" /\ call[r].op = "update" /\ call[r].arg \in Patch
    BY <1>3, Busy DEF UpdateWrite, Statement, ArgOf
  <2>2. row[r] \in Ticket
    BY <2>1 DEF IInv, RequestInv, Copied, Publishable
  <2>3. tickets'[t].content = Patched(row[r].content, call[r].arg)
    BY <1>3, <2>2 DEF Ticket
  <2>4. DOMAIN call[r].arg \subseteq Column
    BY <2>1 DEF Patch
  <2>5. \A k \in DOMAIN call[r].arg : tickets'[t].content[k] = call[r].arg[k]
    BY <2>3, <2>4 DEF Patched
  <2> QED
    BY <1>3, <2>1, <2>5
<1> QED
  BY <1>1, <1>2, <1>3, WritersStep

\* A workflow operation that writes every column back never undoes an edit.
THEOREM EditsAreKept == Spec => WorkflowKeepsEdits
BY Invariance, EditStep, PTL DEF Spec, WorkflowKeepsEdits

\* Only Commit takes a request from "commit" to "notify".
LEMMA CommitOnly ==
  ASSUME IInv, Next, NEW r \in Request, pc[r] = "commit", pc'[r] = "notify"
  PROVE  Commit(r)
<1>1. ASSUME NEW s \in Request, NEW in \in Input, Arrive(s, in) PROVE Commit(r)
  BY <1>1 DEF Arrive, IInv, TypeOK
<1>2. ASSUME NEW s \in Request, Locking(s) PROVE Commit(r)
  BY <1>2 DEF Locking, AssignLock, TransitionLock, CompleteLock, RefuseLock,
     ReopenLock, LockRow, UpdateWrite, DeleteWrite, CommentWrite, Statement,
     Answer, IInv, TypeOK
<1>3. ASSUME NEW s \in Request, Working(s), s # r PROVE Commit(r)
  BY <1>3 DEF Working, Insert, UpdateRead, DeleteRead, CommentRead, Read, CancelRead,
     AssignWrite, AssignReject, TransitionWrite, CompleteWrite, RefuseWrite,
     ReopenWrite, Save, AddCommentInTx, Commit, Notify, Answer, IInv, TypeOK
<1>4. CASE Working(r)
  BY <1>4 DEF Working, Insert, UpdateRead, DeleteRead, CommentRead, Read, CancelRead,
     AssignWrite, AssignReject, TransitionWrite, CompleteWrite, RefuseWrite,
     ReopenWrite, Save, AddCommentInTx, Notify
<1>5. ASSUME NEW s \in Request, Abort(s) PROVE Commit(r)
  BY <1>5 DEF Abort, Answer, IInv, TypeOK
<1>6. CASE Crash
  BY <1>6 DEF Crash
<1>7. CASE ChangeRoles
  BY <1>7 DEF ChangeRoles
<1> QED
  BY <1>1, <1>2, <1>3, <1>4, <1>5, <1>6, <1>7 DEF Next

\* A commit is a move its actor is entitled to.
LEMMA EntitledStep == IInv /\ [Next]_vars => [EntitledCommit]_vars
<1> SUFFICES ASSUME IInv, Next, NEW r \in Request, pc[r] = "commit", pc'[r] = "notify"
             PROVE  /\ Live(call[r].tid) /\ ~tickets'[call[r].tid].deleted
                    /\ tickets'[call[r].tid].author = tickets[call[r].tid].author
                    /\ Entitled(call[r].actor, tickets[call[r].tid],
                                tickets'[call[r].tid].status)
  BY DEF EntitledCommit
<1>1. tickets' = [tickets EXCEPT ![call[r].tid] = row[r]]
  BY CommitOnly DEF Commit
<1>2. tickets'[call[r].tid] = row[r]
  BY <1>1, Busy DEF IInv, TypeOK
<1> QED
  BY <1>2 DEF IInv, RequestInv, Saved, RowThere, Publishable, InTx

\* The check an operation made under the lock is still right when it commits.
THEOREM CommitsStayEntitled == Spec => CommitsAreEntitled
BY Invariance, EntitledStep, PTL DEF Spec, CommitsAreEntitled

-----------------------------------------------------------------------------
(***************************************************************************)
(* The access rules judge some moves twice.                                *)
(***************************************************************************)

\* The rule of each operation admits only moves of the status graph that
\* CanActorTransition admits for the same actor and row, so the second check of
\* Complete and Refuse rejects nobody; and Cancel's check of the unlocked row
\* rejects nobody whom Transition would let cancel.
THEOREM RulesAgree ==
  ASSUME NEW actor, NEW t, t.status \in TicketStatus
  PROVE  /\ CanComplete(actor, t) => CanActorTransition(actor, t.status, "closed", t)
         /\ CanRefuse(actor, t) => CanActorTransition(actor, t.status, "new", t)
         /\ CanReopen(actor, t) => CanActorTransition(actor, t.status, "reopened", t)
         /\ CanActorTransition(actor, t.status, "cancelled", t) => CanCancel(actor, t)
<1>1. /\ "closed" \in allowedTransitions["resolved"]
      /\ "new" \in allowedTransitions["assigned"] /\ "new" \in allowedTransitions["in_progress"]
      /\ "reopened" \in allowedTransitions["closed"]
      /\ "cancelled" \notin allowedTransitions["closed"]
      /\ "cancelled" \notin allowedTransitions["cancelled"]
  BY DEF allowedTransitions, TicketStatus
<1> QED
  BY <1>1 DEF CanComplete, CanRefuse, CanReopen, CanCancel, CanActorTransition, CanTransition,
     IsAdmin, HasRole

\* Who is entitled to a move may view the ticket.
LEMMA EntitledSee ==
  ASSUME NEW actor, NEW t, NEW to, Entitled(actor, t, to)
  PROVE  CanViewTicket(actor, t)
BY DEF Entitled, CanActorTransition, CanReopen, CanAssign, CanViewTicket, CanListAllTickets,
   IsAdmin, HasRole

\* The workflow operations look at the status graph and not at CanViewTicket;
\* still nobody moves a ticket that he could not view when the move commits.
THEOREM MoversAreViewers ==
  Spec => [][\A r \in Request : pc[r] = "commit" /\ pc'[r] = "notify" =>
               CanViewTicket(call[r].actor, tickets[call[r].tid])]_vars
<1>1. EntitledCommit =>
        \A r \in Request : pc[r] = "commit" /\ pc'[r] = "notify" =>
          CanViewTicket(call[r].actor, tickets[call[r].tid])
  BY EntitledSee DEF EntitledCommit
<1>2. [EntitledCommit]_vars =>
        [\A r \in Request : pc[r] = "commit" /\ pc'[r] = "notify" =>
           CanViewTicket(call[r].actor, tickets[call[r].tid])]_vars
  BY <1>1
<1> QED
  BY <1>2, CommitsStayEntitled, PTL DEF CommitsAreEntitled

-----------------------------------------------------------------------------
(***************************************************************************)
(* Waiting.                                                                *)
(***************************************************************************)

\* Where a request asks for a row lock: SELECT ... FOR UPDATE, and the single
\* statements that write the row or refer to it.
Asks(r) == pc[r] = "begin" \/ (pc[r] = "write" /\ call[r].op # "create")

\* Requests never wait for each other in a chain, let alone in a circle, however
\* many there are: who waits for a row waits for a transaction on the same ticket
\* that has its lock already and asks for no other, and that holds one lock only.
\* The detector of deadlocks has nothing to do here (it has in TicketLinks).  This
\* is about the locks of this module; the INSERT of a Link takes KEY SHARE locks on
\* two tickets for its foreign keys, which are left out.
THEOREM WaitsAreShort ==
  Spec => [](\A r \in Request :
               Asks(r) /\ lock[call[r].tid] # NULL =>
                 \E s \in Request \ {r} :
                   /\ lock[call[r].tid] = s /\ ~Asks(s) /\ pc[s] \in InTx
                   /\ \A t \in TicketId : lock[t] = s => t = call[r].tid)
<1>1. ASSUME IInv, NEW r \in Request, Asks(r), lock[call[r].tid] # NULL
      PROVE  \E s \in Request \ {r} :
               /\ lock[call[r].tid] = s /\ ~Asks(s) /\ pc[s] \in InTx
               /\ \A t \in TicketId : lock[t] = s => t = call[r].tid
  <2> DEFINE s == lock[call[r].tid]
  <2>1. call[r].tid \in TicketId
    BY <1>1, Busy DEF Asks
  <2>2. s \in Request /\ pc[s] \in InTx /\ call[s].tid = call[r].tid
    BY <1>1, <2>1 DEF IInv, TypeOK, LockUsed
  <2>3. ~Asks(s)
    BY <2>2 DEF Asks, InTx
  <2>4. ASSUME NEW t \in TicketId, lock[t] = s PROVE t = call[r].tid
    <3>1. lock[t] # NULL /\ call[lock[t]].tid = t
      BY <1>1, <2>4 DEF IInv, LockUsed
    <3> QED
      BY <2>2, <2>4, <3>1
  <2> QED
    BY <1>1, <2>2, <2>3, <2>4
<1>2. IInv => (\A r \in Request :
                 Asks(r) /\ lock[call[r].tid] # NULL =>
                   \E s \in Request \ {r} :
                     /\ lock[call[r].tid] = s /\ ~Asks(s) /\ pc[s] \in InTx
                     /\ \A t \in TicketId : lock[t] = s => t = call[r].tid)
  BY <1>1
<1> QED
  BY <1>2, Invariance, PTL
=============================================================================
