--------------------------- MODULE RefinementProofs ---------------------------
(***************************************************************************)
(* TicketService implements the serial TicketLifecycle: each write of the  *)
(* tables is one step of it, unless it is an Update's whose copy of the    *)
(* row is out of date.                                                     *)
(***************************************************************************)
EXTENDS TicketServiceProofs

\* No request is an Update.
NoUpdate == \A r \in Request : call[r] # NULL => call[r].op # "update"

\* No request is an Update at first.
LEMMA NoUpdateInit == Init => NoUpdate
BY DEF Init, NoUpdate

\* Only Cancel changes the operation of a request, and to transition.
LEMMA NoUpdateStep ==
  ASSUME \A in \in Input : in.op # "update"
  PROVE  IInv /\ NoUpdate /\ [Next]_vars => NoUpdate'
<1> SUFFICES ASSUME IInv, NoUpdate, [Next]_vars, NEW r \in Request, call'[r] # NULL
             PROVE  call'[r].op # "update"
  BY DEF NoUpdate
<1>1. CASE UNCHANGED vars
  BY <1>1 DEF vars, NoUpdate
<1>2. ASSUME NEW s \in Request, NEW in \in Input, Arrive(s, in)
      PROVE  call'[r].op # "update"
  BY <1>2 DEF Arrive, IInv, TypeOK, NoUpdate
<1>3. ASSUME NEW s \in Request, CancelRead(s) PROVE call'[r].op # "update"
  <2>1. CASE Answer(s)
    BY <2>1 DEF Answer, IInv, TypeOK, NoUpdate
  <2>2. CASE ~Answer(s)
    <3> DEFINE c == [call[s] EXCEPT !.op = "transition", !.arg = "cancelled"]
    <3>1. call' = [call EXCEPT ![s] = c]
      BY <1>3, <2>2 DEF CancelRead, IInv, TypeOK
    <3>2. c.op = "transition"
      BY <1>3, Busy, CallCancelled DEF CancelRead
    <3> HIDE DEF c
    <3> QED
      BY <3>1, <3>2 DEF IInv, TypeOK, NoUpdate
  <2> QED
    BY <2>1, <2>2
<1>4. ASSUME NEW s \in Request,
             Locking(s) \/ (Working(s) /\ ~CancelRead(s)) \/ Abort(s)
      PROVE  Answer(s) \/ UNCHANGED call
  BY <1>4 DEF Locking, AssignLock, TransitionLock, CompleteLock, RefuseLock, ReopenLock,
     LockRow, UpdateWrite, DeleteWrite, CommentWrite, Statement,
     Working, Insert, UpdateRead, DeleteRead, CommentRead, Read,
     AssignWrite, AssignReject, TransitionWrite, CompleteWrite, RefuseWrite,
     ReopenWrite, Save, AddCommentInTx, Commit, Notify, Abort
<1>5. ASSUME NEW s \in Request, Answer(s) \/ UNCHANGED call
      PROVE  call'[r].op # "update"
  BY <1>5 DEF Answer, IInv, TypeOK, NoUpdate
<1>6. CASE Crash
  BY <1>6 DEF Crash
<1>7. CASE ChangeRoles
  BY <1>7 DEF ChangeRoles, NoUpdate
<1> QED
  BY <1>1, <1>2, <1>3, <1>4, <1>5, <1>6, <1>7 DEF Next

-----------------------------------------------------------------------------

\* Create is the creation of the serial life, or a stutter.
LEMMA InsertRefines ==
  ASSUME IInv, NEW r \in Request, Insert(r)
  PROVE  Lifecycle!Next \/ UNCHANGED Lifecycle!vars
<1>1. call[r].actor.user \in User /\ call[r].arg \in [Column -> Text]
  BY Busy DEF Insert, Actor, ArgOf
<1>2. CASE UNCHANGED tickets
  BY <1>2 DEF Insert, Lifecycle!vars
<1>3. CASE \E t \in TicketId :
             /\ tickets[t] = NULL
             /\ tickets' = [tickets EXCEPT
                             ![t] = NewTicket(call[r].actor.user, call[r].arg)]
  <2>1. PICK t \in TicketId :
          /\ tickets[t] = NULL
          /\ tickets' = [tickets EXCEPT
                          ![t] = NewTicket(call[r].actor.user, call[r].arg)]
    BY <1>3
  <2>2. Lifecycle!Create(t, call[r].actor.user, call[r].arg)
    BY <2>1 DEF Insert, Lifecycle!Create, NewTicket, Lifecycle!NewTicket
  <2> QED
    BY <1>1, <2>2 DEF Lifecycle!Next, Lifecycle!Column, Column
<1> QED
  BY <1>2, <1>3 DEF Insert

\* The UPDATE of a PATCH whose copy is the row is the edit of the serial life, or
\* a stutter.
LEMMA UpdateRefines ==
  ASSUME IInv, NEW r \in Request, UpdateWrite(r), row[r] = tickets[call[r].tid]
  PROVE  Lifecycle!Next \/ UNCHANGED Lifecycle!vars
<1>1. call[r].tid \in TicketId /\ call[r].arg \in Patch
  BY Busy DEF UpdateWrite, Statement, ArgOf
<1>2. CASE Live(call[r].tid)
  <2>1. tickets[call[r].tid].status \in TicketStatus
    BY <1>1, <1>2, LiveRow DEF IInv, Ticket
  <2>2. /\ tickets' = [tickets EXCEPT ![call[r].tid] =
                         [tickets[call[r].tid] EXCEPT !.content = Patched(@, call[r].arg)]]
        /\ UNCHANGED comments
    BY <1>2 DEF UpdateWrite
  <2>3. Lifecycle!Edit(call[r].tid, call[r].arg)
    BY <1>2, <2>1, <2>2 DEF Live, Lifecycle!Edit, Lifecycle!In,
       TicketStatus, Lifecycle!TicketStatus, Patched, Lifecycle!Patched, Column, Lifecycle!Column
  <2> QED
    BY <1>1, <2>3 DEF Lifecycle!Next, Lifecycle!Patch, Lifecycle!Column, Patch, Column
<1>3. CASE ~Live(call[r].tid)
  BY <1>3 DEF UpdateWrite, Lifecycle!vars
<1> QED
  BY <1>2, <1>3

\* The UPDATE of Delete is the deletion of the serial life, or a stutter.
LEMMA DeleteRefines ==
  ASSUME IInv, NEW r \in Request, DeleteWrite(r)
  PROVE  Lifecycle!Next \/ UNCHANGED Lifecycle!vars
<1>1. call[r].tid \in TicketId
  BY Busy DEF DeleteWrite, Statement
<1>2. CASE Live(call[r].tid)
  <2>1. tickets[call[r].tid].status \in TicketStatus
    BY <1>1, <1>2, LiveRow DEF IInv, Ticket
  <2>2. Lifecycle!Delete(call[r].tid)
    BY <1>2, <2>1 DEF DeleteWrite, Live, Lifecycle!Delete, Lifecycle!In,
       TicketStatus, Lifecycle!TicketStatus
  <2> QED
    BY <1>1, <2>2 DEF Lifecycle!Next
<1>3. CASE ~Live(call[r].tid)
  BY <1>3 DEF DeleteWrite, Lifecycle!vars
<1> QED
  BY <1>2, <1>3

\* The INSERT of AddComment is the comment of the serial life.
LEMMA CommentRefines ==
  ASSUME IInv, NEW r \in Request, CommentWrite(r)
  PROVE  Lifecycle!Next
<1>1. /\ call[r].tid \in TicketId /\ call[r].actor.user \in User
      /\ tickets[call[r].tid] # NULL
  BY Busy DEF CommentWrite, Statement, Actor, IInv, RequestInv, RowThere
<1>2. Lifecycle!AddComment(call[r].tid, call[r].actor.user)
  BY <1>1 DEF CommentWrite, Lifecycle!AddComment
<1> QED
  BY <1>1, <1>2 DEF Lifecycle!Next

\* The commit of each workflow operation is the operation of the lifecycle.
LEMMA CommitRefines ==
  ASSUME IInv, NEW r \in Request, Commit(r)
  PROVE  Lifecycle!Next
<1> DEFINE c == call[r]
           t == tickets[call[r].tid]
<1>1. /\ c.tid \in TicketId /\ c.arg \in ArgOf(c.op) /\ c.actor.user \in User
      /\ c.op \in TxOp /\ Valid(c)
  BY Busy DEF Commit, Actor, IInv, RequestInv, Shape, InTx
<1>2. /\ Live(c.tid) /\ RowOK(row[r]) /\ row[r] = After(c, t)
      /\ note[r] = OwnComments(c) /\ row[r].status = Target(c)
      /\ Entitled(c.actor, t, Target(c))
  BY DEF Commit, IInv, RequestInv, RowThere, Saved, Publishable, InTx
<1>3. /\ tickets' = [tickets EXCEPT ![c.tid] = After(c, t)]
      /\ comments' = comments \cup OwnComments(c)
  BY <1>2 DEF Commit
<1>4. t \in Ticket /\ t.status \in TicketStatus
  BY <1>1, <1>2, LiveRow DEF IInv, Ticket
<1>5. \/ Target(c) \in allowedTransitions[t.status]
      \/ Target(c) = "assigned" /\ t.status = "assigned"
  BY <1>2, <1>4, EntitledEdges
<1>6. ASSUME NEW from, t.status \in from
      PROVE  Lifecycle!In(c.tid, from)
  BY <1>2, <1>6 DEF Live, Lifecycle!In
<1>7. CASE c.op = "assign"
  <2>1. t.status \in {"new", "assigned", "reopened"}
    BY <1>4, <1>5, <1>7 DEF Target, allowedTransitions, TicketStatus
  <2>2. Lifecycle!Assign(c.tid, c.arg)
    BY <1>3, <1>6, <1>7, <2>1 DEF After, OwnComments, Lifecycle!Assign
  <2>3. c.arg \in User
    BY <1>1, <1>7 DEF ArgOf
  <2> QED
    BY <1>1, <2>2, <2>3 DEF Lifecycle!Next
<1>8. CASE c.op = "complete"
  <2>1. t.status = "resolved"
    BY <1>4, <1>5, <1>8 DEF Target, allowedTransitions, TicketStatus
  <2>2. c.arg \in Rating /\ c.arg \in 1..5
    BY <1>1, <1>8 DEF ArgOf, Valid, RatingInRange
  <2>3. Lifecycle!Complete(c.tid, c.actor.user, c.arg)
    BY <1>3, <1>6, <1>8, <2>1, <2>2
    DEF After, OwnComments, WorkflowComment, Lifecycle!Complete
  <2> QED
    BY <1>1, <2>2, <2>3 DEF Lifecycle!Next
<1>9. CASE c.op = "refuse"
  <2>1. t.status \in {"assigned", "in_progress"}
    BY <1>4, <1>5, <1>9 DEF Target, allowedTransitions, TicketStatus
  <2>2. c.arg \in Text
    BY <1>1, <1>9 DEF ArgOf
  <2>3. Lifecycle!Refuse(c.tid, c.actor.user, c.arg)
    BY <1>3, <1>6, <1>9, <2>1
    DEF After, OwnComments, WorkflowComment, Lifecycle!Refuse
  <2> QED
    BY <1>1, <2>2, <2>3 DEF Lifecycle!Next
<1>10. CASE c.op = "reopen"
  <2>1. t.status = "closed"
    BY <1>4, <1>5, <1>10 DEF Target, allowedTransitions, TicketStatus
  <2>2. t.reopenCount < 1
    <3>1. t.reopenCount \in Nat
      BY <1>4 DEF Ticket
    <3>2. row[r].reopenCount = t.reopenCount + 1
      BY <1>2, <1>4, <1>10 DEF After, Ticket
    <3> QED
      BY <1>2, <3>1, <3>2 DEF RowOK
  <2>3. Lifecycle!Reopen(c.tid)
    BY <1>3, <1>6, <1>10, <2>1, <2>2 DEF After, OwnComments, Lifecycle!Reopen
  <2> QED
    BY <1>1, <2>3 DEF Lifecycle!Next
<1>11. CASE c.op = "transition"
  <2>1. /\ c.arg \in {"in_progress", "resolved", "cancelled", "reopened"}
        /\ Target(c) = c.arg
    BY <1>1, <1>11 DEF ArgOf, Valid, OpenToTransition, Target, TicketStatus
  <2>2. c.arg \in allowedTransitions[t.status]
    BY <1>5, <2>1
  <2>3. t.status \in {s \in Lifecycle!TicketStatus : Lifecycle!CanTransition(s, c.arg)}
    BY <1>4, <2>2 DEF Lifecycle!CanTransition, Lifecycle!allowedTransitions,
       Lifecycle!TicketStatus, allowedTransitions, TicketStatus
  <2>4. Lifecycle!Move(c.tid, c.arg)
    BY <1>3, <1>6, <1>11, <2>1, <2>3 DEF After, OwnComments, Lifecycle!Move
  <2> QED
    BY <1>1, <2>1, <2>4 DEF Lifecycle!Next, Lifecycle!TicketStatus
<1> QED
  BY <1>1, <1>7, <1>8, <1>9, <1>10, <1>11 DEF TxOp

\* Every step of the service is a step of the serial life, or a stutter.
LEMMA NextRefines ==
  IInv /\ NoUpdate /\ [Next]_vars => [Lifecycle!Next]_(Lifecycle!vars)
<1> SUFFICES ASSUME IInv, NoUpdate, [Next]_vars
             PROVE  Lifecycle!Next \/ UNCHANGED Lifecycle!vars
  OBVIOUS
<1>1. CASE UNCHANGED vars
  BY <1>1 DEF vars, Lifecycle!vars
<1>2. CASE UNCHANGED <<tickets, comments>>
  BY <1>2 DEF Lifecycle!vars
<1>3. ASSUME NEW r \in Request, UpdateWrite(r) PROVE FALSE
  BY <1>3, Busy, RequestAssumption DEF UpdateWrite, Statement, NoUpdate
<1> QED
  BY <1>1, <1>2, <1>3, Writers, InsertRefines, DeleteRefines, CommentRefines, CommitRefines

\* When clients send no Update, the committed tickets and comments live the
\* serial life of TicketLifecycle, for any interleaving, abort and crash.
THEOREM ServiceImplementsLifecycle ==
  ASSUME \A in \in Input : in.op # "update"
  PROVE  Spec => ServesSerially
<1>1. Init => Lifecycle!Init
  BY DEF Init, Lifecycle!Init
<1>2. IInv /\ NoUpdate /\ [Next]_vars => NoUpdate'
  BY NoUpdateStep
<1> QED
  BY <1>1, <1>2, Invariance, NoUpdateInit, NextRefines, PTL
  DEF Spec, ServesSerially, Lifecycle!Spec
=============================================================================
