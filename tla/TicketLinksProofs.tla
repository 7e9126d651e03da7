-------------------------- MODULE TicketLinksProofs --------------------------
(***************************************************************************)
(* Proofs about TicketLinks, for any sets of tickets, requests and calls.  *)
(***************************************************************************)
EXTENDS TicketLinks, TLAPS

PcSet == {"idle", "check", "check_linked", "scan", "insert", "delete"}

CallSet == [op : Op, tid : TicketId, linked : TicketId]

-----------------------------------------------------------------------------
(***************************************************************************)
(* Rows, calls and the shape of the steps.                                 *)
(***************************************************************************)

\* Two pairs of tickets that share a row share both.
LEMMA OnePair ==
  ASSUME NEW a, NEW b, NEW c, NEW d, NEW k, k \in Both(a, b), k \in Both(c, d)
  PROVE  {a, b} = {c, d} /\ Both(a, b) = Both(c, d)
BY DEF Both

\* Two requests whose rows meet work on the same two tickets.
LEMMA SamePair ==
  ASSUME NEW r, NEW s, NEW k,
         k \in Both(call[r].tid, call[r].linked), k \in Both(call[s].tid, call[s].linked)
  PROVE  /\ Pair(r) = Pair(s)
         /\ Both(call[r].tid, call[r].linked) = Both(call[s].tid, call[s].linked)
BY OnePair DEF Pair

\* A request that runs serves a call on two tickets.
LEMMA Busy ==
  ASSUME TypeOK, NEW r \in Request, OnItsPair(r), pc[r] # "idle"
  PROVE  /\ call[r] \in CallSet
         /\ call[r].tid \in TicketId /\ call[r].linked \in TicketId
         /\ Both(call[r].tid, call[r].linked) \subseteq Key
         /\ Pair(r) \in SUBSET TicketId
<1>1. call[r] \in CallSet
  BY DEF TypeOK, OnItsPair, CallSet
<1>2. call[r].tid \in TicketId /\ call[r].linked \in TicketId
  BY <1>1 DEF CallSet
<1> QED
  BY <1>1, <1>2 DEF Both, Key, Pair

\* The steps of the request r.
Moves(r) ==
  \/ \E in \in Input : Arrive(r, in)
  \/ CheckTicket(r) \/ CheckLinked(r) \/ Scan(r)
  \/ InsertRow(r) \/ DeleteRow(r)
  \/ Inserted(r) \/ Deleted(r) \/ Abort(r)

\* A step is one of a request, or soft-deletes a ticket.
LEMMA Steps ==
  ASSUME Next
  PROVE  (\E r \in Request : Moves(r)) \/ (\E t \in TicketId : SoftDelete(t))
BY DEF Next, Moves, Working, DetectDeadlock

\* A step of r leaves the other requests as they are; only a deletion that
\* commits takes rows from the statements that were to delete them.
LEMMA Others ==
  ASSUME TypeOK, NEW r \in Request, Moves(r), NEW s \in Request \ {r}
  PROVE  /\ pc'[s] = pc[s] /\ call'[s] = call[s] /\ held'[s] = held[s] /\ gone'[s] = gone[s]
         /\ \/ todo'[s] = todo[s]
            \/ Deleted(r) /\ pc[s] = "delete" /\ todo'[s] = todo[s] \ held[r]
         /\ live' = live /\ torn \subseteq torn'
BY DEF TypeOK, Moves, Arrive, CheckTicket, CheckLinked, Check, Answer, Scan, InsertRow, DeleteRow,
   Inserted, Deleted, Abort

\* Rows are added by an insertion that commits and taken by a deletion.
LEMMA Rows ==
  ASSUME NEW r, Moves(r)
  PROVE  \/ links' = links
         \/ Inserted(r) /\ links' = links \cup held[r]
         \/ Deleted(r) /\ links' = links \ held[r]
BY DEF Moves, Arrive, CheckTicket, CheckLinked, Check, Answer, Scan, InsertRow, DeleteRow,
   Inserted, Deleted, Abort

\* The row an insertion takes is held by nobody else.
LEMMA InsertRowTakes ==
  ASSUME TypeOK, NEW r \in Request, InsertRow(r)
  PROVE  \E k \in todo[r] :
           /\ \A s \in Request \ {r} : k \notin held[s]
           /\ todo' = [todo EXCEPT ![r] = @ \ {k}]
           /\ held' = [held EXCEPT ![r] = @ \cup ({k} \ links)]
           /\ UNCHANGED <<live, links, pc, call, gone, torn>>
           /\ pc[r] = "insert"
BY DEF InsertRow, Free, Waits, NextKey

-----------------------------------------------------------------------------
(***************************************************************************)
(* The inductive invariant.                                                *)
(***************************************************************************)

\* Nothing runs and nothing is linked at first.
LEMMA InitLInv == Init => LInv
<1> SUFFICES ASSUME Init PROVE LInv
  OBVIOUS
<1>1. TypeOK
  BY DEF Init, TypeOK
<1> QED
  BY <1>1 DEF Init, LInv, OneWayOnlyByRace, OnItsPair, LookedUp, FoundThere, TakesBothOrNone

\* The types of the variables are kept.
LEMMA StepTypes ==
  ASSUME LInv, [Next]_vars
  PROVE  /\ live' \subseteq TicketId /\ links' \subseteq Key
         /\ pc' \in [Request -> PcSet] /\ call' \in [Request -> CallSet \cup {NULL}]
         /\ todo' \in [Request -> SUBSET Key] /\ held' \in [Request -> SUBSET Key]
         /\ gone' \in [Request -> SUBSET TicketId] /\ torn' \subseteq SUBSET TicketId
<1> DEFINE T ==
             /\ live \subseteq TicketId /\ links \subseteq Key
             /\ pc \in [Request -> PcSet] /\ call \in [Request -> CallSet \cup {NULL}]
             /\ todo \in [Request -> SUBSET Key] /\ held \in [Request -> SUBSET Key]
             /\ gone \in [Request -> SUBSET TicketId] /\ torn \subseteq SUBSET TicketId
<1>1. T
  BY DEF LInv, TypeOK, PcSet, CallSet
<1>2. CASE UNCHANGED vars
  BY <1>1, <1>2 DEF vars
<1>3. ASSUME NEW t \in TicketId, SoftDelete(t) PROVE T'
  BY <1>1, <1>3 DEF SoftDelete
<1>4. ASSUME NEW r \in Request, Moves(r) PROVE T'
  <2>1. ASSUME NEW in \in Input, Arrive(r, in) PROVE T'
    <3>1. in \in CallSet
      BY InputAssumption DEF CallSet
    <3> QED
      BY <1>1, <2>1, <3>1 DEF Arrive, PcSet
  <2>2. CASE CheckTicket(r)
    BY <1>1, <2>2 DEF CheckTicket, Check, Answer, PcSet
  <2>3. CASE CheckLinked(r)
    <3>1. Both(call[r].tid, call[r].linked) \in SUBSET Key
      BY <2>3, Busy DEF LInv, CheckLinked, Check
    <3> QED
      BY <1>1, <2>3, <3>1 DEF CheckLinked, Check, Answer, PcSet
  <2>4. CASE Scan(r)
    BY <1>1, <2>4 DEF Scan, PcSet
  <2>5. CASE InsertRow(r)
    BY <1>1, <2>5 DEF InsertRow
  <2>6. CASE DeleteRow(r)
    BY <1>1, <2>6 DEF DeleteRow
  <2>7. CASE Inserted(r)
    BY <1>1, <2>7 DEF Inserted, Answer, PcSet
  <2>8. CASE Deleted(r)
    <3>1. Pair(r) \in SUBSET TicketId
      BY <2>8, Busy DEF LInv, Deleted
    <3>2. links' \subseteq Key /\ torn' \subseteq SUBSET TicketId /\ todo' \in [Request -> SUBSET Key]
      BY <1>1, <2>8, <3>1 DEF Deleted
    <3> QED
      BY <1>1, <2>8, <3>2 DEF Deleted, Answer, PcSet
  <2>9. CASE Abort(r)
    BY <1>1, <2>9 DEF Abort, Answer, PcSet
  <2> QED
    BY <1>4, <2>1, <2>2, <2>3, <2>4, <2>5, <2>6, <2>7, <2>8, <2>9 DEF Moves
<1>5. T'
  BY <1>2, <1>3, <1>4, Steps
<1> QED
  BY <1>5

\* Only a statement that runs holds keys, and no key is held twice.
LEMMA StepHeld ==
  ASSUME LInv, [Next]_vars
  PROVE  /\ \A r, s \in Request : r # s => held'[r] \cap held'[s] = {}
         /\ \A r \in Request : held'[r] # {} => pc'[r] \in {"insert", "delete"}
<1> DEFINE H ==
             /\ \A r, s \in Request : r # s => held[r] \cap held[s] = {}
             /\ \A r \in Request : held[r] # {} => pc[r] \in {"insert", "delete"}
<1>1. H /\ TypeOK
  BY DEF LInv, TypeOK
<1>2. CASE UNCHANGED vars
  BY <1>1, <1>2 DEF vars
<1>3. ASSUME NEW t \in TicketId, SoftDelete(t) PROVE H'
  BY <1>1, <1>3 DEF SoftDelete
<1>4. ASSUME NEW r \in Request, Moves(r) PROVE H'
  <2>1. /\ held'[r] # {} => pc'[r] \in {"insert", "delete"}
        /\ \A s \in Request \ {r} : held'[r] \cap held[s] = {}
    <3>1. CASE InsertRow(r)
      BY <1>1, <3>1, InsertRowTakes DEF TypeOK
    <3>2. CASE DeleteRow(r)
      BY <1>1, <3>2 DEF DeleteRow, TypeOK
    <3>3. CASE Arrive(r, call'[r]) \/ CheckTicket(r) \/ CheckLinked(r) \/ Scan(r)
      BY <1>1, <3>3 DEF Arrive, CheckTicket, CheckLinked, Check, Answer, Scan, TypeOK
    <3>4. CASE Inserted(r) \/ Deleted(r) \/ Abort(r)
      BY <1>1, <3>4 DEF Inserted, Deleted, Abort, Answer, TypeOK
    <3>5. (\E in \in Input : Arrive(r, in)) => Arrive(r, call'[r])
      BY <1>1 DEF Arrive, TypeOK
    <3> QED
      BY <1>4, <3>1, <3>2, <3>3, <3>4, <3>5 DEF Moves
  <2>2. \A s \in Request \ {r} : held'[s] = held[s] /\ pc'[s] = pc[s]
    BY <1>1, <1>4, Others
  <2> QED
    BY <1>1, <2>1, <2>2
<1>5. H'
  BY <1>2, <1>3, <1>4, Steps
<1> QED
  BY <1>5

\* A request keeps to the rows of its call.
LEMMA StepOnItsPair ==
  ASSUME LInv, [Next]_vars, NEW q \in Request
  PROVE  OnItsPair(q)'
<1>1. TypeOK /\ OnItsPair(q)
  BY DEF LInv
<1>2. CASE UNCHANGED vars
  BY <1>1, <1>2 DEF vars, OnItsPair
<1>3. ASSUME NEW t \in TicketId, SoftDelete(t) PROVE OnItsPair(q)'
  BY <1>1, <1>3 DEF SoftDelete, OnItsPair
<1>4. ASSUME NEW r \in Request, Moves(r) PROVE OnItsPair(q)'
  <2>1. CASE q # r
    BY <1>1, <1>4, <2>1, Others DEF OnItsPair
  <2>2. CASE q = r
    <3>1. ASSUME NEW in \in Input, Arrive(q, in) PROVE OnItsPair(q)'
      BY <1>1, <3>1, NullAssumption DEF Arrive, OnItsPair, TypeOK
    <3>2. CASE CheckTicket(q) \/ CheckLinked(q) \/ Scan(q)
      BY <1>1, <3>2 DEF CheckTicket, CheckLinked, Check, Answer, Scan, OnItsPair, TypeOK
    <3>3. CASE InsertRow(q)
      BY <1>1, <3>3, InsertRowTakes DEF OnItsPair, TypeOK
    <3>4. CASE DeleteRow(q)
      BY <1>1, <3>4 DEF DeleteRow, OnItsPair, TypeOK
    <3>5. CASE Inserted(q) \/ Deleted(q) \/ Abort(q)
      BY <1>1, <3>5 DEF Inserted, Deleted, Abort, Answer, OnItsPair, TypeOK
    <3> QED
      BY <1>4, <2>2, <3>1, <3>2, <3>3, <3>4, <3>5 DEF Moves
  <2> QED
    BY <2>1, <2>2
<1> QED
  BY <1>2, <1>3, <1>4, Steps

\* A ticket that is live now was not deleted when a request arrived.
LEMMA StepLookedUp ==
  ASSUME LInv, [Next]_vars, NEW q \in Request
  PROVE  LookedUp(q)'
<1>1. TypeOK /\ LookedUp(q)
  BY DEF LInv
<1>2. CASE UNCHANGED vars
  BY <1>1, <1>2 DEF vars, LookedUp
<1>3. ASSUME NEW t \in TicketId, SoftDelete(t) PROVE LookedUp(q)'
  BY <1>1, <1>3 DEF SoftDelete, LookedUp
<1>4. ASSUME NEW r \in Request, Moves(r) PROVE LookedUp(q)'
  <2>1. CASE q # r
    BY <1>1, <1>4, <2>1, Others DEF LookedUp
  <2>2. CASE q = r
    <3>1. ASSUME NEW in \in Input, Arrive(q, in) PROVE LookedUp(q)'
      BY <1>1, <3>1 DEF Arrive, LookedUp, TypeOK
    <3>2. CASE CheckTicket(q) \/ CheckLinked(q)
      BY <1>1, <3>2 DEF CheckTicket, CheckLinked, Check, Answer, LookedUp, TypeOK
    <3>3. CASE Scan(q) \/ InsertRow(q) \/ DeleteRow(q)
      BY <1>1, <3>3 DEF Scan, InsertRow, DeleteRow, LookedUp, TypeOK
    <3>4. CASE Inserted(q) \/ Deleted(q) \/ Abort(q)
      BY <1>1, <3>4 DEF Inserted, Deleted, Abort, Answer, LookedUp, TypeOK
    <3> QED
      BY <1>4, <2>2, <3>1, <3>2, <3>3, <3>4 DEF Moves
  <2> QED
    BY <2>1, <2>2
<1> QED
  BY <1>2, <1>3, <1>4, Steps

\* A deletion that commits a row over which a link has passed overtakes it.
LEMMA Overtakes ==
  ASSUME LInv, NEW r \in Request, Deleted(r), NEW q \in Request, pc[q] = "insert",
         NEW k \in Both(call[q].tid, call[q].linked) \ (todo[q] \cup held[q]), k \in held[r]
  PROVE  Pair(q) \in torn'
<1>1. PassedOver(q, held[r])
  BY DEF PassedOver
<1>2. Pair(r) \in torn'
  BY <1>1 DEF Deleted
<1>3. k \in Both(call[r].tid, call[r].linked)
  BY DEF LInv, OnItsPair, Deleted
<1> QED
  BY <1>2, <1>3, SamePair

\* Rows that a link found there stay there, unless it is overtaken.
LEMMA StepFoundThere ==
  ASSUME LInv, [Next]_vars, NEW q \in Request
  PROVE  FoundThere(q)'
<1>1. TypeOK /\ FoundThere(q)
  BY DEF LInv
<1>2. CASE UNCHANGED vars
  BY <1>1, <1>2 DEF vars, FoundThere, Pair
<1>3. ASSUME NEW t \in TicketId, SoftDelete(t) PROVE FoundThere(q)'
  BY <1>1, <1>3 DEF SoftDelete, FoundThere, Pair
<1>4. ASSUME NEW r \in Request, Moves(r) PROVE FoundThere(q)'
  <2>1. CASE q # r
    <3> SUFFICES ASSUME pc[q] = "insert",
                        NEW k \in Both(call[q].tid, call[q].linked) \ (todo[q] \cup held[q])
                 PROVE  k \in links' \/ Pair(q) \in torn'
      BY <1>1, <1>4, <2>1, Others DEF FoundThere, Deleted, Pair
    <3>1. k \in links \/ Pair(q) \in torn
      BY <1>1 DEF FoundThere
    <3>2. CASE Deleted(r) /\ k \in held[r]
      BY <3>2, Overtakes
    <3>3. CASE ~(Deleted(r) /\ k \in held[r])
      BY <1>1, <1>4, <2>1, <3>1, <3>3, Rows, Others
    <3> QED
      BY <3>2, <3>3
  <2>2. CASE q = r
    <3>1. CASE CheckLinked(q)
      BY <1>1, <3>1 DEF CheckLinked, Check, Answer, FoundThere, TypeOK
    <3>2. CASE InsertRow(q)
      <4>1. PICK k \in todo[q] :
              /\ todo'[q] = todo[q] \ {k} /\ held'[q] = held[q] \cup ({k} \ links)
              /\ UNCHANGED <<links, pc, call, torn>> /\ pc[q] = "insert"
        BY <1>1, <3>2, InsertRowTakes DEF TypeOK
      <4> QED
        BY <1>1, <4>1 DEF FoundThere, Pair
    <3>3. CASE CheckTicket(q) \/ Scan(q) \/ DeleteRow(q)
      BY <1>1, <3>3 DEF CheckTicket, Check, Answer, Scan, DeleteRow, FoundThere, TypeOK
    <3>4. CASE Inserted(q) \/ Deleted(q) \/ Abort(q) \/ \E in \in Input : Arrive(q, in)
      BY <1>1, <3>4 DEF Inserted, Deleted, Abort, Answer, Arrive, FoundThere, TypeOK
    <3> QED
      BY <1>4, <2>2, <3>1, <3>2, <3>3, <3>4 DEF Moves
  <2> QED
    BY <2>1, <2>2
<1> QED
  BY <1>2, <1>3, <1>4, Steps

\* A deletion that commits takes both rows of a pair that is whole, or none.
LEMMA WholeDeletion ==
  ASSUME LInv, NEW r \in Request, Deleted(r), Pair(r) \notin torn
  PROVE  held[r] = {} \/ held[r] = Both(call[r].tid, call[r].linked)
BY DEF LInv, TakesBothOrNone, Deleted

\* A deletion has both rows before it or none, whatever else is committed.
LEMMA StepTakesBothOrNone ==
  ASSUME LInv, [Next]_vars, NEW q \in Request
  PROVE  TakesBothOrNone(q)'
<1>1. TypeOK /\ TakesBothOrNone(q) /\ OnItsPair(q)
  BY DEF LInv
<1>2. CASE UNCHANGED vars
  BY <1>1, <1>2 DEF vars, TakesBothOrNone, Pair
<1>3. ASSUME NEW t \in TicketId, SoftDelete(t) PROVE TakesBothOrNone(q)'
  BY <1>1, <1>3 DEF SoftDelete, TakesBothOrNone, Pair
<1>4. ASSUME NEW r \in Request, Moves(r) PROVE TakesBothOrNone(q)'
  <2>1. CASE q # r
    <3> SUFFICES ASSUME pc[q] = "delete", Pair(q) \notin torn'
                 PROVE  \/ todo'[q] \cup held[q] = {}
                        \/ /\ todo'[q] \cup held[q] = Both(call[q].tid, call[q].linked)
                           /\ todo'[q] \cup held[q] \subseteq links'
      BY <1>1, <1>4, <2>1, Others DEF TakesBothOrNone, Pair
    <3>1. \/ todo[q] \cup held[q] = {}
          \/ /\ todo[q] \cup held[q] = Both(call[q].tid, call[q].linked)
             /\ todo[q] \cup held[q] \subseteq links
      BY <1>1, <1>4, <2>1, Others DEF TakesBothOrNone
    <3>2. CASE ~Deleted(r)
      BY <1>1, <1>4, <2>1, <3>1, <3>2, Others, Rows
    <3>3. CASE Deleted(r) /\ held[r] \cap Both(call[q].tid, call[q].linked) = {}
      BY <1>1, <1>4, <2>1, <3>1, <3>3, Others, Rows DEF OnItsPair, Deleted
    <3>4. CASE Deleted(r) /\ held[r] \cap Both(call[q].tid, call[q].linked) # {}
      <4>1. PICK k \in held[r] : k \in Both(call[q].tid, call[q].linked)
        BY <3>4
      <4>2. k \in Both(call[r].tid, call[r].linked)
        BY <3>4 DEF LInv, OnItsPair, Deleted
      <4>3. /\ Pair(q) = Pair(r)
            /\ Both(call[q].tid, call[q].linked) = Both(call[r].tid, call[r].linked)
        BY <4>1, <4>2, SamePair
      <4>4. Pair(r) \notin torn
        BY <1>1, <1>4, <2>1, <4>3, Others
      <4>5. held[r] = Both(call[q].tid, call[q].linked)
        BY <3>4, <4>1, <4>3, <4>4, WholeDeletion
      <4>6. held[q] = {}
        BY <1>1, <2>1, <4>5 DEF TypeOK, OnItsPair
      <4>7. todo'[q] = {}
        BY <1>1, <3>4, <4>5 DEF Deleted, OnItsPair
      <4> QED
        BY <4>6, <4>7
    <3> QED
      BY <3>2, <3>3, <3>4
  <2>2. CASE q = r
    <3>1. CASE Scan(q)
      <4> DEFINE c == call[q]
      <4>1. c.tid \in TicketId /\ c.linked \in TicketId /\ held[q] = {}
        BY <1>1, <3>1, Busy DEF Scan, TypeOK
      <4>2. /\ todo'[q] = links \cap Both(c.tid, c.linked) /\ held'[q] = {}
            /\ UNCHANGED <<links, call, torn>>
        BY <1>1, <3>1, <4>1 DEF Scan, TypeOK
      <4>3. \/ {c.tid, c.linked} \in torn
            \/ links \cap Both(c.tid, c.linked) \in {{}, Both(c.tid, c.linked)}
        <5>1. {c.tid, c.linked} = {c.linked, c.tid}
          OBVIOUS
        <5> QED
          BY <4>1, <5>1 DEF LInv, OneWayOnlyByRace, Both
      <4> QED
        BY <4>2, <4>3 DEF TakesBothOrNone, Pair
    <3>2. CASE DeleteRow(q)
      BY <1>1, <3>2 DEF DeleteRow, TakesBothOrNone, Pair, TypeOK
    <3>3. CASE CheckTicket(q) \/ CheckLinked(q) \/ InsertRow(q)
      BY <1>1, <3>3 DEF CheckTicket, CheckLinked, Check, Answer, InsertRow, TakesBothOrNone, TypeOK
    <3>4. CASE Inserted(q) \/ Deleted(q) \/ Abort(q) \/ \E in \in Input : Arrive(q, in)
      BY <1>1, <3>4 DEF Inserted, Deleted, Abort, Answer, Arrive, TakesBothOrNone, TypeOK
    <3> QED
      BY <1>4, <2>2, <3>1, <3>2, <3>3, <3>4 DEF Moves
  <2> QED
    BY <2>1, <2>2
<1> QED
  BY <1>2, <1>3, <1>4, Steps

\* Both directions appear and disappear together, but for an overtaken link.
LEMMA StepOneWay ==
  ASSUME LInv, [Next]_vars
  PROVE  OneWayOnlyByRace'
<1> SUFFICES ASSUME NEW a \in TicketId, NEW b \in TicketId,
                    <<a, b>> \in links', <<b, a>> \notin links'
             PROVE  {a, b} \in torn'
  BY DEF OneWayOnlyByRace
<1>1. TypeOK /\ (<<a, b>> \in links /\ <<b, a>> \notin links => {a, b} \in torn)
  BY DEF LInv, OneWayOnlyByRace
<1>2. CASE UNCHANGED vars
  BY <1>1, <1>2 DEF vars
<1>3. ASSUME NEW t \in TicketId, SoftDelete(t) PROVE {a, b} \in torn'
  BY <1>1, <1>3 DEF SoftDelete
<1>4. ASSUME NEW r \in Request, Moves(r) PROVE {a, b} \in torn'
  <2>1. torn \subseteq torn'
    BY <1>4 DEF Moves, Arrive, CheckTicket, CheckLinked, Check, Answer, Scan, InsertRow, DeleteRow,
       Inserted, Deleted, Abort
  <2>2. CASE links' = links
    BY <1>1, <2>1, <2>2
  <2>3. CASE Inserted(r) /\ links' = links \cup held[r]
    <3>1. CASE <<a, b>> \in held[r]
      <4>1. <<a, b>> \in Both(call[r].tid, call[r].linked)
        BY <2>3, <3>1 DEF LInv, OnItsPair, Inserted
      <4>2. {a, b} = Pair(r) /\ <<b, a>> \in Both(call[r].tid, call[r].linked)
        BY <4>1 DEF Both, Pair
      <4>3. <<b, a>> \notin todo[r] \cup held[r] /\ <<b, a>> \notin links
        BY <2>3 DEF Inserted
      <4> QED
        BY <2>1, <2>3, <4>2, <4>3 DEF LInv, FoundThere, Inserted
    <3>2. CASE <<a, b>> \notin held[r]
      BY <1>1, <2>1, <2>3, <3>2
    <3> QED
      BY <3>1, <3>2
  <2>4. CASE Deleted(r) /\ links' = links \ held[r]
    <3>1. CASE <<b, a>> \in held[r]
      <4>1. <<b, a>> \in Both(call[r].tid, call[r].linked)
        BY <2>4, <3>1 DEF LInv, OnItsPair, Deleted
      <4>2. {a, b} = Pair(r) /\ <<a, b>> \in Both(call[r].tid, call[r].linked)
        BY <4>1 DEF Both, Pair
      <4>3. <<a, b>> \notin held[r]
        BY <2>4
      <4> QED
        BY <2>1, <2>4, <3>1, <4>2, <4>3, WholeDeletion
    <3>2. CASE <<b, a>> \notin held[r]
      BY <1>1, <2>1, <2>4, <3>2
    <3> QED
      BY <3>1, <3>2
  <2> QED
    BY <1>4, <2>2, <2>3, <2>4, Rows
<1> QED
  BY <1>2, <1>3, <1>4, Steps

-----------------------------------------------------------------------------
(***************************************************************************)
(* The theorems.                                                           *)
(***************************************************************************)

\* The inductive invariant holds in every state.
THEOREM LinksInvariance == Spec => []LInv
<1>1. ASSUME LInv, [Next]_vars PROVE LInv'
  <2>1. TypeOK'
    BY <1>1, StepTypes, StepHeld DEF TypeOK, PcSet, CallSet
  <2>2. OneWayOnlyByRace'
    BY <1>1, StepOneWay
  <2>3. \A r \in Request : OnItsPair(r)' /\ LookedUp(r)' /\ FoundThere(r)' /\ TakesBothOrNone(r)'
    BY <1>1, StepOnItsPair, StepLookedUp, StepFoundThere, StepTakesBothOrNone
  <2> QED
    BY <2>1, <2>2, <2>3 DEF LInv
<1>2. LInv /\ [Next]_vars => LInv'
  BY <1>1
<1> QED
  BY <1>2, InitLInv, PTL DEF Spec

\* The variables keep their types, and a key is in the hands of one statement.
THEOREM LinksTypeCorrect == Spec => []TypeOK
<1>1. LInv => TypeOK
  BY DEF LInv
<1> QED
  BY <1>1, LinksInvariance, PTL

\* Two tickets are linked in both directions or in none, unless an Unlink has
\* overtaken a Link of the two.
THEOREM OneWayLinksAreRaces == Spec => []OneWayOnlyByRace
<1>1. LInv => OneWayOnlyByRace
  BY DEF LInv
<1> QED
  BY <1>1, LinksInvariance, PTL

\* Two tickets are linked in both directions or in none, in every state, if nobody
\* unlinks these two, or if requests are served one at a time: no failure,
\* deadlock or repetition of a Link or an Unlink leaves one direction without the
\* other, whatever is linked and unlinked besides.
THEOREM LinksAreMutual ==
  ASSUME NEW a \in TicketId, NEW b \in TicketId,
         \/ \A in \in Input : in.op = "unlink" => {in.tid, in.linked} # {a, b}
         \/ \A r, s \in Request : r = s
  PROVE  Spec => [](<<a, b>> \in links <=> <<b, a>> \in links)
<1> DEFINE Unlinks(r) ==
             pc[r] \in {"scan", "delete"} => call[r] \in Input /\ call[r].op = "unlink"
           Whole == {a, b} \notin torn /\ \A r \in Request : Unlinks(r)
           Mutual == <<a, b>> \in links <=> <<b, a>> \in links
<1>1. Init => Whole
  BY DEF Init
<1>2. ASSUME TypeOK, Whole, [Next]_vars PROVE Whole'
  <2>1. ASSUME NEW r \in Request, Moves(r) PROVE Whole'
    <3>1. \A s \in Request : Unlinks(s)'
      <4>1. \A s \in Request \ {r} : Unlinks(s)'
        BY <1>2, <2>1, Others
      <4>2. ASSUME NEW in \in Input, Arrive(r, in) PROVE Unlinks(r)'
        BY <1>2, <4>2, InputAssumption DEF Arrive, TypeOK, Op
      <4>3. CASE CheckTicket(r) \/ CheckLinked(r) \/ Scan(r) \/ InsertRow(r) \/ DeleteRow(r)
        BY <1>2, <4>3 DEF CheckTicket, CheckLinked, Check, Answer, Scan, InsertRow, DeleteRow, TypeOK
      <4>4. CASE Inserted(r) \/ Deleted(r) \/ Abort(r)
        BY <1>2, <4>4 DEF Inserted, Deleted, Abort, Answer, TypeOK
      <4> QED
        BY <2>1, <4>1, <4>2, <4>3, <4>4 DEF Moves
    <3>2. CASE Deleted(r)
      <4>1. CASE \A in \in Input : in.op = "unlink" => {in.tid, in.linked} # {a, b}
        <5>1. Pair(r) # {a, b}
          BY <1>2, <3>2, <4>1 DEF Deleted, Pair
        <5>2. torn' \subseteq torn \cup {Pair(r)}
          BY <3>2 DEF Deleted
        <5> QED
          BY <1>2, <3>1, <5>1, <5>2
      <4>2. CASE \A q, s \in Request : q = s
        <5>1. \A s \in Request : ~PassedOver(s, held[r])
          BY <3>2, <4>2 DEF Deleted, PassedOver
        <5> QED
          BY <1>2, <3>1, <3>2, <5>1 DEF Deleted
      <4> QED
        BY <4>1, <4>2
    <3>3. CASE ~Deleted(r)
      <4>1. torn' = torn
        BY <2>1, <3>3 DEF Moves, Arrive, CheckTicket, CheckLinked, Check, Answer, Scan,
           InsertRow, DeleteRow, Inserted, Abort
      <4> QED
        BY <1>2, <3>1, <4>1
    <3> QED
      BY <3>2, <3>3
  <2> QED
    BY <1>2, <2>1, Steps DEF vars, SoftDelete
<1>3. TypeOK /\ Whole /\ [Next]_vars => Whole'
  BY <1>2
<1>4. OneWayOnlyByRace /\ Whole => Mutual
  <2>1. {a, b} = {b, a}
    OBVIOUS
  <2> QED
    BY <2>1 DEF OneWayOnlyByRace
<1> QED
  BY <1>1, <1>3, <1>4, LinksTypeCorrect, OneWayLinksAreRaces, PTL DEF Spec

\* A request waits only for one that works on the same two tickets.
LEMMA WaitsForItsPair ==
  ASSUME LInv, NEW r \in Request, NEW s \in Request, Waits(r, s)
  PROVE  Pair(r) = Pair(s)
<1>1. PICK k \in held[s] : NextKey(r, k)
  BY DEF Waits
<1>2. k \in Both(call[s].tid, call[s].linked)
  BY <1>1 DEF LInv, TypeOK, OnItsPair
<1> QED
  BY <1>1, <1>2, SamePair DEF LInv, TypeOK, OnItsPair, NextKey

\* Requests wait in a circle only over two tickets that all of them work on.
THEOREM CirclesKeepToAPair == Spec => []CirclesShareAPair
<1>1. ASSUME LInv PROVE CirclesShareAPair
  <2> SUFFICES ASSUME NEW S \in SUBSET Request, Circle(S), NEW r \in S, NEW s \in S
               PROVE  Pair(r) = Pair(s)
    BY DEF CirclesShareAPair
  <2> DEFINE T == {q \in S : Pair(q) = Pair(r)}
  <2>1. CASE T = S
    BY <2>1
  <2>2. CASE T # S
    <3>1. T \in (SUBSET S) \ {{}, S}
      BY <2>2
    <3>2. PICK p \in T, q \in S \ T : Waits(p, q)
      BY <3>1 DEF Circle
    <3>3. Pair(p) = Pair(q)
      BY <1>1, <3>2, WaitsForItsPair
    <3> QED
      BY <3>2, <3>3
  <2> QED
    BY <2>1, <2>2
<1>2. LInv => CirclesShareAPair
  BY <1>1
<1> QED
  BY <1>2, LinksInvariance, PTL

\* No request links a ticket that was deleted when it arrived.
THEOREM DeletedStayUnlinked == Spec => NoLinkToDeleted
<1>1. ASSUME LInv, [Next]_vars PROVE LinkedWereThere
  <2> SUFFICES ASSUME NEW k \in links' \ links
               PROVE  \E r \in Request : /\ pc[r] = "insert" /\ k \in held[r]
                                         /\ k[1] \notin gone[r] /\ k[2] \notin gone[r]
    BY DEF LinkedWereThere
  <2>1. PICK r \in Request : Moves(r)
    BY <1>1, Steps DEF vars, SoftDelete
  <2>2. Inserted(r) /\ k \in held[r]
    BY <2>1, Rows
  <2>3. k \in Both(call[r].tid, call[r].linked) /\ pc[r] = "insert"
    BY <1>1, <2>2 DEF LInv, OnItsPair, Inserted
  <2>4. k[1] \in {call[r].tid, call[r].linked} /\ k[2] \in {call[r].tid, call[r].linked}
    BY <2>3 DEF Both
  <2> QED
    BY <1>1, <2>2, <2>3, <2>4 DEF LInv, LookedUp
<1>2. LInv /\ [Next]_vars => [LinkedWereThere]_vars
  BY <1>1
<1> QED
  BY <1>2, LinksInvariance, PTL DEF Spec, NoLinkToDeleted
=============================================================================
