----------------------------- MODULE TicketsProofs -----------------------------
(***************************************************************************)
(* Proofs about Tickets, for any users, contents, tickets and requests.     *)
(***************************************************************************)
EXTENDS Tickets, TLAPS

-------------------------------------------------------------------------------
(* What the arrival of a request comes to. *)

Refused(r) ==
    /\ pc[r] = "new"
    /\ \E a \in {"forbidden", "not_found", "conflict"} : pc' = [pc EXCEPT ![r] = a]
    /\ UNCHANGED <<db, local, events>>

\* The checks let job j through with the loaded copy `old` made `new`.
Sound(r, j, old, new) ==
    \/ /\ j.op = "create" /\ j.ticket = r
       /\ new \in Ticket /\ new.status = "open"
    \/ /\ j.op # "create"
       /\ old = tickets[j.ticket] /\ old # None
       /\ j.user \in Agents \/ j.user = old.owner
       /\ j.op = "status" => /\ CanMove(old.status, new.status)
                             /\ new = [old EXCEPT !.status = new.status]
       /\ j.op = "edit" => /\ old.status = "open"
                           /\ new = [old EXCEPT !.content = new.content]
       /\ j.op = "delete" => old.status = "open"

Accepted(r) ==
    /\ pc[r] = "new"
    /\ UNCHANGED <<db, kids, events>>
    /\ \E j \in Job, old \in Ticket \cup {None}, new \in Draft :
          /\ Sound(r, j, old, new)
          /\ pc' = [pc EXCEPT ![r] = IF j.op = "delete" THEN "cascade" ELSE "commit"]
          /\ job' = [job EXCEPT ![r] = j]
          /\ row' = [row EXCEPT ![r] = old]
          /\ attrs' = [attrs EXCEPT ![r] = new]

\* Every handler's checks either refuse the request or establish Sound.
LEMMA ReceiveSteps ==
    ASSUME TypeOK, NEW r \in Requests, Receive(r)
    PROVE  Refused(r) \/ Accepted(r)
  <1> USE DEF TypeOK, Users, TicketIds
  <1>1. ASSUME NEW u \in Users, NEW c \in Contents, CreateTicket(r, u, c)
        PROVE  Refused(r) \/ Accepted(r)
    <2>1. CASE Refuse(r, "forbidden")
      BY <1>1, <2>1 DEF CreateTicket, Refused, Refuse, Goto
    <2>2. CASE u \in Customers /\ Accept(r, "commit", "create", u, r, None,
                                         [owner |-> u, status |-> "open", content |-> c])
      <3> DEFINE j == [op |-> "create", user |-> u, ticket |-> r]
                 new == [owner |-> u, status |-> "open", content |-> c]
      <3>1. j \in Job /\ new \in Draft /\ new \in Ticket
        BY <2>2 DEF Job, Draft, Ticket, Statuses
      <3>2. Sound(r, j, None, new)
        BY <3>1 DEF Sound
      <3> QED
        BY <1>1, <2>2, <3>1, <3>2 DEF CreateTicket, Accept, Accepted, Goto
    <2> QED
      BY <1>1, <2>1, <2>2 DEF CreateTicket
  <1> DEFINE Passed(op, u, t, new) ==
               /\ tickets[t] # None
               /\ Accept(r, IF op = "delete" THEN "cascade" ELSE "commit",
                         op, u, t, tickets[t], new)
  <1>2. ASSUME NEW u \in Users, NEW t \in TicketIds, NEW new \in Draft,
               NEW op \in {"status", "edit", "delete", "comment"},
               pc[r] = "new", Passed(op, u, t, new),
               Sound(r, [op |-> op, user |-> u, ticket |-> t], tickets[t], new)
        PROVE  Accepted(r)
    <2>1. [op |-> op, user |-> u, ticket |-> t] \in Job
      BY <1>2 DEF Job
    <2> QED
      BY <1>2, <2>1 DEF Accept, Accepted, Goto
  <1>3. ASSUME NEW u, NEW t, Visible(u, t), u \in Users, t \in TicketIds
        PROVE  /\ tickets[t] # None /\ tickets[t] \in Ticket /\ tickets[t] \in Draft
               /\ u \in Agents \/ u = tickets[t].owner
               /\ u \in Customers => u = tickets[t].owner
    BY <1>3, RolesAreExclusive DEF Visible, Ticket, Draft
  <1>4. ASSUME NEW u \in Users, NEW t \in TicketIds, NEW s \in Statuses,
               ChangeStatus(r, u, t, s)
        PROVE  Refused(r) \/ Accepted(r)
    <2>1. CASE Refuse(r, "not_found") \/ Refuse(r, "forbidden") \/ Refuse(r, "conflict")
      BY <1>4, <2>1 DEF ChangeStatus, Refused, Refuse, Goto
    <2>2. CASE /\ Visible(u, t) /\ CanMove(tickets[t].status, s)
               /\ Accept(r, "commit", "status", u, t, tickets[t],
                         [tickets[t] EXCEPT !.status = s])
      <3> DEFINE new == [tickets[t] EXCEPT !.status = s]
      <3>1. new \in Draft /\ new.status = s
        BY <1>3, <2>2 DEF Draft
      <3>2. Sound(r, [op |-> "status", user |-> u, ticket |-> t], tickets[t], new)
        BY <1>3, <2>2, <3>1 DEF Sound
      <3> QED
        BY <1>2, <1>3, <1>4, <2>2, <3>1, <3>2 DEF ChangeStatus
    <2> QED
      BY <1>4, <2>1, <2>2 DEF ChangeStatus, Transition
  <1>5. ASSUME NEW u \in Users, NEW t \in TicketIds, NEW c \in Contents \cup {None},
               UpdateTicket(r, u, t, c)
        PROVE  Refused(r) \/ Accepted(r)
    <2>1. CASE OwnerOnlyWhileOpen(r, u, t)
      BY <1>5, <2>1 DEF UpdateTicket, OwnerOnlyWhileOpen, Refused, Refuse, Goto
    <2>2. CASE /\ MayEdit(u, t)
               /\ Accept(r, "commit", "edit", u, t, tickets[t],
                         [tickets[t] EXCEPT !.content = c])
      <3> DEFINE new == [tickets[t] EXCEPT !.content = c]
      <3>0. Visible(u, t) /\ tickets[t].status = "open"
        BY <2>2 DEF MayEdit
      <3>1. new \in Draft /\ new.content = c
        BY <1>3, <3>0 DEF Draft
      <3>2. Sound(r, [op |-> "edit", user |-> u, ticket |-> t], tickets[t], new)
        BY <1>3, <3>0, <3>1 DEF Sound
      <3> QED
        BY <1>2, <1>3, <1>5, <2>2, <3>0, <3>1, <3>2 DEF UpdateTicket
    <2> QED
      BY <1>5, <2>1, <2>2 DEF UpdateTicket
  <1>6. ASSUME NEW u \in Users, NEW t \in TicketIds, DeleteTicket(r, u, t)
        PROVE  Refused(r) \/ Accepted(r)
    <2>1. CASE OwnerOnlyWhileOpen(r, u, t)
      BY <1>6, <2>1 DEF DeleteTicket, OwnerOnlyWhileOpen, Refused, Refuse, Goto
    <2>2. CASE MayEdit(u, t) /\ Accept(r, "cascade", "delete", u, t, tickets[t], tickets[t])
      <3>1. Visible(u, t) /\ tickets[t].status = "open"
        BY <2>2 DEF MayEdit
      <3>2. Sound(r, [op |-> "delete", user |-> u, ticket |-> t], tickets[t], tickets[t])
        BY <1>3, <3>1 DEF Sound
      <3> QED
        BY <1>2, <1>3, <1>6, <2>2, <3>1, <3>2 DEF DeleteTicket
    <2> QED
      BY <1>6, <2>1, <2>2 DEF DeleteTicket
  <1>7. ASSUME NEW u \in Users, NEW t \in TicketIds, CreateComment(r, u, t)
        PROVE  Refused(r) \/ Accepted(r)
    <2>1. CASE Refuse(r, "not_found")
      BY <1>7, <2>1 DEF CreateComment, Refused, Refuse, Goto
    <2>2. CASE Visible(u, t) /\ Accept(r, "commit", "comment", u, t, tickets[t], tickets[t])
      <3>1. Sound(r, [op |-> "comment", user |-> u, ticket |-> t], tickets[t], tickets[t])
        BY <1>3, <2>2 DEF Sound
      <3> QED
        BY <1>2, <1>3, <1>7, <2>2, <3>1 DEF CreateComment
    <2> QED
      BY <1>7, <2>1, <2>2 DEF CreateComment
  <1> QED
    BY <1>1, <1>4, <1>5, <1>6, <1>7 DEF Receive

-------------------------------------------------------------------------------
(* Type correctness, with what the checks established. *)

\* No request has begun, so the types and what the checks establish hold at once.
LEMMA InitTypes == Init => TypeOK /\ ChecksDone
  <1> SUFFICES ASSUME Init PROVE TypeOK /\ ChecksDone
    OBVIOUS
  <1>1. TypeOK
    BY DEF Init, TypeOK
  <1>2. ChecksDone
    BY DEF Init, ChecksDone, Waiting
  <1> QED
    BY <1>1, <1>2

\* The arrival of a request.
LEMMA ReceiveTypes ==
    ASSUME TypeOK, ChecksDone, NEW r \in Requests, Receive(r)
    PROVE  TypeOK' /\ ChecksDone'
  <1>1. CASE Refused(r)
    <2>1. TypeOK'
      BY <1>1 DEF Refused, TypeOK, Answers, db, local, events
    <2>2. ChecksDone'
      BY <1>1 DEF Refused, TypeOK, ChecksDone, Waiting, db, local, events
    <2> QED
      BY <2>1, <2>2
  <1>2. CASE Accepted(r)
    <2>1. PICK j \in Job, old \in Ticket \cup {None}, new \in Draft :
             /\ Sound(r, j, old, new)
             /\ pc' = [pc EXCEPT ![r] = IF j.op = "delete" THEN "cascade" ELSE "commit"]
             /\ job' = [job EXCEPT ![r] = j]
             /\ row' = [row EXCEPT ![r] = old]
             /\ attrs' = [attrs EXCEPT ![r] = new]
      BY <1>2 DEF Accepted
    <2>2. TypeOK'
      BY <1>2, <2>1 DEF Accepted, TypeOK, Waiting, db, events
    <2>3. ASSUME NEW q \in Requests, q # r
          PROVE  /\ pc'[q] = pc[q] /\ job'[q] = job[q]
                 /\ row'[q] = row[q] /\ attrs'[q] = attrs[q]
      BY <2>1, <2>3 DEF TypeOK
    <2>4. /\ pc'[r] = IF j.op = "delete" THEN "cascade" ELSE "commit"
          /\ job'[r] = j /\ row'[r] = old /\ attrs'[r] = new
      BY <2>1 DEF TypeOK
    <2>5. ChecksDone'
      BY <2>1, <2>3, <2>4 DEF ChecksDone, Sound, TypeOK, Waiting
    <2> QED
      BY <2>2, <2>5
  <1> QED
    BY <1>1, <1>2, ReceiveSteps

\* A step that moves one request and leaves every copy alone keeps ChecksDone,
\* if it moves it to an answer or from the commit towards the refresh.
LEMMA MovedChecks ==
    ASSUME TypeOK, ChecksDone, NEW r \in Requests, NEW p,
           pc' = [pc EXCEPT ![r] = p], UNCHANGED <<job, row, attrs>>,
           p \notin {"cascade", "commit"},
           p \in Waiting => pc[r] \in Waiting,
           p \in {"invalidate", "announce"} /\ job[r].op = "status" => row[r] \in Ticket
    PROVE  ChecksDone'
  BY DEF TypeOK, ChecksDone

\* What an UPDATE leaves is a row of the table.
LEMMA FlushedRow ==
    ASSUME NEW stored \in Ticket, NEW loaded \in Ticket, NEW new \in Draft, new.content # None
    PROVE  Flush(stored, loaded, new) \in Ticket
  BY DEF Flush, Ticket, Draft

\* Every action keeps the types and what the requests in flight have checked.
LEMMA StepTypes ==
    ASSUME TypeOK, ChecksDone, [Next]_vars
    PROVE  TypeOK' /\ ChecksDone'
  <1> USE DEF At, Goto, Raises, db, local, events
  <1>1. ASSUME NEW r \in Requests, Raises(r), pc[r] \in Waiting
        PROVE  TypeOK' /\ ChecksDone'
    <2>1. TypeOK'
      BY <1>1 DEF TypeOK, Answers
    <2>2. ChecksDone'
      BY <1>1 DEF TypeOK, ChecksDone, Waiting
    <2> QED
      BY <2>1, <2>2
  <1>2. ASSUME NEW r \in Requests, LoadCascade(r)
        PROVE  TypeOK' /\ ChecksDone'
    <2>1. TypeOK'
      BY <1>2 DEF LoadCascade, TypeOK, CommentsOf, Waiting
    <2>2. ChecksDone'
      BY <1>2 DEF LoadCascade, TypeOK, ChecksDone, Waiting
    <2> QED
      BY <2>1, <2>2
  <1>3. ASSUME NEW r \in Requests, CommitCreate(r)
        PROVE  TypeOK' /\ ChecksDone'
    <2>1. attrs[r] \in Ticket
      BY <1>3 DEF CommitCreate, ChecksDone
    <2>2. TypeOK'
      BY <1>3, <2>1 DEF CommitCreate, TypeOK, Waiting
    <2>3. ChecksDone'
      BY <1>3, MovedChecks DEF CommitCreate, Waiting
    <2> QED
      BY <2>2, <2>3
  <1>4. ASSUME NEW r \in Requests, CommitUpdate(r)
        PROVE  TypeOK' /\ ChecksDone'
    <2> DEFINE t == job[r].ticket
    <2>1. CASE RejectedUpdate(r) /\ Raises(r)
      BY <1>1, <1>4, <2>1 DEF CommitUpdate, Waiting
    <2>2. CASE ~RejectedUpdate(r) /\ ~Raises(r)
      <3>1. /\ tickets' = IF Changed(r)
                          THEN [tickets EXCEPT ![t] = Flush(@, row[r], attrs[r])]
                          ELSE tickets
            /\ pc' = [pc EXCEPT ![r] = "refresh"]
            /\ UNCHANGED <<comments, local, events>>
        BY <1>4, <2>2 DEF CommitUpdate
      <3>2. Changed(r) => /\ tickets[t] \in Ticket /\ attrs[r] \in Draft
                          /\ attrs[r].content # None
        BY <1>4, <2>2 DEF CommitUpdate, RejectedUpdate, ChecksDone, TypeOK, Waiting, Job
      <3>3. Changed(r) => Flush(tickets[t], row[r], attrs[r]) \in Ticket
        BY <3>2 DEF Flush, Ticket, Draft
      <3>4. TypeOK'
        BY <3>1, <3>3 DEF TypeOK, Waiting
      <3>5. ChecksDone'
        <4>1. pc' = [pc EXCEPT ![r] = "refresh"] /\ UNCHANGED <<job, row, attrs>>
          BY <3>1
        <4>2. pc[r] \in Waiting
          BY <1>4 DEF CommitUpdate, Waiting
        <4> QED
          BY <4>1, <4>2, MovedChecks
      <3> QED
        BY <3>4, <3>5
    <2> QED
      BY <1>1, <1>4, <2>1, <2>2 DEF CommitUpdate, Waiting
  <1>5. ASSUME NEW r \in Requests, CommitDelete(r)
        PROVE  TypeOK' /\ ChecksDone'
    <2>1. CASE Raises(r)
      BY <1>1, <1>5, <2>1 DEF CommitDelete, Waiting
    <2>2. CASE ~Raises(r)
      <3>1. TypeOK'
        BY <1>5, <2>2 DEF CommitDelete, TypeOK, Waiting
      <3>2. ChecksDone'
        BY <1>5, <2>2, MovedChecks DEF CommitDelete, Waiting
      <3> QED
        BY <3>1, <3>2
    <2> QED
      BY <2>1, <2>2
  <1>6. ASSUME NEW r \in Requests, CommitComment(r)
        PROVE  TypeOK' /\ ChecksDone'
    <2>1. CASE Raises(r)
      BY <1>1, <1>6, <2>1 DEF CommitComment, Waiting
    <2>2. CASE ~Raises(r)
      <3>1. job[r] \in Job
        BY <1>6 DEF CommitComment, ChecksDone, Waiting
      <3>2. [id |-> r, ticket |-> job[r].ticket, author |-> job[r].user] \in Comment
        BY <3>1 DEF Job, Comment
      <3>3. TypeOK'
        BY <1>6, <2>2, <3>2 DEF CommitComment, TypeOK, Waiting
      <3>4. ChecksDone'
        BY <1>6, <2>2, MovedChecks DEF CommitComment, Waiting
      <3> QED
        BY <3>3, <3>4
    <2> QED
      BY <2>1, <2>2
  <1>7. ASSUME NEW r \in Requests, RefreshTicket(r)
        PROVE  TypeOK' /\ ChecksDone'
    <2> DEFINE stored == tickets[job[r].ticket]
    <2>1. CASE Raises(r)
      BY <1>1, <1>7, <2>1 DEF RefreshTicket, Waiting
    <2>2. CASE ~Raises(r)
      <3>1. stored \in Ticket
        BY <1>7, <2>2 DEF RefreshTicket, TypeOK, ChecksDone, Waiting, Job
      <3>2. TypeOK'
        BY <1>7, <2>2, <3>1 DEF RefreshTicket, TypeOK, Waiting
      <3>3. ChecksDone'
        BY <1>7, <2>2, <3>1 DEF RefreshTicket, TypeOK, ChecksDone, Waiting
      <3> QED
        BY <3>2, <3>3
    <2> QED
      BY <2>1, <2>2
  <1>8. ASSUME NEW r \in Requests, RefreshComment(r)
        PROVE  TypeOK' /\ ChecksDone'
    <2>1. TypeOK'
      BY <1>8 DEF RefreshComment, TypeOK, Waiting, Answers
    <2>2. ChecksDone'
      BY <1>8 DEF RefreshComment, TypeOK, ChecksDone, Waiting
    <2> QED
      BY <2>1, <2>2
  <1>9. ASSUME NEW r \in Requests, Invalidated(r)
        PROVE  TypeOK' /\ ChecksDone'
    <2>1. TypeOK'
      BY <1>9 DEF Invalidated, TypeOK, Waiting, Answers
    <2>2. ChecksDone'
      BY <1>9 DEF Invalidated, TypeOK, ChecksDone, Waiting
    <2> QED
      BY <2>1, <2>2
  <1>10. ASSUME NEW r \in Requests, Announce(r)
         PROVE  TypeOK' /\ ChecksDone'
    <2> DEFINE e == [req |-> r, op |-> job[r].op, ticket |-> job[r].ticket,
                     status |-> IF job[r].op = "status" THEN row[r].status ELSE None]
    <2>1. job[r] \in Job /\ (job[r].op = "status" => row[r] \in Ticket)
      BY <1>10 DEF Announce, ChecksDone, Waiting
    <2>2. e \in Event
      BY <1>10, <2>1 DEF Announce, Event, Job, Ticket
    <2>3. TypeOK'
      BY <1>10, <2>2 DEF Announce, TypeOK, Answers
    <2>4. ChecksDone'
      BY <1>10, MovedChecks DEF Announce, Waiting
    <2> QED
      BY <2>3, <2>4
  <1>11. ASSUME NEW r \in Requests, StoreFails(r)
         PROVE  TypeOK' /\ ChecksDone'
    BY <1>1, <1>11 DEF StoreFails, Waiting
  <1>12. CASE Crash
    <2>1. TypeOK'
      BY <1>12 DEF Crash, TypeOK, Answers
    <2>2. ChecksDone'
      BY <1>12 DEF Crash, TypeOK, ChecksDone, Waiting
    <2> QED
      BY <2>1, <2>2
  <1>13. CASE UNCHANGED vars
    BY <1>13 DEF vars, TypeOK, ChecksDone
  <1> QED
    BY <1>2, <1>3, <1>4, <1>5, <1>6, <1>7, <1>8, <1>9, <1>10, <1>11, <1>12, <1>13,
       ReceiveTypes DEF Next, Handle, Resume

\* The tables and the handlers' copies keep their types under races, faults and
\* crashes; in particular no null is ever stored.
THEOREM TypeCorrect == Spec => []TypeOK
  <1>1. Spec => [](TypeOK /\ ChecksDone)
    BY InitTypes, StepTypes, PTL DEF Spec
  <1> QED
    BY <1>1, PTL
-------------------------------------------------------------------------------
(* The tables: which steps write them, and what the ids name. *)

Commit(r) ==
    \/ CommitCreate(r) /\ tickets' = [tickets EXCEPT ![r] = attrs[r]]
    \/ CommitUpdate(r) /\ ~RejectedUpdate(r) /\ Changed(r)
    \/ CommitDelete(r) /\ ~RejectedDelete(r)
    \/ CommitComment(r) /\ tickets[job[r].ticket] # None

\* Only a successful commit writes the tables.
LEMMA WriteSteps ==
    ASSUME [Next]_vars
    PROVE  UNCHANGED db \/ \E r \in Requests : Commit(r)
  <1> USE DEF db
  <1>1. ASSUME NEW r \in Requests, Receive(r)
        PROVE  UNCHANGED db
    BY <1>1 DEF Receive, CreateTicket, ChangeStatus, UpdateTicket, DeleteTicket,
                CreateComment, OwnerOnlyWhileOpen, Refuse, Accept
  <1>2. ASSUME NEW r \in Requests, Resume(r)
        PROVE  UNCHANGED db \/ Commit(r)
    BY <1>2 DEF Resume, LoadCascade, CommitCreate, CommitUpdate, CommitDelete, CommitComment,
                RefreshTicket, RefreshComment, Invalidated, Announce, Raises, Commit
  <1> QED
    BY <1>1, <1>2 DEF Next, Handle, StoreFails, Crash, vars

\* A request stays as it is, is let through by its checks, loads its cascade, or
\* has its commit behind it: nobody else's step touches it.
LEMMA Progress ==
    ASSUME TypeOK, [Next]_vars, NEW q \in Requests
    PROVE  \/ /\ pc'[q] = pc[q] /\ job'[q] = job[q]
              /\ row'[q] = row[q] /\ attrs'[q] = attrs[q] /\ kids'[q] = kids[q]
           \/ Accepted(q)
           \/ LoadCascade(q)
           \/ pc'[q] \notin Undecided
  <1> DEFINE Stays == /\ pc'[q] = pc[q] /\ job'[q] = job[q]
                      /\ row'[q] = row[q] /\ attrs'[q] = attrs[q] /\ kids'[q] = kids[q]
             Goal == Stays \/ Accepted(q) \/ LoadCascade(q) \/ pc'[q] \notin Undecided
  <1> USE DEF TypeOK, Undecided, Waiting, Answers, Goto, At, Raises, local
  <1>1. ASSUME NEW r \in Requests, Receive(r)
        PROVE  Goal
    <2>1. CASE Refused(r)
      BY <2>1 DEF Refused
    <2>2. CASE Accepted(r) /\ q # r
      <3>1. PICK j \in Job, old \in Ticket \cup {None}, new \in Draft :
               /\ pc' = [pc EXCEPT ![r] = IF j.op = "delete" THEN "cascade" ELSE "commit"]
               /\ job' = [job EXCEPT ![r] = j]
               /\ row' = [row EXCEPT ![r] = old]
               /\ attrs' = [attrs EXCEPT ![r] = new]
        BY <2>2 DEF Accepted
      <3> QED
        BY <2>2, <3>1 DEF Accepted
    <2> QED
      BY <1>1, <2>1, <2>2, ReceiveSteps
  <1>2. ASSUME NEW r \in Requests, Resume(r)
        PROVE  Goal
    <2>1. CASE LoadCascade(r)
      BY <2>1 DEF LoadCascade
    <2>2. CASE CommitCreate(r)
      BY <2>2 DEF CommitCreate
    <2>3. CASE CommitUpdate(r)
      BY <2>3 DEF CommitUpdate
    <2>4. CASE CommitDelete(r)
      BY <2>4 DEF CommitDelete
    <2>5. CASE CommitComment(r)
      BY <2>5 DEF CommitComment
    <2>6. CASE RefreshTicket(r)
      BY <2>6 DEF RefreshTicket
    <2>7. CASE RefreshComment(r)
      BY <2>7 DEF RefreshComment
    <2>8. CASE Invalidated(r) \/ Announce(r)
      BY <2>8 DEF Invalidated, Announce
    <2> QED
      BY <1>2, <2>1, <2>2, <2>3, <2>4, <2>5, <2>6, <2>7, <2>8 DEF Resume
  <1>3. ASSUME NEW r \in Requests, StoreFails(r)
        PROVE  Goal
    BY <1>3 DEF StoreFails
  <1>4. CASE Crash
    BY <1>4 DEF Crash
  <1>5. CASE UNCHANGED vars
    BY <1>5 DEF vars
  <1> QED
    BY <1>1, <1>2, <1>3, <1>4, <1>5 DEF Next, Handle

\* What the commits need of the types.
Held == TypeOK /\ ChecksDone

\* Nobody else takes the id a request will give to its new row.
LEMMA IdsUnusedStep ==
    ASSUME Held, IdsUnused, [Next]_vars
    PROVE  IdsUnused'
  <1> SUFFICES ASSUME NEW q \in Requests, pc'[q] \in Undecided
               PROVE  tickets'[q] = None
    BY DEF IdsUnused
  <1>1. pc[q] \in Undecided /\ tickets[q] = None
    BY Progress DEF Held, IdsUnused, Accepted, LoadCascade, At, Undecided
  <1>2. CASE UNCHANGED db
    BY <1>1, <1>2 DEF db
  <1>3. ASSUME NEW r \in Requests, Commit(r)
        PROVE  tickets'[q] = None
    <2>1. CASE CommitCreate(r) /\ tickets' = [tickets EXCEPT ![r] = attrs[r]]
      <3>1. pc'[r] = "refresh"
        BY <2>1 DEF CommitCreate, Goto, Held, TypeOK
      <3>2. q # r
        BY <3>1 DEF Undecided
      <3> QED
        BY <1>1, <2>1, <3>2 DEF Held, TypeOK
    <2>2. CASE CommitUpdate(r) /\ ~RejectedUpdate(r) /\ Changed(r)
      <3>1. job[r].ticket # q
        BY <1>1, <2>2 DEF RejectedUpdate
      <3> QED
        BY <1>1, <2>2, <3>1 DEF CommitUpdate, Held, TypeOK, TicketIds
    <2>3. CASE CommitDelete(r) /\ ~RejectedDelete(r)
      BY <1>1, <2>3 DEF CommitDelete, Held, TypeOK, TicketIds
    <2>4. CASE CommitComment(r) /\ tickets[job[r].ticket] # None
      BY <1>1, <2>4 DEF CommitComment
    <2> QED
      BY <1>3, <2>1, <2>2, <2>3, <2>4 DEF Commit
  <1> QED
    BY <1>2, <1>3, WriteSteps
-------------------------------------------------------------------------------
(* What a step does to the ticket table. *)

Creates(r) ==
    /\ pc[r] = "commit" /\ job[r].op = "create" /\ tickets[r] = None
    /\ attrs[r] \in Ticket /\ attrs[r].status = "open"
    /\ tickets' = [tickets EXCEPT ![r] = attrs[r]]

Updates(r) ==
    LET t == job[r].ticket
    IN  /\ pc[r] = "commit" /\ t \in TicketIds
        /\ job[r].op \in {"status", "edit"}
        /\ tickets[t] \in Ticket /\ tickets[t] # None
        /\ row[r] \in Ticket /\ attrs[r] \in Draft /\ attrs[r].content # None
        /\ tickets' = [tickets EXCEPT ![t] = Flush(@, row[r], attrs[r])]

Deletes(r) ==
    LET t == job[r].ticket
    IN  /\ pc[r] = "commit" /\ t \in TicketIds
        /\ job[r].op = "delete" /\ row[r].status = "open"
        /\ tickets' = [tickets EXCEPT ![t] = None]

\* What a step may do to one ticket's row: insert it, flush into it, or delete it.
LEMMA TicketWrites ==
    ASSUME Held, IdsUnused, [Next]_vars
    PROVE  \/ UNCHANGED tickets
           \/ \E r \in Requests : pc'[r] # "commit" /\ (Creates(r) \/ Updates(r) \/ Deletes(r))
  <1> USE DEF Held
  <1>1. ASSUME NEW r \in Requests, CommitCreate(r), tickets' = [tickets EXCEPT ![r] = attrs[r]]
        PROVE  Creates(r) /\ pc'[r] # "commit"
    <2>1. pc[r] = "commit" /\ job[r].op = "create" /\ pc'[r] = "refresh"
      BY <1>1 DEF CommitCreate, At, Goto, TypeOK
    <2>2. tickets[r] = None
      BY <2>1 DEF IdsUnused, Undecided
    <2> QED
      BY <1>1, <2>1, <2>2 DEF Creates, ChecksDone
  <1>2. ASSUME NEW r \in Requests, CommitUpdate(r), ~RejectedUpdate(r), Changed(r)
        PROVE  Updates(r) /\ pc'[r] # "commit"
    <2>1. /\ pc[r] = "commit" /\ job[r].op \in {"status", "edit"} /\ job[r] \in Job
          /\ pc'[r] = "refresh"
      BY <1>2 DEF CommitUpdate, At, Goto, TypeOK, ChecksDone, Waiting
    <2>2. job[r].ticket \in TicketIds
      BY <2>1 DEF Job
    <2>3. tickets[job[r].ticket] # None /\ attrs[r].content # None
      BY <1>2 DEF RejectedUpdate
    <2>4. row[r] \in Ticket /\ attrs[r] \in Draft
      BY <2>1 DEF ChecksDone
    <2> QED
      BY <1>2, <2>1, <2>2, <2>3, <2>4 DEF CommitUpdate, Updates, TypeOK
  <1>3. ASSUME NEW r \in Requests, CommitDelete(r), ~RejectedDelete(r)
        PROVE  Deletes(r) /\ pc'[r] # "commit"
    <2>1. /\ pc[r] = "commit" /\ job[r].op = "delete" /\ job[r] \in Job
          /\ pc'[r] = "invalidate"
      BY <1>3 DEF CommitDelete, At, Goto, TypeOK, ChecksDone, Waiting
    <2>2. row[r].status = "open"
      BY <2>1 DEF ChecksDone
    <2> QED
      BY <1>3, <2>1, <2>2 DEF CommitDelete, Deletes, Job
  <1>4. ASSUME NEW r \in Requests, CommitComment(r), tickets[job[r].ticket] # None
        PROVE  UNCHANGED tickets
    BY <1>4 DEF CommitComment
  <1> QED
    BY <1>1, <1>2, <1>3, <1>4, WriteSteps DEF Commit, db

\* An id gets a row only from the request of that name, and a row keeps its owner.
LEMMA OwnersKept ==
    ASSUME Held, IdsUnused, [Next]_vars, NEW t \in TicketIds, tickets'[t] # None
    PROVE  \/ tickets[t] # None /\ tickets'[t].owner = tickets[t].owner
           \/ t \in Requests /\ pc[t] = "commit"
  <1> DEFINE Goal == \/ tickets[t] # None /\ tickets'[t].owner = tickets[t].owner
                     \/ t \in Requests /\ pc[t] = "commit"
  <1> USE DEF Held, TypeOK, TicketIds
  <1>1. ASSUME NEW r \in Requests, Creates(r)
        PROVE  Goal
    BY <1>1 DEF Creates
  <1>2. ASSUME NEW r \in Requests, Updates(r)
        PROVE  Goal
    BY <1>2 DEF Updates, Flush, Ticket
  <1>3. ASSUME NEW r \in Requests, Deletes(r)
        PROVE  Goal
    BY <1>3 DEF Deletes
  <1> QED
    BY <1>1, <1>2, <1>3, TicketWrites

\* A loaded ticket's id is never given to a new ticket, so its owner stays.
LEMMA SameTicketStep ==
    ASSUME Held, IdsUnused, SameTicket, [Next]_vars
    PROVE  SameTicket'
  <1> SUFFICES ASSUME NEW q \in Requests, pc'[q] \in {"cascade", "commit"}, job'[q].op # "create"
               PROVE  LET t == job'[q].ticket
                      IN  /\ t \in Requests => pc'[t] \notin Undecided
                          /\ tickets'[t] # None => tickets'[t].owner = row'[q].owner
    BY DEF SameTicket
  <1> DEFINE t == job'[q].ticket
  <1>1. ASSUME NEW s \in Requests, pc[s] \notin Undecided
        PROVE  pc'[s] \notin Undecided
    BY <1>1, Progress DEF Held, Accepted, LoadCascade, At, Undecided
  <1>2. CASE /\ pc[q] \in {"cascade", "commit"}
             /\ job'[q] = job[q] /\ row'[q] = row[q]
    <2>1. t \in TicketIds
      BY <1>2 DEF Held, ChecksDone, Waiting, Job
    <2>2. /\ t \in Requests => pc[t] \notin Undecided
          /\ tickets[t] # None => tickets[t].owner = row[q].owner
      BY <1>2 DEF SameTicket
    <2> QED
      BY <1>1, <1>2, <2>1, <2>2, OwnersKept DEF Undecided
  <1>3. CASE Accepted(q)
    <2>1. /\ job'[q] \in Job /\ tickets' = tickets
          /\ row'[q] = tickets[t] /\ tickets[t] # None
      BY <1>3 DEF Accepted, Sound, Held, TypeOK, db
    <2>2. t \in Requests => pc[t] \notin Undecided
      BY <2>1 DEF IdsUnused
    <2> QED
      BY <1>1, <2>1, <2>2
  <1>4. CASE LoadCascade(q)
    BY <1>2, <1>4 DEF LoadCascade, At
  <1> QED
    BY <1>2, <1>3, <1>4, Progress DEF Held, Undecided
-------------------------------------------------------------------------------
(* Comments and their tickets. *)

\* No step separates a comment from its ticket: the foreign key guards both sides.
LEMMA CommentsBelongStep ==
    ASSUME Held, IdsUnused, SameTicket, CommentsBelong, [Next]_vars
    PROVE  CommentsBelong'
  <1> USE DEF Held
  <1> DEFINE Belongs(k) == /\ tickets'[k.ticket] # None
                           /\ k.author \in Agents \/ k.author = tickets'[k.ticket].owner
  <1> SUFFICES ASSUME NEW k \in comments' PROVE Belongs(k)
    BY DEF CommentsBelong
  <1>1. ASSUME k \in comments, tickets'[k.ticket] # None
        PROVE  Belongs(k)
    <2>1. k.ticket \in TicketIds
      BY <1>1 DEF TypeOK, Comment
    <2>2. k.ticket \in Requests => pc[k.ticket] # "commit"
      BY <1>1 DEF IdsUnused, Undecided, CommentsBelong
    <2> QED
      BY <1>1, <2>1, <2>2, OwnersKept DEF CommentsBelong
  <1>2. CASE UNCHANGED db
    BY <1>2 DEF CommentsBelong, db
  <1>3. ASSUME NEW r \in Requests, Commit(r)
        PROVE  Belongs(k)
    <2>1. CASE CommitCreate(r) /\ tickets' = [tickets EXCEPT ![r] = attrs[r]]
      <3>1. tickets[r] = None
        BY <2>1 DEF CommitCreate, At, IdsUnused, Undecided
      <3>2. k \in comments /\ k.ticket \in TicketIds /\ k.ticket # r
        BY <2>1, <3>1 DEF CommitCreate, TypeOK, Comment, CommentsBelong
      <3> QED
        BY <1>1, <2>1, <3>2 DEF TypeOK, CommentsBelong
    <2>2. CASE CommitUpdate(r) /\ ~RejectedUpdate(r) /\ Changed(r)
      <3>1. k \in comments /\ k.ticket \in TicketIds
        BY <2>2 DEF CommitUpdate, TypeOK, Comment
      <3>2. tickets[k.ticket] # None
        BY <3>1 DEF CommentsBelong
      <3>3. tickets'[k.ticket] = tickets[k.ticket] \/
            tickets'[k.ticket] = Flush(tickets[k.ticket], row[r], attrs[r])
        BY <2>2, <3>1 DEF CommitUpdate, TypeOK
      <3>4. /\ row[r] \in Ticket /\ attrs[r] \in Draft
            /\ k.ticket = job[r].ticket => attrs[r].content # None
        BY <2>2 DEF CommitUpdate, At, ChecksDone, RejectedUpdate
      <3>5. CASE k.ticket = job[r].ticket
        <4>1. Flush(tickets[k.ticket], row[r], attrs[r]) \in Ticket
          <5>1. tickets[k.ticket] \in Ticket
            BY <3>1, <3>2 DEF TypeOK
          <5> QED
            BY <3>4, <3>5, <5>1, FlushedRow
        <4> QED
          BY <1>1, <3>1, <3>2, <3>3, <4>1, NoneIsNoValue
      <3>6. CASE k.ticket # job[r].ticket
        BY <1>1, <2>2, <3>1, <3>2, <3>6 DEF CommitUpdate, TypeOK
      <3> QED
        BY <3>5, <3>6
    <2>3. CASE CommitDelete(r) /\ ~RejectedDelete(r)
      <3>1. /\ comments' = comments \ kids[r]
            /\ tickets' = [tickets EXCEPT ![job[r].ticket] = None]
        BY <2>3 DEF CommitDelete
      <3>2. k \in comments /\ k \notin CommentsOf(job[r].ticket) /\ k.ticket \in TicketIds
        BY <2>3, <3>1 DEF RejectedDelete, TypeOK, Comment
      <3>3. k.ticket # job[r].ticket
        BY <3>2 DEF CommentsOf
      <3> QED
        BY <1>1, <3>1, <3>2, <3>3 DEF TypeOK, CommentsBelong
    <2>4. CASE CommitComment(r) /\ tickets[job[r].ticket] # None
      <3> DEFINE new == [id |-> r, ticket |-> job[r].ticket, author |-> job[r].user]
      <3>1. tickets' = tickets /\ comments' = comments \cup {new}
        BY <2>4 DEF CommitComment
      <3>2. /\ job[r].user \in Agents \/ job[r].user = row[r].owner
            /\ tickets[job[r].ticket].owner = row[r].owner
        BY <2>4 DEF CommitComment, At, ChecksDone, SameTicket
      <3> QED
        BY <2>4, <3>1, <3>2 DEF CommentsBelong
    <2> QED
      BY <1>3, <2>1, <2>2, <2>3, <2>4 DEF Commit
  <1> QED
    BY <1>2, <1>3, WriteSteps

\* The inductive invariant of the tables.
IInv == Held /\ IdsUnused /\ SameTicket /\ CommentsBelong

\* The inductive invariant holds before the first request.
LEMMA InitIInv == Init => IInv
  <1> SUFFICES ASSUME Init PROVE IInv
    OBVIOUS
  <1>1. IdsUnused /\ SameTicket /\ CommentsBelong
    BY RequestsAreFresh DEF Init, IdsUnused, SameTicket, CommentsBelong, TicketIds
  <1> QED
    BY <1>1, InitTypes DEF IInv, Held

\* The inductive invariant is kept by every step, each part with the help of the others.
LEMMA StepIInv == IInv /\ [Next]_vars => IInv'
  BY StepTypes, IdsUnusedStep, SameTicketStep, CommentsBelongStep DEF IInv, Held

\* The inductive invariant holds of every behaviour; the theorems below read it off.
LEMMA Invariance == Spec => []IInv
  BY InitIInv, StepIInv, PTL DEF Spec

\* However a comment races with the deletion of its ticket, the foreign key and the
\* loaded cascade leave no comment without its ticket, and none by a stranger.
THEOREM NoOrphanComments == Spec => []CommentsBelong
  <1>1. IInv => CommentsBelong
    BY DEF IInv
  <1> QED
    BY <1>1, Invariance, PTL

-------------------------------------------------------------------------------
(* Steps of the ticket table. *)

\* The columns the commits write never hold `open` where the row did not.
LEMMA RowsGoOn ==
    ASSUME IInv, [Next]_vars, NEW t \in TicketIds, tickets[t] # None, tickets'[t] # None
    PROVE  /\ tickets'[t].owner = tickets[t].owner
           /\ tickets'[t].status = "open" => tickets[t].status = "open"
  <1> DEFINE Kept == /\ tickets'[t].owner = tickets[t].owner
                     /\ tickets'[t].status = "open" => tickets[t].status = "open"
  <1> USE DEF IInv, Held, TypeOK
  <1>1. ASSUME NEW r \in Requests, Creates(r)
        PROVE  Kept
    BY <1>1 DEF Creates
  <1>2. ASSUME NEW r \in Requests, Updates(r)
        PROVE  Kept
    <2>1. attrs[r].status # row[r].status => attrs[r].status # "open"
      <3>1. row[r] \in Ticket /\ pc[r] = "commit"
        BY <1>2 DEF Updates
      <3>2. CASE job[r].op = "status"
        BY <3>1, <3>2 DEF ChecksDone, CanMove, ALLOWED_STATUS_TRANSITIONS
      <3>3. CASE job[r].op = "edit"
        BY <3>1, <3>3 DEF ChecksDone, Ticket
      <3> QED
        BY <1>2, <3>2, <3>3 DEF Updates
    <2> QED
      BY <1>2, <2>1 DEF Updates, Flush, Ticket
  <1>3. ASSUME NEW r \in Requests, Deletes(r)
        PROVE  Kept
    BY <1>3 DEF Deletes
  <1> QED
    BY <1>1, <1>2, <1>3, TicketWrites

\* Even the lost updates of racing requests never bring a ticket back to `open`
\* nor give it another owner.
THEOREM OpenIsLeftForGood == Spec => NeverReopened
  <1> DEFINE Kept == \A t \in TicketIds :
                        tickets[t] # None /\ tickets'[t] # None =>
                           /\ tickets'[t].owner = tickets[t].owner
                           /\ tickets'[t].status = "open" => tickets[t].status = "open"
  <1>1. ASSUME IInv, [Next]_vars
        PROVE  [Kept]_tickets
    BY <1>1, RowsGoOn
  <1>2. [][Next]_vars /\ []IInv => [][Kept]_tickets
    BY <1>1, PTL
  <1> QED
    BY <1>2, Invariance, PTL DEF Spec, NeverReopened

-------------------------------------------------------------------------------
(* What is acknowledged. *)

\* The request's writes are in the tables.
Written(r) == pc[r] \in {"refresh", "invalidate", "announce", "ok"}

\* The request is about a ticket that exists, or did.
Begun(r) == Written(r) \/ (pc[r] \in {"cascade", "commit"} /\ job[r].op # "create")

Gone(t) ==
    \E d \in Requests : /\ job[d] # None /\ job[d].op = "delete" /\ job[d].ticket = t
                        /\ pc[d] \in {"invalidate", "ok", "error", "lost"}

\* Its id is not given to another ticket, and only a deletion takes the ticket away.
TicketsKnown ==
    \A r \in Requests : Begun(r) =>
       LET t == job[r].ticket
       IN  /\ job[r] \in Job
           /\ t \in Requests => pc[t] \notin Undecided
           /\ tickets[t] = None => Gone(t)

KidsOwn ==
    \A r \in Requests : pc[r] = "commit" /\ job[r].op = "delete" =>
       \A k \in kids[r] : k.ticket = job[r].ticket

\* AcknowledgedWritesLast from the commit on, before there is an answer.
WritesLast ==
    \A r \in Requests : Written(r) =>
       LET t == job[r].ticket
       IN  /\ job[r].op = "delete" => tickets[t] = None
           /\ job[r].op = "comment" =>
                 tickets[t] = None \/ \E k \in comments : k.id = r /\ k.ticket = t
           /\ job[r].op = "status" => tickets[t] = None \/ tickets[t].status # "open"
           /\ pc[r] = "ok" /\ job[r].op \in {"create", "status"} => r \in scheduled

AInv == IInv /\ TicketsKnown /\ KidsOwn /\ WritesLast

Succeeds(q) ==
    /\ pc[q] = "commit" /\ Written(q)' /\ pc'[q] # "ok"
    /\ CommitCreate(q) \/ CommitUpdate(q) \/ CommitDelete(q) \/ CommitComment(q)
    /\ job[q].op = "delete" => pc'[q] = "invalidate"

GoesOn(q) ==
    /\ Written(q) /\ pc[q] # "ok" /\ Written(q)'
    /\ pc'[q] = "ok" /\ job[q].op \in {"create", "status"} => q \in scheduled'
    /\ job[q].op = "delete" => pc'[q] = "ok"

\* A request arrives, or its job is settled; then it moves towards its answer.
LEMMA Moves ==
    ASSUME TypeOK, [Next]_vars, NEW q \in Requests
    PROVE  /\ scheduled \subseteq scheduled'
           /\ \/ Accepted(q) \/ Refused(q)
              \/ /\ job'[q] = job[q]
                 /\ \/ pc'[q] = pc[q] \/ LoadCascade(q) \/ Succeeds(q) \/ GoesOn(q)
                    \/ pc[q] \in Waiting /\ pc'[q] \in {"error", "lost"}
  <1> DEFINE Known == /\ job'[q] = job[q]
                      /\ \/ pc'[q] = pc[q] \/ LoadCascade(q) \/ Succeeds(q) \/ GoesOn(q)
                         \/ pc[q] \in Waiting /\ pc'[q] \in {"error", "lost"}
             Goal == /\ scheduled \subseteq scheduled'
                     /\ Accepted(q) \/ Refused(q) \/ Known
  <1> USE DEF TypeOK, Waiting, Answers, Goto, At, Raises, local, events, Written
  <1>1. ASSUME NEW r \in Requests, Receive(r)
        PROVE  Goal
    <2>1. CASE Refused(r)
      BY <2>1 DEF Refused
    <2>2. CASE Accepted(r) /\ q # r
      <3>1. PICK j \in Job, old \in Ticket \cup {None}, new \in Draft :
               /\ pc' = [pc EXCEPT ![r] = IF j.op = "delete" THEN "cascade" ELSE "commit"]
               /\ job' = [job EXCEPT ![r] = j]
        BY <2>2 DEF Accepted
      <3> QED
        BY <2>2, <3>1 DEF Accepted
    <2>3. CASE Accepted(q)
      BY <2>3 DEF Accepted
    <2> QED
      BY <1>1, <2>1, <2>2, <2>3, ReceiveSteps
  <1>2. ASSUME NEW r \in Requests, Resume(r)
        PROVE  Goal
    <2>1. CASE LoadCascade(r)
      BY <2>1 DEF LoadCascade
    <2>2. CASE CommitCreate(r)
      BY <2>2 DEF CommitCreate, Succeeds
    <2>3. CASE CommitUpdate(r)
      BY <2>3 DEF CommitUpdate, Succeeds
    <2>4. CASE CommitDelete(r)
      BY <2>4 DEF CommitDelete, Succeeds
    <2>5. CASE CommitComment(r)
      BY <2>5 DEF CommitComment, Succeeds
    <2>6. CASE RefreshTicket(r)
      BY <2>6 DEF RefreshTicket, GoesOn
    <2>7. CASE RefreshComment(r)
      BY <2>7 DEF RefreshComment, GoesOn
    <2>8. CASE Invalidated(r)
      BY <2>8 DEF Invalidated, GoesOn
    <2>9. CASE Announce(r)
      BY <2>9 DEF Announce, GoesOn
    <2> QED
      BY <1>2, <2>1, <2>2, <2>3, <2>4, <2>5, <2>6, <2>7, <2>8, <2>9 DEF Resume
  <1>3. ASSUME NEW r \in Requests, StoreFails(r)
        PROVE  Goal
    BY <1>3 DEF StoreFails
  <1>4. CASE Crash
    BY <1>4 DEF Crash
  <1>5. CASE UNCHANGED vars
    BY <1>5 DEF vars
  <1> QED
    BY <1>1, <1>2, <1>3, <1>4, <1>5 DEF Next, Handle

\* A deletion that is not before its commit has taken place or has failed for good.
LEMMA DeletesEnd ==
    ASSUME TypeOK, [Next]_vars, NEW d \in Requests, job[d].op = "delete", pc'[d] # "commit",
           pc[d] \in {"commit", "invalidate", "ok", "error", "lost"}
    PROVE  job'[d] = job[d] /\ pc'[d] \in {"invalidate", "ok", "error", "lost"}
  BY Moves DEF Accepted, Refused, LoadCascade, At, Succeeds, GoesOn, Waiting

\* A ticket that goes is one a request has deleted, and it stays gone.
LEMMA GoneStays ==
    ASSUME IInv, [Next]_vars, NEW t \in TicketIds
    PROVE  /\ Gone(t) => Gone(t)'
           /\ tickets[t] # None /\ tickets'[t] = None => Gone(t)'
  <1> USE DEF IInv, Held
  <1>1. ASSUME NEW d \in Requests, job[d] # None, job[d].op = "delete", job[d].ticket = t,
               pc[d] \in {"invalidate", "ok", "error", "lost"}
        PROVE  Gone(t)'
    <2>1. pc'[d] # "commit"
      BY <1>1, Moves DEF Accepted, Refused, LoadCascade, At, Succeeds, GoesOn, Written
    <2> QED
      BY <1>1, <2>1, DeletesEnd DEF Gone
  <1>2. ASSUME tickets[t] # None, tickets'[t] = None
        PROVE  Gone(t)'
    <2>1. PICK r \in Requests : pc'[r] # "commit" /\ (Creates(r) \/ Updates(r) \/ Deletes(r))
      BY <1>2, TicketWrites
    <2>2. ~Creates(r)
      BY <1>2, NoneIsNoValue DEF Creates, TypeOK, TicketIds
    <2>3. ~Updates(r)
      <3> SUFFICES ASSUME Updates(r)
                   PROVE  FALSE
        OBVIOUS
      <3>1. Flush(tickets[job[r].ticket], row[r], attrs[r]) \in Ticket
        BY FlushedRow DEF Updates
      <3> QED
        BY <1>2, <3>1, NoneIsNoValue DEF Updates, TypeOK
    <2>4. Deletes(r) /\ job[r].ticket = t
      BY <1>2, <2>1, <2>2, <2>3 DEF Deletes, TypeOK
    <2>5. job'[r] = job[r] /\ pc'[r] \in {"invalidate", "ok", "error", "lost"}
      BY <2>1, <2>4, DeletesEnd DEF Deletes
    <2>6. job[r] # None
      BY <2>4, NoneIsNoJob DEF Deletes, ChecksDone, Waiting
    <2> QED
      BY <2>4, <2>5, <2>6 DEF Gone, Deletes
  <1> QED
    BY <1>1, <1>2 DEF Gone

\* A ticket a request is about is neither replaced by another nor brought back.
LEMMA StaysGone ==
    ASSUME IInv, [Next]_vars, NEW t \in TicketIds, t \in Requests => pc[t] \notin Undecided
    PROVE  /\ t \in Requests => pc'[t] \notin Undecided
           /\ tickets[t] = None => tickets'[t] = None
  <1>1. t \in Requests => pc'[t] \notin Undecided
    BY Progress DEF IInv, Held, Accepted, LoadCascade, At, Undecided
  <1>2. tickets[t] = None => tickets'[t] = None
    BY OwnersKept DEF IInv, Undecided
  <1> QED
    BY <1>1, <1>2

\* No request is left with a ticket that vanished without a deletion.
LEMMA TicketsKnownStep ==
    ASSUME IInv, TicketsKnown, [Next]_vars
    PROVE  TicketsKnown'
  <1> USE DEF IInv, Held
  <1> SUFFICES ASSUME NEW q \in Requests, Begun(q)', NEW t, t = job'[q].ticket
               PROVE  /\ job'[q] \in Job
                      /\ t \in Requests => pc'[t] \notin Undecided
                      /\ tickets'[t] = None => Gone(t)'
    BY DEF TicketsKnown, Gone
  <1>1. CASE Begun(q) /\ job'[q] = job[q]
    <2>1. /\ job[q] \in Job /\ t \in TicketIds
          /\ t \in Requests => pc[t] \notin Undecided
          /\ tickets[t] = None => Gone(t)
      BY <1>1 DEF TicketsKnown, Job
    <2> QED
      BY <1>1, <2>1, StaysGone, GoneStays
  <1>2. CASE Accepted(q)
    <2>1. PICK j \in Job, old \in Ticket \cup {None}, new \in Draft :
             /\ Sound(q, j, old, new)
             /\ pc' = [pc EXCEPT ![q] = IF j.op = "delete" THEN "cascade" ELSE "commit"]
             /\ job' = [job EXCEPT ![q] = j]
      BY <1>2 DEF Accepted
    <2>2. job'[q] = j /\ j.op # "create" /\ t \in TicketIds
      BY <2>1 DEF TypeOK, Begun, Written, Job
    <2>3. tickets[t] # None /\ tickets' = tickets
      BY <1>2, <2>1, <2>2 DEF Sound, Accepted, db
    <2>4. t \in Requests => pc[t] \notin Undecided
      BY <2>3 DEF IdsUnused
    <2> QED
      BY <2>2, <2>3, <2>4, StaysGone
  <1>3. CASE pc[q] = "commit" /\ job[q].op = "create" /\ job'[q] = job[q]
    <2>1. job[q] \in Job /\ t = q
      BY <1>3 DEF ChecksDone, Waiting
    <2>2. pc'[q] \notin Undecided
      BY <1>3 DEF Begun, Written, Undecided
    <2>3. CommitCreate(q)
      BY <1>3, Moves DEF Begun, Written, Accepted, Refused, LoadCascade, At, Succeeds, GoesOn,
                         CommitUpdate, CommitDelete, CommitComment
    <2>4. tickets'[q] # None
      BY <1>3, <2>3, NoneIsNoValue DEF CommitCreate, ChecksDone, TypeOK, TicketIds
    <2> QED
      BY <1>3, <2>1, <2>2, <2>4
  <1>4. Begun(q) \/ Accepted(q) \/ (pc[q] = "commit" /\ job[q].op = "create")
    BY Moves DEF TypeOK, Begun, Written, Refused, LoadCascade, At, Succeeds, GoesOn
  <1>5. job'[q] = job[q] \/ Accepted(q)
    BY Moves DEF TypeOK, Begun, Written, Refused
  <1> QED
    BY <1>1, <1>2, <1>3, <1>4, <1>5

\* The cascade a session has loaded is of the ticket it will delete.
LEMMA KidsOwnStep ==
    ASSUME IInv, KidsOwn, [Next]_vars
    PROVE  KidsOwn'
  <1> USE DEF IInv, Held
  <1> SUFFICES ASSUME NEW q \in Requests, pc'[q] = "commit", job'[q].op = "delete",
                      NEW k \in kids'[q]
               PROVE  k.ticket = job'[q].ticket
    BY DEF KidsOwn
  <1>1. CASE Accepted(q)
    BY <1>1 DEF Accepted, TypeOK
  <1>2. CASE LoadCascade(q)
    BY <1>2 DEF LoadCascade, CommentsOf, TypeOK
  <1> QED
    BY <1>1, <1>2, Progress DEF KidsOwn, Undecided

\* What a success leaves in the tables.
LEMMA JustWritten ==
    ASSUME IInv, NEW q \in Requests, Succeeds(q), job[q] \in Job
    PROVE  LET t == job[q].ticket
           IN  /\ job[q].op = "delete" => tickets'[t] = None
               /\ job[q].op = "comment" => \E k \in comments' : k.id = q /\ k.ticket = t
               /\ job[q].op = "status" =>
                     /\ attrs[q] \in Draft /\ attrs[q].status # "open"
                     /\ tickets'[t] # None /\ tickets'[t].status = attrs[q].status
  <1> DEFINE t == job[q].ticket
  <1> USE DEF IInv, Held
  <1>1. t \in TicketIds /\ pc[q] = "commit" /\ pc'[q] # "error"
    BY DEF Job, Succeeds, Written
  <1>2. ~Raises(q)
    BY <1>1 DEF Raises, Goto, TypeOK
  <1>3. CASE CommitCreate(q)
    BY <1>3 DEF CommitCreate, At
  <1>4. CASE CommitUpdate(q)
    <2>1. /\ job[q].op \in {"status", "edit"} /\ ~RejectedUpdate(q)
          /\ tickets' = IF Changed(q) THEN [tickets EXCEPT ![t] = Flush(@, row[q], attrs[q])]
                                      ELSE tickets
      BY <1>2, <1>4 DEF CommitUpdate, At
    <2>2. CASE job[q].op = "status"
      <3>1. /\ row[q] \in Ticket /\ attrs[q] \in Draft
            /\ attrs[q].status # row[q].status /\ attrs[q].status # "open"
        BY <1>1, <2>2 DEF ChecksDone, CanMove, ALLOWED_STATUS_TRANSITIONS
      <3>2. Changed(q) /\ tickets[t] \in Ticket /\ attrs[q].content # None
        BY <1>1, <2>1, <3>1 DEF Changed, RejectedUpdate, TypeOK
      <3>3. tickets'[t] = Flush(tickets[t], row[q], attrs[q])
        BY <1>1, <2>1, <3>2 DEF TypeOK
      <3>4. Flush(tickets[t], row[q], attrs[q]) \in Ticket
        BY <3>1, <3>2, FlushedRow
      <3>5. Flush(tickets[t], row[q], attrs[q]).status = attrs[q].status
        BY <3>1, <3>2 DEF Flush, Ticket
      <3> QED
        BY <2>2, <3>1, <3>3, <3>4, <3>5, NoneIsNoValue
    <2> QED
      BY <2>1, <2>2
  <1>5. CASE CommitDelete(q)
    BY <1>1, <1>2, <1>5 DEF CommitDelete, At, TypeOK
  <1>6. CASE CommitComment(q)
    <2> DEFINE k == [id |-> q, ticket |-> t, author |-> job[q].user]
    <2>1. job[q].op = "comment" /\ comments' = comments \cup {k}
      BY <1>2, <1>6 DEF CommitComment, At
    <2>2. k \in comments' /\ k.id = q /\ k.ticket = t
      BY <2>1
    <2> QED
      BY <2>1, <2>2
  <1> QED
    BY <1>3, <1>4, <1>5, <1>6 DEF Succeeds

\* A comment goes only with its ticket.
LEMMA CommentsGoWithTickets ==
    ASSUME IInv, KidsOwn, [Next]_vars, NEW k \in comments, k \notin comments'
    PROVE  tickets'[k.ticket] = None
  <1> USE DEF IInv, Held
  <1>1. PICK r \in Requests : Commit(r)
    BY WriteSteps DEF db
  <1>2. CommitDelete(r) /\ ~RejectedDelete(r)
    BY <1>1 DEF Commit, CommitCreate, CommitUpdate, CommitComment, Raises, db
  <1>3. /\ comments' = comments \ kids[r] /\ tickets' = [tickets EXCEPT ![job[r].ticket] = None]
        /\ pc[r] = "commit" /\ job[r].op = "delete"
    BY <1>2 DEF CommitDelete, At
  <1>4. k.ticket = job[r].ticket /\ k.ticket \in TicketIds
    BY <1>3 DEF KidsOwn, TypeOK, Comment
  <1> QED
    BY <1>3, <1>4 DEF TypeOK

\* No step of another request undoes what a commit has written.
LEMMA WritesLastStep ==
    ASSUME AInv, [Next]_vars
    PROVE  WritesLast'
  <1> USE DEF AInv, IInv, Held
  <1> SUFFICES ASSUME NEW q \in Requests, Written(q)'
               PROVE  LET t == job'[q].ticket
                      IN  /\ job'[q].op = "delete" => tickets'[t] = None
                          /\ job'[q].op = "comment" =>
                                tickets'[t] = None \/ \E k \in comments' : k.id = q /\ k.ticket = t
                          /\ job'[q].op = "status" =>
                                tickets'[t] = None \/ tickets'[t].status # "open"
                          /\ pc'[q] = "ok" /\ job'[q].op \in {"create", "status"} =>
                                q \in scheduled'
    BY DEF WritesLast
  <1> DEFINE t == job'[q].ticket
  <1>1. /\ job'[q] = job[q]
        /\ Succeeds(q) \/ (Written(q) /\ (pc'[q] = pc[q] \/ GoesOn(q)))
    <2>1. pc'[q] \notin {"new", "cascade", "commit", "error", "lost",
                         "forbidden", "not_found", "conflict"}
      BY DEF Written
    <2>2. ~Accepted(q) /\ ~Refused(q) /\ ~LoadCascade(q)
      BY <2>1 DEF TypeOK, Accepted, Refused, LoadCascade, Goto
    <2>3. TypeOK
      OBVIOUS
    <2>4. /\ job'[q] = job[q]
          /\ pc'[q] = pc[q] \/ Succeeds(q) \/ GoesOn(q)
      BY <2>1, <2>2, <2>3, Moves
    <2> QED
      BY <2>4 DEF Written, GoesOn
  <1>2. CASE Succeeds(q)
    <2>1. job[q] \in Job /\ pc'[q] # "ok"
      BY <1>2 DEF Succeeds, ChecksDone, Waiting
    <2> QED
      BY <1>1, <1>2, <2>1, JustWritten
  <1>3. CASE Written(q) /\ (pc'[q] = pc[q] \/ GoesOn(q))
    <2>1. /\ job[q] \in Job /\ t \in TicketIds
          /\ t \in Requests => pc[t] \notin Undecided
      BY <1>1, <1>3 DEF TicketsKnown, Begun, Job
    <2>2. tickets[t] = None => tickets'[t] = None
      BY <2>1, StaysGone
    <2>3. job[q].op = "comment" =>
             tickets'[t] = None \/ \E k \in comments' : k.id = q /\ k.ticket = t
      BY <1>1, <1>3, <2>2, CommentsGoWithTickets DEF WritesLast
    <2>4. job[q].op = "status" => tickets'[t] = None \/ tickets'[t].status # "open"
      BY <1>1, <1>3, <2>1, <2>2, RowsGoOn DEF WritesLast
    <2>5. pc'[q] = "ok" /\ job[q].op \in {"create", "status"} => q \in scheduled'
      BY <1>3, Moves DEF WritesLast, GoesOn
    <2> QED
      BY <1>1, <1>3, <2>2, <2>3, <2>4, <2>5 DEF WritesLast
  <1> QED
    BY <1>1, <1>2, <1>3

\* Nothing is written before the first request.
LEMMA InitAInv == Init => AInv
  <1>1. Init => TicketsKnown /\ KidsOwn /\ WritesLast
    BY DEF Init, TicketsKnown, KidsOwn, WritesLast, Begun, Written
  <1> QED
    BY <1>1, InitIInv DEF AInv

\* Every step keeps what lasts.
LEMMA StepAInv == AInv /\ [Next]_vars => AInv'
  BY StepIInv, TicketsKnownStep, KidsOwnStep, WritesLastStep DEF AInv

\* What lasts from the commit on lasts from the answer on.
LEMMA LastsOnceAnswered == AInv => AcknowledgedWritesLast
  BY DEF AInv, TicketsKnown, WritesLast, AcknowledgedWritesLast, Begun, Written, Gone

\* A success that was acknowledged is not undone by any race: what was deleted stays
\* deleted, what was written goes only with a deletion, no changed status is open again,
\* and the webhooks are told.
THEOREM AcknowledgedLasts == Spec => []AcknowledgedWritesLast
  <1> QED
    BY InitAInv, StepAInv, LastsOnceAnswered, PTL DEF Spec

-------------------------------------------------------------------------------
(* The workflow. *)

\* The abstract workflow speaks of the same rows and moves.
LEMMA SameData ==
    /\ Workflow!Ticket = Ticket /\ Workflow!Statuses = Statuses
    /\ \A a, b : CanMove(a, b) => Workflow!CanMove(a, b)
  BY DEF Workflow!Ticket, Ticket, Workflow!Statuses, Statuses, Workflow!CanMove, CanMove,
         Workflow!ALLOWED_STATUS_TRANSITIONS, ALLOWED_STATUS_TRANSITIONS

\* A commit whose request was not overtaken is a step of the workflow.
LEMMA FreshWrite ==
    ASSUME IInv, NEW r \in Requests,
           \/ Creates(r)
           \/ (Updates(r) \/ Deletes(r)) /\ row[r] = tickets[job[r].ticket]
    PROVE  Workflow!Next
  <1> DEFINE t == job[r].ticket
  <1> USE DEF IInv, Held
  <1>1. CASE Creates(r)
    <2>1. Workflow!Open(r)
      BY <1>1, SameData DEF Creates, Workflow!Open
    <2> QED
      BY <2>1 DEF Workflow!Next, TicketIds
  <1>2. CASE Updates(r) /\ row[r] = tickets[t] /\ job[r].op = "status"
    <2>1. /\ t \in TicketIds /\ tickets[t] # None /\ row[r] \in Ticket /\ attrs[r] \in Draft
          /\ CanMove(row[r].status, attrs[r].status)
          /\ attrs[r] = [row[r] EXCEPT !.status = attrs[r].status]
          /\ tickets' = [tickets EXCEPT ![t] = Flush(@, row[r], attrs[r])]
      BY <1>2 DEF Updates, ChecksDone
    <2>2. Flush(tickets[t], row[r], attrs[r]) = [tickets[t] EXCEPT !.status = attrs[r].status]
      BY <1>2, <2>1 DEF Flush, Ticket
    <2>3. Workflow!Advance(t)
      BY <1>2, <2>1, <2>2, SameData DEF Workflow!Advance, Draft
    <2> QED
      BY <2>1, <2>3 DEF Workflow!Next
  <1>3. CASE Updates(r) /\ row[r] = tickets[t] /\ job[r].op = "edit"
    <2>1. /\ t \in TicketIds /\ tickets[t] # None /\ row[r] \in Ticket
          /\ row[r].status = "open"
          /\ attrs[r] \in Draft /\ attrs[r].content # None
          /\ attrs[r] = [row[r] EXCEPT !.content = attrs[r].content]
          /\ tickets' = [tickets EXCEPT ![t] = Flush(@, row[r], attrs[r])]
      BY <1>3 DEF Updates, ChecksDone
    <2>2. Flush(tickets[t], row[r], attrs[r]) = [tickets[t] EXCEPT !.content = attrs[r].content]
      BY <1>3, <2>1 DEF Flush, Ticket
    <2>3. attrs[r].content \in Contents
      BY <2>1 DEF Draft
    <2>4. Workflow!Edit(t)
      BY <1>3, <2>1, <2>2, <2>3 DEF Workflow!Edit, Workflow!IsOpen
    <2> QED
      BY <2>1, <2>4 DEF Workflow!Next
  <1>4. CASE Deletes(r) /\ row[r] = tickets[t]
    <2>1. t \in TicketIds /\ row[r] \in Ticket /\ row[r].status = "open"
      BY <1>4 DEF Deletes, ChecksDone
    <2>2. Workflow!Remove(t)
      BY <1>4, <2>1, NoneIsNoValue DEF Deletes, Workflow!Remove, Workflow!IsOpen
    <2> QED
      BY <2>1, <2>2 DEF Workflow!Next
  <1> QED
    BY <1>1, <1>2, <1>3, <1>4 DEF Updates

\* Lost updates are the only way to leave the workflow: every write to the table by
\* a request that was not overtaken is one of its steps.
THEOREM RacesOnly == Spec => OnlyRacesBreakTheWorkflow
  <1> DEFINE Step == Workflow!Next \/ \E r \in Requests : Overtaken(r) /\ pc'[r] # "commit"
  <1>1. ASSUME IInv, [Next]_vars
        PROVE  [Step]_tickets
    <2>1. CASE UNCHANGED tickets
      BY <2>1
    <2>2. ASSUME NEW r \in Requests, pc'[r] # "commit", Creates(r) \/ Updates(r) \/ Deletes(r)
          PROVE  Step
      <3>1. CASE Creates(r) \/ row[r] = tickets[job[r].ticket]
        BY <1>1, <2>2, <3>1, FreshWrite
      <3>2. CASE ~Creates(r) /\ row[r] # tickets[job[r].ticket]
        BY <2>2, <3>2 DEF Overtaken, Updates, Deletes
      <3> QED
        BY <3>1, <3>2
    <2> QED
      BY <1>1, <2>1, <2>2, TicketWrites DEF IInv
  <1>2. [][Next]_vars /\ []IInv => [][Step]_tickets
    BY <1>1, PTL
  <1> QED
    BY <1>2, Invariance, PTL DEF Spec, OnlyRacesBreakTheWorkflow

-------------------------------------------------------------------------------
(* The workflow on loaded copies. *)

\* A step of one request leaves what the sessions of the others hold.
LEMMA OthersStay ==
    ASSUME TypeOK, NEW r \in Requests, Handle(r) \/ StoreFails(r),
           NEW q \in Requests, q # r
    PROVE  pc'[q] = pc[q] /\ job'[q] = job[q] /\ row'[q] = row[q]
  <1> DEFINE Goal == pc'[q] = pc[q] /\ job'[q] = job[q] /\ row'[q] = row[q]
  <1> USE DEF TypeOK, Goto, At, Raises, local
  <1>1. CASE Receive(r)
    <2>1. CASE Refused(r)
      BY <2>1 DEF Refused
    <2>2. CASE Accepted(r)
      <3>1. PICK j \in Job, old \in Ticket \cup {None}, new \in Draft :
               /\ pc' = [pc EXCEPT ![r] = IF j.op = "delete" THEN "cascade" ELSE "commit"]
               /\ job' = [job EXCEPT ![r] = j]
               /\ row' = [row EXCEPT ![r] = old]
        BY <2>2 DEF Accepted
      <3> QED
        BY <3>1
    <2> QED
      BY <1>1, <2>1, <2>2, ReceiveSteps
  <1>2. CASE LoadCascade(r)
    BY <1>2 DEF LoadCascade
  <1>3. CASE CommitCreate(r) \/ CommitComment(r)
    BY <1>3 DEF CommitCreate, CommitComment
  <1>4. CASE CommitUpdate(r)
    <2>1. UNCHANGED local /\ (Goto(r, "error") \/ Goto(r, "refresh"))
      BY <1>4 DEF CommitUpdate
    <2> QED
      BY <2>1
  <1>5. CASE CommitDelete(r)
    BY <1>5 DEF CommitDelete
  <1>6. CASE RefreshTicket(r)
    BY <1>6 DEF RefreshTicket
  <1>7. CASE RefreshComment(r)
    BY <1>7 DEF RefreshComment
  <1>8. CASE Invalidated(r) \/ Announce(r)
    BY <1>8 DEF Invalidated, Announce
  <1>9. CASE StoreFails(r)
    BY <1>9 DEF StoreFails
  <1> QED
    BY <1>1, <1>2, <1>3, <1>4, <1>5, <1>6, <1>7, <1>8, <1>9 DEF Handle, Resume

Holds(q, t) == Deciding(q) /\ job[q].ticket = t

\* What one request's step does to the copies of a ticket, seen from the request.
LEMMA CopiesOf ==
    ASSUME NEW r \in Requests, NEW t,
           \A q \in Requests : q # r => (Holds(q, t)' <=> Holds(q, t)) /\ row'[q] = row[q]
    PROVE  /\ Holds(r, t) /\ Holds(r, t)' /\ row'[r] = row[r] => Copies(t)' = Copies(t)
           /\ ~Holds(r, t) /\ ~Holds(r, t)' => Copies(t)' = Copies(t)
           /\ ~Holds(r, t) /\ Holds(r, t)' => Copies(t)' = Copies(t) \cup {row'[r]}
           /\ Holds(r, t) /\ ~Holds(r, t)' =>
                 \/ Copies(t)' = Copies(t)
                 \/ Copies(t)' = Copies(t) \ {row[r]}
  <1>1. \A x : x \in Copies(t) <=> \E q \in Requests : Holds(q, t) /\ x = row[q]
    BY DEF Copies, Holds
  <1>2. \A x : x \in Copies(t)' <=> \E q \in Requests : Holds(q, t)' /\ x = row'[q]
    BY DEF Copies, Holds
  <1>3. ASSUME NEW x, x # row[r], x # row'[r]
        PROVE  x \in Copies(t)' <=> x \in Copies(t)
    BY <1>1, <1>2, <1>3
  <1>4. ASSUME Holds(r, t), Holds(r, t)', row'[r] = row[r]
        PROVE  Copies(t)' = Copies(t)
    BY <1>1, <1>2, <1>4
  <1>5. ASSUME ~Holds(r, t), ~Holds(r, t)'
        PROVE  Copies(t)' = Copies(t)
    BY <1>1, <1>2, <1>5
  <1>6. ASSUME ~Holds(r, t), Holds(r, t)'
        PROVE  Copies(t)' = Copies(t) \cup {row'[r]}
    BY <1>1, <1>2, <1>6
  <1>7. ASSUME Holds(r, t), ~Holds(r, t)'
        PROVE  Copies(t)' = Copies(t) \/ Copies(t)' = Copies(t) \ {row[r]}
    <2>1. CASE \E q \in Requests : q # r /\ Holds(q, t) /\ row[q] = row[r]
      BY <1>1, <1>2, <1>7, <2>1
    <2>2. CASE ~\E q \in Requests : q # r /\ Holds(q, t) /\ row[q] = row[r]
      BY <1>1, <1>2, <1>7, <2>2
    <2> QED
      BY <2>1, <2>2
  <1> QED
    BY <1>4, <1>5, <1>6, <1>7

\* The rows and moves of the workflow are the same in both modules.
LEMMA SameCopyData ==
    /\ Stale!Ticket = Ticket /\ Stale!Statuses = Statuses
    /\ \A a, b : CanMove(a, b) => Stale!CanMove(a, b)
  BY DEF Stale!Ticket, Ticket, Stale!Statuses, Statuses, Stale!CanMove, CanMove,
         Stale!ALLOWED_STATUS_TRANSITIONS, ALLOWED_STATUS_TRANSITIONS

\* What a deciding request may do to the table was allowed for its copy.
LEMMA DecidedOnCopy ==
    ASSUME IInv, NEW r \in Requests, Deciding(r),
           UNCHANGED tickets \/ Updates(r) \/ Deletes(r)
    PROVE  LET t == job[r].ticket
           IN  Stale!Advance(t, row[r]) \/ Stale!Edit(t, row[r]) \/ Stale!Remove(t, row[r])
               \/ UNCHANGED tickets
  <1> DEFINE t == job[r].ticket
  <1> USE DEF IInv, Held
  <1>1. CASE Updates(r) /\ job[r].op = "status"
    <2>1. /\ t \in TicketIds /\ tickets[t] # None /\ tickets[t] \in Ticket
          /\ row[r] \in Ticket /\ attrs[r] \in Draft
          /\ CanMove(row[r].status, attrs[r].status)
          /\ attrs[r] = [row[r] EXCEPT !.status = attrs[r].status]
          /\ tickets' = [tickets EXCEPT ![t] = Flush(@, row[r], attrs[r])]
      BY <1>1 DEF Updates, ChecksDone
    <2>2. attrs[r].content = row[r].content
      BY <2>1 DEF Ticket
    <2>3. Flush(tickets[t], row[r], attrs[r]) = [tickets[t] EXCEPT !.status = attrs[r].status]
      <3>1. row[r].status # attrs[r].status
        BY <2>1 DEF CanMove, ALLOWED_STATUS_TRANSITIONS
      <3> QED
        BY <2>1, <2>2, <3>1 DEF Flush, Ticket
    <2>4. attrs[r].status \in Statuses
      BY <2>1 DEF Draft
    <2>5. Stale!Advance(t, row[r])
      BY <2>1, <2>3, <2>4, SameCopyData DEF Stale!Advance
    <2> QED
      BY <2>5
  <1>2. CASE Updates(r) /\ job[r].op = "edit"
    <2>1. /\ t \in TicketIds /\ tickets[t] # None /\ tickets[t] \in Ticket
          /\ row[r] \in Ticket /\ row[r].status = "open"
          /\ attrs[r] \in Draft /\ attrs[r].content # None
          /\ attrs[r] = [row[r] EXCEPT !.content = attrs[r].content]
          /\ tickets' = [tickets EXCEPT ![t] = Flush(@, row[r], attrs[r])]
      BY <1>2 DEF Updates, ChecksDone
    <2>2. attrs[r].status = row[r].status /\ attrs[r].content \in Contents
      BY <2>1 DEF Ticket, Draft
    <2>3. \E c \in Contents :
             Flush(tickets[t], row[r], attrs[r]) = [tickets[t] EXCEPT !.content = c]
      <3>1. CASE attrs[r].content # row[r].content
        BY <2>1, <2>2, <3>1 DEF Flush, Ticket
      <3>2. CASE attrs[r].content = row[r].content
        <4>1. /\ tickets[t].content \in Contents
              /\ Flush(tickets[t], row[r], attrs[r])
                    = [tickets[t] EXCEPT !.content = tickets[t].content]
          BY <2>1, <2>2, <3>2 DEF Flush, Ticket
        <4> QED
          BY <4>1
      <3> QED
        BY <3>1, <3>2
    <2>4. Stale!Edit(t, row[r])
      BY <2>1, <2>3 DEF Stale!Edit
    <2> QED
      BY <2>4
  <1>3. CASE Deletes(r)
    BY <1>3 DEF Deletes, Stale!Remove
  <1> QED
    BY <1>1, <1>2, <1>3 DEF Updates

\* A request's step begins to hold a copy, acts on one, or does nothing to either.
LEMMA HandleOnCopies ==
    ASSUME IInv, NEW r \in Requests, Handle(r) \/ StoreFails(r)
    PROVE  [Stale!Next]_(Stale!vars)
  <1> DEFINE All == [u \in TicketIds |-> Copies(u)]
  <1> USE DEF IInv, Held
  <1> PICK t : t = job[r].ticket
    OBVIOUS
  <1>0. [Next]_vars
    BY DEF Next
  <1>1. \A q \in Requests : q # r =>
           pc'[q] = pc[q] /\ job'[q] = job[q] /\ row'[q] = row[q]
    BY OthersStay
  <1>2. \A u : \A q \in Requests :
           q # r => (Holds(q, u)' <=> Holds(q, u)) /\ row'[q] = row[q]
    BY <1>1 DEF Holds, Deciding
  <1>3. \/ UNCHANGED tickets
        \/ pc'[r] # "commit" /\ (Creates(r) \/ Updates(r) \/ Deletes(r))
    BY <1>0, <1>1, TicketWrites DEF Creates, Updates, Deletes
  <1>4. CASE UNCHANGED tickets /\ \A u \in TicketIds : Copies(u)' = Copies(u)
    BY <1>4 DEF Stale!vars
  <1>5. CASE pc'[r] = pc[r] /\ job'[r] = job[r] /\ row'[r] = row[r]
    <2>1. \A u : (Holds(r, u)' <=> Holds(r, u)) /\ row'[r] = row[r]
      BY <1>5 DEF Holds, Deciding
    <2>2. \A u \in TicketIds : Copies(u)' = Copies(u)
      BY <1>2, <2>1, CopiesOf
    <2>3. UNCHANGED tickets
      BY <1>3, <1>5 DEF Creates, Updates, Deletes
    <2> QED
      BY <1>4, <2>2, <2>3
  <1>6. CASE LoadCascade(r)
    <2>1. /\ pc[r] = "cascade" /\ pc'[r] = "commit" /\ UNCHANGED <<tickets, job, row>>
          /\ job[r].op = "delete"
      BY <1>6 DEF LoadCascade, At, Goto, TypeOK, db
    <2>2. \A u : (Holds(r, u)' <=> Holds(r, u)) /\ row'[r] = row[r]
      BY <2>1 DEF Holds, Deciding
    <2>3. \A u \in TicketIds : Copies(u)' = Copies(u)
      BY <1>2, <2>2, CopiesOf
    <2> QED
      BY <1>4, <2>1, <2>3
  <1>7. CASE Accepted(r)
    <2>1. PICK j \in Job, old \in Ticket \cup {None}, new \in Draft :
             /\ Sound(r, j, old, new)
             /\ pc' = [pc EXCEPT ![r] = IF j.op = "delete" THEN "cascade" ELSE "commit"]
             /\ job' = [job EXCEPT ![r] = j]
             /\ row' = [row EXCEPT ![r] = old]
      BY <1>7 DEF Accepted
    <2>2. /\ pc[r] = "new" /\ UNCHANGED tickets
          /\ job'[r] = j /\ row'[r] = old /\ pc'[r] \in {"cascade", "commit"}
      BY <1>7, <2>1 DEF Accepted, TypeOK, db
    <2>3. \A u : ~Holds(r, u)
      BY <2>2 DEF Holds, Deciding
    <2>4. CASE j.op \in {"create", "comment"}
      <3>1. \A u : ~Holds(r, u)'
        BY <2>2, <2>4 DEF Holds, Deciding
      <3>2. \A u \in TicketIds : Copies(u)' = Copies(u)
        BY <1>2, <2>3, <3>1, CopiesOf
      <3> QED
        BY <1>4, <2>2, <3>2
    <2>5. CASE j.op \in {"status", "edit", "delete"}
      <3>1. j.ticket \in TicketIds /\ tickets[j.ticket] # None /\ old = tickets[j.ticket]
        BY <2>1, <2>5 DEF Sound, Job
      <3>2. Holds(r, j.ticket)' /\ \A u : u # j.ticket => ~Holds(r, u)'
        BY <2>2, <2>5 DEF Holds, Deciding
      <3>3. Copies(j.ticket)' = Copies(j.ticket) \cup {tickets[j.ticket]}
        BY <1>2, <2>2, <2>3, <3>1, <3>2, CopiesOf
      <3>4. \A u \in TicketIds : u # j.ticket => Copies(u)' = Copies(u)
        BY <1>2, <2>3, <3>2, CopiesOf
      <3>5. All' = [All EXCEPT ![j.ticket] = @ \cup {tickets[j.ticket]}]
        BY <3>1, <3>3, <3>4
      <3>6. Stale!Load(j.ticket)
        BY <2>2, <3>1, <3>5 DEF Stale!Load
      <3> QED
        BY <3>1, <3>6 DEF Stale!Next
    <2> QED
      BY <2>4, <2>5 DEF Job
  <1>8. CASE pc'[r] \notin Undecided /\ Deciding(r)
    <2>1. \A u : ~Holds(r, u)'
      BY <1>8 DEF Holds, Deciding, Undecided
    <2>2. Holds(r, t) /\ \A u : u # t => ~Holds(r, u)
      BY <1>8 DEF Holds
    <2>3. t \in TicketIds
      BY <1>8 DEF Deciding, ChecksDone, Waiting, Job
    <2>4. \A u \in TicketIds : u # t => Copies(u)' = Copies(u)
      BY <1>2, <2>1, <2>2, CopiesOf
    <2>5. Copies(t)' = Copies(t) \/ Copies(t)' = Copies(t) \ {row[r]}
      BY <1>2, <2>1, <2>2, CopiesOf
    <2>6. All' = All \/ All' = [All EXCEPT ![t] = @ \ {row[r]}]
      BY <2>3, <2>4, <2>5
    <2>7. row[r] \in All[t]
      BY <2>2, <2>3 DEF Copies, Holds
    <2>8. ~Creates(r)
      BY <1>8 DEF Creates, Deciding
    <2>9. Stale!Act(t, row[r])
      BY <1>3, <1>8, <2>6, <2>8, DecidedOnCopy DEF Stale!Act, Stale!Release
    <2> QED
      BY <2>3, <2>7, <2>9 DEF Stale!Next
  <1>9. CASE pc'[r] \notin Undecided /\ ~Deciding(r)
    <2>1. \A u : ~Holds(r, u) /\ ~Holds(r, u)'
      BY <1>9 DEF Holds, Deciding, Undecided
    <2>2. \A u \in TicketIds : Copies(u)' = Copies(u)
      BY <1>2, <2>1, CopiesOf
    <2>3. CASE UNCHANGED tickets
      BY <1>4, <2>2, <2>3
    <2>4. CASE Creates(r)
      <3>1. Copies(r) = {}
        BY <2>4 DEF Creates, Copies, Deciding, SameTicket, Undecided
      <3>2. r \in TicketIds /\ All' = All /\ All[r] = {}
        BY <2>2, <3>1 DEF TicketIds
      <3>3. Stale!Open(r)
        BY <2>4, <3>2, SameCopyData DEF Creates, Stale!Open
      <3> QED
        BY <3>2, <3>3 DEF Stale!Next
    <2> QED
      BY <1>3, <1>9, <2>3, <2>4 DEF Updates, Deletes, Deciding
  <1> QED
    BY <1>0, <1>5, <1>6, <1>7, <1>8, <1>9, Progress

\* Under every race the handlers implement the workflow on loaded copies: a write was
\* allowed for a copy its request had loaded, and changes nothing but the column the
\* operation is about.
THEOREM HandlersImplementWorkflow == Spec => ImplementsWorkflow
  <1>1. Init => Stale!Init
    BY SameCopyData DEF Init, Stale!Init, Copies, Deciding
  <1>2. IInv /\ [Next]_vars => [Stale!Next]_(Stale!vars)
    <2> SUFFICES ASSUME IInv, [Next]_vars
                 PROVE  [Stale!Next]_(Stale!vars)
      OBVIOUS
    <2>1. CASE Crash
      <3>1. \A r \in Requests : pc'[r] \notin Undecided \/ pc'[r] = "new"
        BY <2>1 DEF Crash, IInv, Held, TypeOK, Waiting, Answers, Undecided
      <3>2. \A t \in TicketIds : Copies(t)' = {}
        BY <3>1 DEF Copies, Deciding, Undecided
      <3>3. Stale!Crash
        BY <2>1, <3>2 DEF Stale!Crash, Crash, db
      <3> QED
        BY <3>3 DEF Stale!Next
    <2>2. CASE UNCHANGED vars
      BY <2>2 DEF vars, Stale!vars, Copies, Deciding
    <2> QED
      BY <2>1, <2>2, HandleOnCopies DEF Next
  <1> QED
    BY <1>1, <1>2, Invariance, PTL DEF Spec, ImplementsWorkflow, Stale!Spec

-------------------------------------------------------------------------------
(* What subscribers are told. *)

\* A status change after its commit: its job and its attributes are settled, and it is
\* answered only with its event sent.
LEMMA AfterStatusCommit ==
    ASSUME TypeOK, [Next]_vars, NEW r \in Requests, job[r].op = "status",
           pc[r] \in {"refresh", "invalidate", "announce", "ok", "error", "lost"}
    PROVE  /\ job'[r] = job[r] /\ attrs'[r] = attrs[r] /\ broadcasts \subseteq broadcasts'
           /\ \/ pc'[r] = pc[r] /\ row'[r] = row[r]
              \/ pc'[r] \in {"error", "lost"}
              \/ /\ pc[r] = "refresh" /\ pc'[r] = "invalidate"
                 /\ row'[r] = tickets[job[r].ticket]
              \/ pc[r] = "invalidate" /\ pc'[r] = "announce" /\ row'[r] = row[r]
              \/ /\ pc[r] = "announce" /\ pc'[r] = "ok"
                 /\ [req |-> r, op |-> "status", ticket |-> job[r].ticket,
                     status |-> row[r].status] \in broadcasts'
  <1> DEFINE Goal ==
               /\ job'[r] = job[r] /\ attrs'[r] = attrs[r] /\ broadcasts \subseteq broadcasts'
               /\ \/ pc'[r] = pc[r] /\ row'[r] = row[r]
                  \/ pc'[r] \in {"error", "lost"}
                  \/ /\ pc[r] = "refresh" /\ pc'[r] = "invalidate"
                     /\ row'[r] = tickets[job[r].ticket]
                  \/ pc[r] = "invalidate" /\ pc'[r] = "announce" /\ row'[r] = row[r]
                  \/ /\ pc[r] = "announce" /\ pc'[r] = "ok"
                     /\ [req |-> r, op |-> "status", ticket |-> job[r].ticket,
                         status |-> row[r].status] \in broadcasts'
  <1>0. ASSUME NEW q \in Requests, Accepted(q)
        PROVE  /\ pc[q] = "new" /\ UNCHANGED broadcasts
               /\ \E place, j, old, new :
                     /\ pc' = [pc EXCEPT ![q] = place] /\ job' = [job EXCEPT ![q] = j]
                     /\ row' = [row EXCEPT ![q] = old] /\ attrs' = [attrs EXCEPT ![q] = new]
    <2>1. PICK j \in Job, old \in Ticket \cup {None}, new \in Draft :
             /\ Sound(q, j, old, new)
             /\ pc' = [pc EXCEPT ![q] = IF j.op = "delete" THEN "cascade" ELSE "commit"]
             /\ job' = [job EXCEPT ![q] = j]
             /\ row' = [row EXCEPT ![q] = old]
             /\ attrs' = [attrs EXCEPT ![q] = new]
      BY <1>0 DEF Accepted
    <2> QED
      BY <1>0, <2>1 DEF Accepted, events
  <1> USE DEF TypeOK, Goto, At, Raises, local, events, Waiting
  <1>1. ASSUME NEW q \in Requests, Receive(q)
        PROVE  Goal
    <2>1. CASE Refused(q)
      BY <2>1 DEF Refused
    <2>2. CASE Accepted(q)
      <3>1. PICK place, j, old, new :
               /\ pc' = [pc EXCEPT ![q] = place] /\ job' = [job EXCEPT ![q] = j]
               /\ row' = [row EXCEPT ![q] = old] /\ attrs' = [attrs EXCEPT ![q] = new]
        BY <1>0, <2>2
      <3>2. q # r /\ UNCHANGED broadcasts
        BY <1>0, <2>2
      <3> QED
        BY <3>1, <3>2
    <2> QED
      BY <1>1, <2>1, <2>2, ReceiveSteps
  <1>2. ASSUME NEW q \in Requests, Resume(q)
        PROVE  Goal
    <2>1. CASE LoadCascade(q)
      BY <2>1 DEF LoadCascade
    <2>2. CASE CommitCreate(q)
      BY <2>2 DEF CommitCreate
    <2>3. CASE CommitUpdate(q)
      <3>1. /\ UNCHANGED <<local, events>> /\ pc[q] = "commit"
            /\ Goto(q, "error") \/ Goto(q, "refresh")
        BY <2>3 DEF CommitUpdate
      <3> QED
        BY <3>1
    <2>4. CASE CommitDelete(q)
      BY <2>4 DEF CommitDelete
    <2>5. CASE CommitComment(q)
      BY <2>5 DEF CommitComment
    <2>6. CASE RefreshTicket(q)
      BY <2>6 DEF RefreshTicket
    <2>7. CASE RefreshComment(q)
      BY <2>7 DEF RefreshComment
    <2>8. CASE Invalidated(q)
      BY <2>8 DEF Invalidated
    <2>9. CASE Announce(q)
      BY <2>9 DEF Announce
    <2> QED
      BY <1>2, <2>1, <2>2, <2>3, <2>4, <2>5, <2>6, <2>7, <2>8, <2>9 DEF Resume
  <1>3. ASSUME NEW q \in Requests, StoreFails(q)
        PROVE  Goal
    BY <1>3 DEF StoreFails
  <1>4. CASE Crash
    BY <1>4 DEF Crash
  <1>5. CASE UNCHANGED vars
    BY <1>5 DEF vars
  <1> QED
    BY <1>1, <1>2, <1>3, <1>4, <1>5 DEF Next, Handle

\* Only the commit of a status change changes the status of a ticket that stays.
LEMMA StatusWrites ==
    ASSUME IInv, [Next]_vars, NEW t \in TicketIds, tickets[t] # None, tickets'[t] # None,
           tickets'[t].status # tickets[t].status
    PROVE  \E r \in Requests : Succeeds(r) /\ job[r].op = "status" /\ job[r].ticket = t
  <1> USE DEF IInv, Held
  <1>1. PICK r \in Requests : pc'[r] # "commit" /\ (Creates(r) \/ Updates(r) \/ Deletes(r))
    BY TicketWrites
  <1>2. Updates(r) /\ job[r].ticket = t
    BY <1>1 DEF Creates, Updates, Deletes, TypeOK
  <1>3. job[r].op = "status"
    <2>1. CASE job[r].op = "edit"
      <3>1. row[r] \in Ticket /\ attrs[r] = [row[r] EXCEPT !.content = attrs[r].content]
        BY <1>2, <2>1 DEF Updates, ChecksDone
      <3>2. attrs[r].status = row[r].status
        BY <3>1 DEF Ticket
      <3> QED
        BY <1>2, <3>2 DEF Updates, Flush, Ticket, TypeOK
    <2> QED
      BY <1>2, <2>1 DEF Updates
  <1>4. Succeeds(r)
    <2>1. pc[r] = "commit" /\ ~Accepted(r) /\ ~Refused(r) /\ ~LoadCascade(r) /\ ~GoesOn(r)
      BY <1>2 DEF Updates, Accepted, Refused, LoadCascade, At, GoesOn, Written
    <2>2. pc'[r] \notin {"error", "lost"}
      <3>1. \E q \in Requests : Commit(q)
        BY WriteSteps DEF db
      <3>2. PICK q \in Requests : Commit(q)
        BY <3>1
      <3>3. pc' = [pc EXCEPT ![q] = pc'[q]] /\ pc'[q] \in {"refresh", "invalidate"}
        BY <3>2 DEF Commit, CommitCreate, CommitUpdate, CommitDelete, CommitComment, Goto,
                    Raises, TypeOK, db, At
      <3> QED
        BY <1>1, <2>1, <3>3 DEF TypeOK
    <2> QED
      BY <1>1, <2>1, <2>2, Moves
  <1> QED
    BY <1>2, <1>3, <1>4

\* The request that wrote the stored status stays accountable for it, until another
\* writes one.
LEMMA AnnouncedStep ==
    ASSUME AInv, StoredStatusAnnounced, [Next]_vars
    PROVE  StoredStatusAnnounced'
  <1> USE DEF AInv, IInv, Held
  <1> SUFFICES ASSUME NEW t \in TicketIds, tickets'[t] # None,
                      NEW q \in Requests, Committed(q, t)'
               PROVE  \E r \in Requests : Accounted(r, t)'
    BY DEF StoredStatusAnnounced
  <1>1. CASE \E r \in Requests : Succeeds(r) /\ job[r].op = "status" /\ job[r].ticket = t
    <2>1. PICK r \in Requests : Succeeds(r) /\ job[r].op = "status" /\ job[r].ticket = t
      BY <1>1
    <2>2. job[r] \in Job /\ job[r] # None
      BY <2>1, NoneIsNoJob DEF Succeeds, ChecksDone, Waiting
    <2>3. tickets'[t].status = attrs[r].status
      BY <2>1, <2>2, JustWritten
    <2>4. pc'[r] = "refresh" /\ job'[r] = job[r] /\ attrs'[r] = attrs[r]
      BY <2>1 DEF Succeeds, CommitCreate, CommitUpdate, CommitDelete, CommitComment, Goto,
                  Raises, At, TypeOK, Written, local
    <2>5. Accounted(r, t)'
      BY <2>1, <2>2, <2>3, <2>4 DEF Accounted
    <2> QED
      BY <2>5
  <1>2. CASE ~\E r \in Requests : Succeeds(r) /\ job[r].op = "status" /\ job[r].ticket = t
    <2>1. Committed(q, t)
      <3>1. ~Accepted(q) /\ ~Refused(q) /\ ~LoadCascade(q)
        BY DEF Committed, Accepted, Refused, LoadCascade, Goto, TypeOK
      <3>2. job'[q] = job[q] /\ ~Succeeds(q)
        BY <1>2, <3>1, Moves DEF Committed
      <3> QED
        BY <3>1, <3>2, Moves DEF Committed, GoesOn, Written
    <2>2. tickets[t] # None
      BY <2>1, StaysGone DEF Committed, TicketsKnown, Begun, Written
    <2>3. tickets'[t].status = tickets[t].status
      BY <1>2, <2>2, StatusWrites
    <2>4. PICK r \in Requests : Accounted(r, t)
      BY <2>1, <2>2 DEF StoredStatusAnnounced
    <2>5. Accounted(r, t)'
      BY <2>3, <2>4, AfterStatusCommit DEF Accounted
    <2> QED
      BY <2>5
  <1> QED
    BY <1>1, <1>2

\* The status that stays is not kept from the subscribers: the request that wrote it
\* announces it, whatever others wrote between its commit and its refresh.
THEOREM TheLastStatusIsTold == Spec => []StoredStatusAnnounced
  <1>1. Init => StoredStatusAnnounced
    BY DEF Init, StoredStatusAnnounced, Committed
  <1>2. AInv /\ StoredStatusAnnounced /\ [Next]_vars => (AInv /\ StoredStatusAnnounced)'
    BY StepAInv, AnnouncedStep
  <1> QED
    BY <1>1, <1>2, InitAInv, PTL DEF Spec
===============================================================================
