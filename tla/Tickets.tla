-------------------------------- MODULE Tickets --------------------------------
(***************************************************************************)
(* The request handlers that write tickets and comments, running as         *)
(* coroutines of one event loop against PostgreSQL at READ COMMITTED.       *)
(*                                                                          *)
(* A handler is a sequence of steps separated by the awaits at which other  *)
(* requests run: load the rows and decide (every check is made on the       *)
(* loaded copy), commit, refresh, invalidate the caches, announce.  No row  *)
(* is locked or versioned between the load and the commit.                  *)
(***************************************************************************)
EXTENDS TicketData, Naturals

CONSTANTS
    Agents,    \* accounts whose role is `agent`
    Existing,  \* ids of the tickets stored before the requests arrive
    Requests   \* HTTP requests; the row a request inserts has the request as its id

ASSUME RequestsAreFresh == Existing \cap Requests = {}
ASSUME RolesAreExclusive == Customers \cap Agents = {}

Users == Customers \cup Agents
TicketIds == Existing \cup Requests

VARIABLES
    tickets,     \* the `tickets` table: id -> row, or None
    comments,    \* the `comments` table
    pc,          \* where each request is in its handler, or how it was answered
    job,         \* what the request asks: operation, caller, ticket
    row,         \* the ticket as the request's session last read it
    attrs,       \* the attributes of the loaded object after setattr
    kids,        \* the comments `session.delete` loaded for its cascade
    broadcasts,  \* WebSocket events sent
    scheduled    \* requests whose dispatch_event was given to the background

vars == <<tickets, comments, pc, job, row, attrs, kids, broadcasts, scheduled>>
db == <<tickets, comments>>
local == <<job, row, attrs, kids>>
events == <<broadcasts, scheduled>>

Comment == [id : Requests, ticket : TicketIds, author : Users]
Event == [req : Requests, op : {"status", "comment"}, ticket : TicketIds,
          status : Statuses \cup {None}]
Job == [op : {"create", "status", "edit", "delete", "comment"},
        user : Users, ticket : TicketIds]
ASSUME NoneIsNoJob == None \notin Job

\* What a session may hold for a ticket: an explicit null is accepted in memory.
Draft == [owner : Customers, status : Statuses, content : Contents \cup {None}]

Waiting == {"cascade", "commit", "refresh", "invalidate", "announce"}
Answers == {"ok", "forbidden", "not_found", "conflict", "error", "lost"}

Init ==
    /\ tickets \in [TicketIds -> Ticket \cup {None}]
    /\ \A t \in TicketIds : tickets[t] # None <=> t \in Existing
    /\ comments = {}
    /\ pc = [r \in Requests |-> "new"]
    /\ job = [r \in Requests |-> None]
    /\ row = [r \in Requests |-> None]
    /\ attrs = [r \in Requests |-> None]
    /\ kids = [r \in Requests |-> {}]
    /\ broadcasts = {}
    /\ scheduled = {}

-------------------------------------------------------------------------------
(* From the request's arrival to the end of its checks. *)

Goto(r, place) == pc' = [pc EXCEPT ![r] = place]

Refuse(r, answer) == Goto(r, answer) /\ UNCHANGED <<db, local, events>>

\* get_visible_ticket lets the ticket through.
Visible(u, t) == tickets[t] # None /\ (u \in Agents \/ tickets[t].owner = u)

\* The checks passed: the session holds `old`, the handler has made it `new`.
Accept(r, place, op, u, t, old, new) ==
    /\ Goto(r, place)
    /\ job' = [job EXCEPT ![r] = [op |-> op, user |-> u, ticket |-> t]]
    /\ row' = [row EXCEPT ![r] = old]
    /\ attrs' = [attrs EXCEPT ![r] = new]
    /\ UNCHANGED <<db, kids, events>>

CreateTicket(r, u, c) ==
    /\ pc[r] = "new"
    /\ \/ u \notin Customers /\ Refuse(r, "forbidden")
       \/ /\ u \in Customers
          /\ Accept(r, "commit", "create", u, r, None,
                    [owner |-> u, status |-> "open", content |-> c])

\* Faulty variant without the check of ALLOWED_STATUS_TRANSITIONS: only reopening is refused.
AnyLaterStatus(t, s) == s # "open" /\ s # tickets[t].status

\* apply_status_transition accepts the move of the loaded ticket.
Transition(t, s) == CanMove(tickets[t].status, s)

ChangeStatus(r, u, t, s) ==
    /\ pc[r] = "new"
    /\ \/ ~Visible(u, t) /\ Refuse(r, "not_found")
       \/ Visible(u, t) /\ u \notin Agents /\ Refuse(r, "forbidden")
       \/ /\ Visible(u, t) /\ u \in Agents
          /\ ~Transition(t, s)
          /\ Refuse(r, "conflict")
       \/ /\ Visible(u, t) /\ u \in Agents
          /\ Transition(t, s)
          /\ Accept(r, "commit", "status", u, t, tickets[t],
                    [tickets[t] EXCEPT !.status = s])

\* The guards update_ticket and delete_ticket share.
OwnerOnlyWhileOpen(r, u, t) ==
    \/ ~Visible(u, t) /\ Refuse(r, "not_found")
    \/ Visible(u, t) /\ u \notin Customers /\ Refuse(r, "forbidden")
    \/ /\ Visible(u, t) /\ u \in Customers
       /\ tickets[t].status # "open"
       /\ Refuse(r, "conflict")

\* Faulty variant without the check that the ticket is open.
MayEditAnyTime(u, t) == Visible(u, t) /\ u \in Customers

MayEdit(u, t) == Visible(u, t) /\ u \in Customers /\ tickets[t].status = "open"

UpdateTicket(r, u, t, c) ==
    /\ pc[r] = "new"
    /\ \/ OwnerOnlyWhileOpen(r, u, t)
       \/ /\ MayEdit(u, t)
          /\ Accept(r, "commit", "edit", u, t, tickets[t],
                    [tickets[t] EXCEPT !.content = c])

DeleteTicket(r, u, t) ==
    /\ pc[r] = "new"
    /\ \/ OwnerOnlyWhileOpen(r, u, t)
       \/ /\ MayEdit(u, t)
          /\ Accept(r, "cascade", "delete", u, t, tickets[t], tickets[t])

CreateComment(r, u, t) ==
    /\ pc[r] = "new"
    /\ \/ ~Visible(u, t) /\ Refuse(r, "not_found")
       \/ Visible(u, t) /\ Accept(r, "commit", "comment", u, t, tickets[t], tickets[t])

Receive(r) ==
    \E u \in Users :
       \/ \E c \in Contents : CreateTicket(r, u, c)
       \/ \E t \in TicketIds :
             \/ \E s \in Statuses : ChangeStatus(r, u, t, s)
             \/ \E c \in Contents \cup {None} : UpdateTicket(r, u, t, c)
             \/ DeleteTicket(r, u, t)
             \/ CreateComment(r, u, t)

-------------------------------------------------------------------------------
(* session.delete and session.commit. *)

At(r, place, ops) == pc[r] = place /\ job[r].op \in ops

CommentsOf(t) == {k \in comments : k.ticket = t}

\* session.delete loads the comments that delete-orphan must delete.
LoadCascade(r) ==
    /\ At(r, "cascade", {"delete"})
    /\ kids' = [kids EXCEPT ![r] = CommentsOf(job[r].ticket)]
    /\ Goto(r, "commit")
    /\ UNCHANGED <<db, job, row, attrs, events>>

\* Faulty variant: every column of the loaded object written back, changed or not.
WriteAllColumns(stored, loaded, new) == new

\* The unit of work writes the columns that differ from what was loaded.
Flush(stored, loaded, new) ==
    [stored EXCEPT !.status = IF new.status # loaded.status THEN new.status ELSE @,
                   !.content = IF new.content # loaded.content THEN new.content ELSE @]

\* An exception leaves the handler: the transaction rolls back, the answer is 500.
Raises(r) == Goto(r, "error") /\ UNCHANGED <<db, local, events>>

CommitCreate(r) ==
    /\ At(r, "commit", {"create"})
    /\ tickets' = [tickets EXCEPT ![r] = attrs[r]]
    /\ Goto(r, "refresh")
    /\ UNCHANGED <<comments, local, events>>

\* With nothing changed no UPDATE is sent at all.
Changed(r) == attrs[r] # row[r]

\* Faulty variant: the content columns are nullable.
NullableUpdate(r) == Changed(r) /\ tickets[job[r].ticket] = None

\* An UPDATE that matches no row raises StaleDataError; a null column violates
\* NOT NULL.
RejectedUpdate(r) ==
    Changed(r) /\ (tickets[job[r].ticket] = None \/ attrs[r].content = None)

CommitUpdate(r) ==
    LET t == job[r].ticket
    IN  /\ At(r, "commit", {"status", "edit"})
        /\ \/ RejectedUpdate(r) /\ Raises(r)
           \/ /\ ~RejectedUpdate(r)
              /\ tickets' = IF Changed(r)
                            THEN [tickets EXCEPT ![t] = Flush(@, row[r], attrs[r])]
                            ELSE tickets
              /\ Goto(r, "refresh")
              /\ UNCHANGED <<comments, local, events>>

\* Faulty variant: no foreign key on comments.ticket_id.
NoForeignKey(r) == FALSE

\* A comment that was not loaded for the cascade still references the ticket, so
\* the foreign key rejects the DELETE.
RejectedDelete(r) == ~(CommentsOf(job[r].ticket) \subseteq kids[r])

\* Faulty variant: a rejected DELETE is swallowed and the request answered as if it succeeded.
IgnoreRejectedDelete(r) ==
    /\ At(r, "commit", {"delete"})
    /\ tickets' = IF RejectedDelete(r) THEN tickets ELSE [tickets EXCEPT ![job[r].ticket] = None]
    /\ comments' = IF RejectedDelete(r) THEN comments ELSE comments \ kids[r]
    /\ Goto(r, "invalidate")
    /\ UNCHANGED <<local, events>>

\* Deleting a row that is already gone is only a warning.
CommitDelete(r) ==
    LET t == job[r].ticket
    IN  /\ At(r, "commit", {"delete"})
        /\ \/ RejectedDelete(r) /\ Raises(r)
           \/ /\ ~RejectedDelete(r)
              /\ tickets' = [tickets EXCEPT ![t] = None]
              /\ comments' = comments \ kids[r]
              /\ Goto(r, "invalidate")
              /\ UNCHANGED <<local, events>>

CommitComment(r) ==
    LET t == job[r].ticket
    IN  /\ At(r, "commit", {"comment"})
        /\ \/ tickets[t] = None /\ Raises(r)
           \/ /\ tickets[t] # None
              /\ comments' = comments \cup {[id |-> r, ticket |-> t, author |-> job[r].user]}
              /\ Goto(r, "refresh")
              /\ UNCHANGED <<tickets, local, events>>

-------------------------------------------------------------------------------
(* After the commit. *)

\* Faulty variant: no refresh, the session keeps the ticket it loaded.
NoRefresh(r) ==
    /\ At(r, "refresh", {"create", "status", "edit"})
    /\ Goto(r, "invalidate")
    /\ UNCHANGED <<db, local, events>>

\* session.refresh reads the ticket again and raises when the row is gone.
RefreshTicket(r) ==
    LET stored == tickets[job[r].ticket]
    IN  /\ At(r, "refresh", {"create", "status", "edit"})
        /\ \/ stored = None /\ Raises(r)
           \/ /\ stored # None
              /\ row' = [row EXCEPT ![r] = stored]
              /\ Goto(r, "invalidate")
              /\ UNCHANGED <<db, job, attrs, kids, events>>

RefreshComment(r) ==
    LET stored == \E k \in comments : k.id = r
    IN  /\ At(r, "refresh", {"comment"})
        /\ Goto(r, IF stored THEN "announce" ELSE "error")
        /\ UNCHANGED <<db, local, events>>

\* invalidate_ticket_caches returned; a created ticket goes to the background.
Invalidated(r) ==
    /\ At(r, "invalidate", {"create", "status", "edit", "delete"})
    /\ Goto(r, IF job[r].op = "status" THEN "announce" ELSE "ok")
    /\ scheduled' = IF job[r].op = "create" THEN scheduled \cup {r} ELSE scheduled
    /\ UNCHANGED <<db, local, broadcasts>>

\* Faulty variant: the broadcasts without the background task.
BroadcastOnly(r) ==
    At(r, "announce", {"status", "comment"}) /\ Goto(r, "ok") /\ UNCHANGED <<db, local, events>>

\* Both broadcasts, and for a status change the background task.
Announce(r) ==
    /\ At(r, "announce", {"status", "comment"})
    /\ broadcasts' = broadcasts \cup
          {[req |-> r, op |-> job[r].op, ticket |-> job[r].ticket,
            status |-> IF job[r].op = "status" THEN row[r].status ELSE None]}
    /\ scheduled' = IF job[r].op = "status" THEN scheduled \cup {r} ELSE scheduled
    /\ Goto(r, "ok")
    /\ UNCHANGED <<db, local>>

\* PostgreSQL or Redis raises: the catch-all handler answers 500, and whatever
\* was committed before stays committed.
StoreFails(r) ==
    /\ pc[r] \in Waiting \ {"announce"}
    /\ Goto(r, "error")
    /\ UNCHANGED <<db, local, events>>

\* The server process dies: every request it was serving goes unanswered.
Crash ==
    /\ \E r \in Requests : pc[r] \in Waiting
    /\ pc' = [r \in Requests |-> IF pc[r] \in Waiting THEN "lost" ELSE pc[r]]
    /\ UNCHANGED <<db, local, events>>

Resume(r) ==
    \/ LoadCascade(r)
    \/ CommitCreate(r) \/ CommitUpdate(r) \/ CommitDelete(r) \/ CommitComment(r)
    \/ RefreshTicket(r) \/ RefreshComment(r)
    \/ Invalidated(r) \/ Announce(r)

Handle(r) == Receive(r) \/ Resume(r)

Next == (\E r \in Requests : Handle(r) \/ StoreFails(r)) \/ Crash

Spec == Init /\ [][Next]_vars

-------------------------------------------------------------------------------
(* What the requests in flight know, on which the proofs rest. *)

Undecided == {"new", "cascade", "commit"}

\* What the checks established and nobody can undo: they are about the request's
\* own copies.
ChecksDone ==
    \A r \in Requests :
       /\ pc[r] \in Waiting => job[r] \in Job
       /\ pc[r] = "cascade" => job[r].op = "delete"
       /\ pc[r] = "commit" /\ job[r].op = "create" =>
             job[r].ticket = r /\ attrs[r] \in Ticket /\ attrs[r].status = "open"
       /\ pc[r] \in {"cascade", "commit"} /\ job[r].op # "create" =>
             /\ row[r] \in Ticket /\ attrs[r] \in Draft
             /\ job[r].user \in Agents \/ job[r].user = row[r].owner
       /\ pc[r] = "commit" /\ job[r].op = "status" =>
             /\ CanMove(row[r].status, attrs[r].status)
             /\ attrs[r] = [row[r] EXCEPT !.status = attrs[r].status]
       /\ pc[r] = "commit" /\ job[r].op = "edit" =>
             /\ row[r].status = "open"
             /\ attrs[r] = [row[r] EXCEPT !.content = attrs[r].content]
       /\ pc[r] \in {"cascade", "commit"} /\ job[r].op = "delete" => row[r].status = "open"
       /\ pc[r] \in {"invalidate", "announce"} /\ job[r].op = "status" => row[r] \in Ticket

\* The id a request may give to a new row is not in use before it commits.
IdsUnused == \A r \in Requests : pc[r] \in Undecided => tickets[r] = None

\* Whatever else became of the loaded ticket, its id still names the same one.
SameTicket ==
    \A r \in Requests :
       pc[r] \in {"cascade", "commit"} /\ job[r].op # "create" =>
          LET t == job[r].ticket
          IN  /\ t \in Requests => pc[t] \notin Undecided
              /\ tickets[t] # None => tickets[t].owner = row[r].owner

-------------------------------------------------------------------------------
(* Properties. *)

\* Types of the tables and of the handlers' local state; in particular no null
\* content is ever stored, whatever update_ticket accepted in memory.
TypeOK ==
    /\ tickets \in [TicketIds -> Ticket \cup {None}]
    /\ comments \subseteq Comment
    /\ pc \in [Requests -> {"new"} \cup Waiting \cup Answers]
    /\ job \in [Requests -> Job \cup {None}]
    /\ row \in [Requests -> Ticket \cup {None}]
    /\ attrs \in [Requests -> Draft \cup {None}]
    /\ kids \in [Requests -> SUBSET Comment]
    /\ broadcasts \subseteq Event
    /\ scheduled \subseteq Requests

\* However comments race with the deletion of their ticket, every stored comment
\* has its ticket, and was written by an agent or by the ticket's owner.
CommentsBelong ==
    \A k \in comments :
       /\ tickets[k.ticket] # None
       /\ k.author \in Agents \/ k.author = tickets[k.ticket].owner

\* What of an acknowledged request no race takes back: a deleted ticket stays deleted;
\* a ticket or a comment is there unless the ticket was deleted, or its deletion ended
\* in a failure that may have followed the commit; and a ticket whose status was changed
\* is not open, though a race may have put it to another status.  The webhooks are told
\* of every acknowledged creation and status change.
AcknowledgedWritesLast ==
    \A r \in Requests : pc[r] = "ok" =>
       LET t == job[r].ticket
           deleted == \E d \in Requests :
                         /\ job[d] # None /\ job[d].op = "delete" /\ job[d].ticket = t
                         /\ pc[d] \in {"invalidate", "ok", "error", "lost"}
       IN  /\ job[r].op = "delete" => tickets[t] = None
           /\ tickets[t] = None => deleted
           /\ job[r].op = "comment" =>
                 tickets[t] = None \/ \E k \in comments : k.id = r /\ k.ticket = t
           /\ job[r].op = "status" => tickets[t] = None \/ tickets[t].status # "open"
           /\ job[r].op \in {"create", "status"} => r \in scheduled

Workflow == INSTANCE TicketWorkflow

\* The ticket changed between this request's load and the commit it is about to do.
Overtaken(r) ==
    /\ pc[r] = "commit"
    /\ job[r].op \in {"status", "edit", "delete"}
    /\ row[r] # tickets[job[r].ticket]

\* Every write to the ticket table is a step of the workflow, except the commit of
\* a request that was overtaken: lost updates are the only way to leave it.
OnlyRacesBreakTheWorkflow ==
    [][Workflow!Next \/ \E r \in Requests : Overtaken(r) /\ pc'[r] # "commit"]_tickets

\* Even under races a ticket that has left `open` never returns to it, and its
\* owner never changes.
NeverReopened ==
    [][\A t \in TicketIds :
          tickets[t] # None /\ tickets'[t] # None =>
             /\ tickets'[t].owner = tickets[t].owner
             /\ tickets'[t].status = "open" => tickets[t].status = "open"]_tickets

\* A request that has decided what to do from its loaded ticket and not committed.
Deciding(r) ==
    pc[r] \in {"cascade", "commit"} /\ job[r].op \in {"status", "edit", "delete"}

Copies(t) == {row[r] : r \in {q \in Requests : Deciding(q) /\ job[q].ticket = t}}

Stale == INSTANCE StaleWorkflow WITH copies <- [t \in TicketIds |-> Copies(t)]

\* Under every race the handlers implement the workflow on loaded copies: what is
\* written was allowed for a copy its request loaded, changes nothing but the column
\* the operation is about, and never touches a ticket nobody had loaded.
ImplementsWorkflow == Stale!Spec

\* A status change that has been committed.
Committed(r, t) ==
    /\ pc[r] \in {"refresh", "invalidate", "announce", "ok"}
    /\ job[r].op = "status" /\ job[r].ticket = t

\* A request that wrote the status now stored has told the subscribers so, is about to,
\* or has ended in a failure.
Accounted(r, t) ==
    LET s == tickets[t].status
    IN  /\ job[r] # None /\ job[r].op = "status" /\ job[r].ticket = t /\ attrs[r].status = s
        /\ \/ pc[r] \in {"refresh", "error", "lost"}
           \/ pc[r] \in {"invalidate", "announce"} /\ row[r].status = s
           \/ /\ pc[r] = "ok"
              /\ [req |-> r, op |-> "status", ticket |-> t, status |-> s] \in broadcasts

\* The refresh may read what a later request committed, so that one status is announced
\* twice and another never; but the status that stays is never kept from the
\* subscribers, unless the request that wrote it failed before its broadcast.
StoredStatusAnnounced ==
    \A t \in TicketIds :
       tickets[t] # None /\ (\E q \in Requests : Committed(q, t)) =>
          \E r \in Requests : Accounted(r, t)

-------------------------------------------------------------------------------
(* What the repository's texts say, and the handlers do not keep under races. *)

\* "Strictly sequential and forward-only ... No skipping a step, no reopening."
ForwardOnly ==
    [][\A t \in TicketIds :
          /\ tickets[t] # None /\ tickets'[t] # None
          /\ tickets'[t].status # tickets[t].status
          => CanMove(tickets[t].status, tickets'[t].status)]_tickets
===============================================================================
