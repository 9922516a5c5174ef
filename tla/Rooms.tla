--------------------------------- MODULE Rooms ---------------------------------
(***************************************************************************)
(* The WebSocket rooms of ConnectionManager: clients that connect, stall    *)
(* and go, and the handlers that broadcast to a ticket's room and then to   *)
(* the dashboard, one send after the other over a snapshot of each room.    *)
(***************************************************************************)
EXTENDS Functions

CONSTANTS
    Clients,       \* WebSocket connections, each made at most once
    Customers, Agents,
    TicketIds,
    Owner,         \* the customer of each ticket, None for an id without a row
    Broadcasts,    \* events: status changes and comments
    Dashboard,     \* the room that is no ticket
    None           \* no ticket, no account, nobody

ASSUME DashboardIsNoTicket == Dashboard \notin TicketIds
ASSUME AccountsAreSomebody == None \notin Customers \cup Agents /\ Customers \cap Agents = {}
ASSUME OwnersAreCustomers == Owner \in [TicketIds -> Customers \cup {None}]
ASSUME NobodyIsNoClient == None \notin Clients

VARIABLES
    user, wants, \* whose token a client presents, and the room it asks for
    conn,        \* where each connection is
    rooms,       \* _ticket_rooms: its keys are the tickets that have a room
    dashboard,   \* _dashboard_room
    stalled,     \* clients whose send buffer is full
    at, about,   \* where each broadcast is, and its ticket
    pending,     \* the part of the snapshot it has still to send to
    waitsFor,    \* the stalled client whose send has not returned
    sent,        \* the broadcasts sent to each client
    present      \* who was in one of its rooms when a broadcast began

vars == <<user, wants, conn, rooms, dashboard, stalled, at, about, pending, waitsFor, sent,
          present>>
manager == <<rooms, dashboard>>
client == <<user, wants, conn, stalled>>
event == <<at, about, pending, waitsFor, sent, present>>

Users == Customers \cup Agents
AllRooms == TicketIds \cup {Dashboard}

\* A client whose handler is in its receive loop, its transport still up or not.
Listening == {c \in Clients : conn[c] \in {"open", "gone"}}

Init ==
    /\ user = [c \in Clients |-> None]
    /\ wants = [c \in Clients |-> None]
    /\ conn = [c \in Clients |-> "new"]
    /\ rooms = [t \in {} |-> {}] /\ dashboard = {}
    /\ stalled = {}
    /\ at = [b \in Broadcasts |-> "idle"]
    /\ about = [b \in Broadcasts |-> None]
    /\ pending = [b \in Broadcasts |-> {}]
    /\ waitsFor = [b \in Broadcasts |-> None]
    /\ sent = [c \in Clients |-> {}]
    /\ present = [b \in Broadcasts |-> {}]

-------------------------------------------------------------------------------
(* The handlers of /ws/tickets/{ticket_id} and /ws/dashboard. *)

Become(c, place) == conn' = [conn EXCEPT ![c] = place]

\* Faulty variant: a ticket's room is open to every account.
AnyCustomer(u, r) == r = Dashboard => u \in Agents

\* An agent may join every room that exists, a customer that of an own ticket.
MaySubscribe(u, r) ==
    IF r = Dashboard
    THEN u \in Agents
    ELSE Owner[r] # None /\ (u \in Agents \/ Owner[r] = u)

\* The token and the ticket are read; a client without a valid token (None) is
\* closed with 4401, one that may not enter with 4404 or 4403.
Authorise(c, u, r) ==
    /\ conn[c] = "new"
    /\ \/ /\ u # None /\ MaySubscribe(u, r)
          /\ user' = [user EXCEPT ![c] = u]
          /\ wants' = [wants EXCEPT ![c] = r]
          /\ Become(c, "accept")
       \/ /\ ~(u # None /\ MaySubscribe(u, r))
          /\ Become(c, "closed")
          /\ UNCHANGED <<user, wants>>
    /\ UNCHANGED <<manager, stalled, event>>

\* _ticket_rooms.get(ticket_id, ())
Members(t) == IF t \in DOMAIN rooms THEN rooms[t] ELSE {}

\* Faulty variant: the dashboard is entered like a ticket's room.
AnyRoom(c) == TRUE

WantsTicket(c) == wants[c] # Dashboard

\* accept() returns, and without another await the client is in its room.
Join(c) ==
    /\ conn[c] = "accept"
    /\ Become(c, "open")
    /\ IF WantsTicket(c)
       THEN /\ rooms' = [t \in DOMAIN rooms \cup {wants[c]} |->
                           IF t = wants[c] THEN Members(t) \cup {c} ELSE rooms[t]]
            /\ UNCHANGED dashboard
       ELSE dashboard' = dashboard \cup {c} /\ UNCHANGED rooms
    /\ UNCHANGED <<user, wants, stalled, event>>

AcceptFails(c) ==
    /\ conn[c] = "accept"
    /\ Become(c, "closed")
    /\ UNCHANGED <<manager, user, wants, stalled, event>>

\* The finally clause; the key of an emptied room is deleted.
Leave(c) ==
    LET rest == Members(wants[c]) \ {c}
    IN  /\ conn[c] = "gone"
        /\ Become(c, "closed")
        /\ IF wants[c] = Dashboard
           THEN dashboard' = dashboard \ {c} /\ UNCHANGED rooms
           ELSE /\ rooms' = IF rest = {} THEN Restrict(rooms, DOMAIN rooms \ {wants[c]})
                                         ELSE [rooms EXCEPT ![wants[c]] = rest]
                /\ UNCHANGED dashboard
        /\ UNCHANGED <<user, wants, stalled, event>>

-------------------------------------------------------------------------------
(* The clients and their transports, which uvicorn drives. *)

\* Sends that wait for this client's buffer return.
Release(c) ==
    /\ stalled' = stalled \ {c}
    /\ waitsFor' = [b \in Broadcasts |-> IF waitsFor[b] = c THEN None ELSE waitsFor[b]]

Stalls(c) ==
    /\ conn[c] = "open" /\ c \notin stalled
    /\ stalled' = stalled \cup {c}
    /\ UNCHANGED <<manager, user, wants, conn, event>>

CatchesUp(c) ==
    /\ c \in stalled
    /\ Release(c)
    /\ UNCHANGED <<manager, user, wants, conn, at, about, pending, sent, present>>

\* The client closes, breaks off, sends what receive_text does not take, or has not
\* answered the keepalive ping.
Quits(c) ==
    /\ conn[c] = "open"
    /\ Become(c, "gone")
    /\ Release(c)
    /\ UNCHANGED <<manager, user, wants, at, about, pending, sent, present>>

-------------------------------------------------------------------------------
(* broadcast_to_ticket and then broadcast_to_dashboard, in a request's handler. *)

Goto(b, place) == at' = [at EXCEPT ![b] = place]

\* Faulty variant: the room is looked up with [], which creates it.
LookedUpByIndex(t) == [r \in DOMAIN rooms \cup {t} |-> Members(r)]

\* get() leaves the defaultdict as it is.
LookedUp(t) == rooms

Start(b, t) ==
    /\ at[b] = "idle" /\ Owner[t] # None
    /\ Goto(b, "ticket")
    /\ about' = [about EXCEPT ![b] = t]
    /\ pending' = [pending EXCEPT ![b] = Members(t)]
    /\ rooms' = LookedUp(t)
    /\ present' = [present EXCEPT ![b] = {c \in Clients : conn[c] = "open" /\
                                                           wants[c] \in {t, Dashboard}}]
    /\ UNCHANGED <<dashboard, client, waitsFor, sent>>

\* Faulty variant: the exception is caught around the loop.
LoopGivesUp(b, c) == {}

\* Faulty variant: a failed send is tried again.
TriesAgain(b, c) == pending[b]

\* What is left to send to after a send that raised and was swallowed.
AfterFailure(b, c) == pending[b] \ {c}

\* _safe_send: a send to a closed transport raises, one to a full buffer is written
\* and holds the handler.
Send(b, c) ==
    /\ c \in pending[b] /\ waitsFor[b] = None
    /\ IF conn[c] = "open"
       THEN /\ pending' = [pending EXCEPT ![b] = @ \ {c}]
            /\ sent' = [sent EXCEPT ![c] = @ \cup {b}]
       ELSE /\ pending' = [pending EXCEPT ![b] = AfterFailure(b, c)]
            /\ UNCHANGED sent
    /\ waitsFor' = [waitsFor EXCEPT ![b] = IF c \in stalled THEN c ELSE None]
    /\ UNCHANGED <<manager, client, at, about, present>>

SentToAll(b) == pending[b] = {} /\ waitsFor[b] = None

SnapshotDashboard(b) ==
    /\ at[b] = "ticket" /\ SentToAll(b)
    /\ Goto(b, "dashboard")
    /\ pending' = [pending EXCEPT ![b] = dashboard]
    /\ UNCHANGED <<manager, client, about, waitsFor, sent, present>>

\* The handler goes on to its answer.
Finish(b) ==
    /\ at[b] = "dashboard" /\ SentToAll(b)
    /\ Goto(b, "done")
    /\ UNCHANGED <<manager, client, about, pending, waitsFor, sent, present>>

-------------------------------------------------------------------------------
\* The server process dies: its rooms, connections and handlers are gone.
Crash ==
    /\ rooms' = [t \in {} |-> {}] /\ dashboard' = {}
    /\ conn' = [c \in Clients |-> IF conn[c] = "new" THEN "new" ELSE "closed"]
    /\ stalled' = {}
    /\ at' = [b \in Broadcasts |-> IF at[b] \in {"ticket", "dashboard"} THEN "lost" ELSE at[b]]
    /\ pending' = [b \in Broadcasts |-> {}]
    /\ waitsFor' = [b \in Broadcasts |-> None]
    /\ UNCHANGED <<user, wants, about, sent, present>>

Handle(c) == Join(c) \/ Leave(c)

Announce(b) == (\E c \in Clients : Send(b, c)) \/ SnapshotDashboard(b) \/ Finish(b)

Transport(c) == Stalls(c) \/ CatchesUp(c) \/ Quits(c)

Next ==
    \/ \E c \in Clients :
          \/ \E u \in Users \cup {None}, r \in AllRooms : Authorise(c, u, r)
          \/ Handle(c) \/ AcceptFails(c) \/ Transport(c)
    \/ \E b \in Broadcasts :
          \/ \E t \in TicketIds : Start(b, t)
          \/ Announce(b)
    \/ Crash

Spec == Init /\ [][Next]_vars

\* The loop resumes coroutines whose await has completed; a client that reads nothing
\* catches up or fails the keepalive.
FairSpec ==
    /\ Spec
    /\ \A c \in Clients :
          /\ WF_vars(Handle(c))
          /\ WF_vars(CatchesUp(c) \/ (c \in stalled /\ Quits(c)))
    /\ \A b \in Broadcasts : WF_vars(Announce(b))

-------------------------------------------------------------------------------
(* Properties. *)

\* Types of the manager's rooms, the connections and the broadcasts.
TypeOK ==
    /\ user \in [Clients -> Users \cup {None}]
    /\ wants \in [Clients -> AllRooms \cup {None}]
    /\ conn \in [Clients -> {"new", "accept", "open", "gone", "closed"}]
    /\ DOMAIN rooms \subseteq TicketIds /\ \A t \in DOMAIN rooms : rooms[t] \subseteq Clients
    /\ dashboard \subseteq Clients
    /\ stalled \subseteq Clients
    /\ at \in [Broadcasts -> {"idle", "ticket", "dashboard", "done", "lost"}]
    /\ about \in [Broadcasts -> TicketIds \cup {None}]
    /\ pending \in [Broadcasts -> SUBSET Clients]
    /\ waitsFor \in [Broadcasts -> Clients \cup {None}]
    /\ sent \in [Clients -> SUBSET Broadcasts]
    /\ present \in [Broadcasts -> SUBSET Clients]

\* The rooms hold exactly the connections whose handlers are listening, each in the
\* one room it asked for; no emptied room is left behind, whoever joins, leaves or
\* broadcasts in which order.
RoomsAreListeners ==
    /\ rooms = [t \in {wants[c] : c \in Listening} \ {Dashboard} |->
                   {c \in Listening : wants[c] = t}]
    /\ dashboard = {c \in Listening : wants[c] = Dashboard}

\* Nobody is sent an event of somebody else's ticket: its customer in the ticket's
\* room, agents there or at the dashboard.
OnlyEntitledHear ==
    \A c \in Clients : \A b \in sent[c] :
       /\ user[c] \in Agents \/ user[c] = Owner[about[b]]
       /\ wants[c] \in {about[b], Dashboard}

\* Who was in one of its rooms when a broadcast began and is still connected when it
\* ends has been sent it, whoever else joined, stalled or broke off during it.
PresentHear ==
    \A b \in Broadcasts : at[b] = "done" =>
       \A c \in present[b] : conn[c] = "open" => b \in sent[c]

\* No client can hold a broadcast, and with it the request, for good.
BroadcastEnds == \A b \in Broadcasts : at[b] = "ticket" ~> at[b] \in {"done", "lost"}
===============================================================================
