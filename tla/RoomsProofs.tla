------------------------------ MODULE RoomsProofs ------------------------------
(***************************************************************************)
(* Proofs about Rooms, for any connections, accounts, tickets and           *)
(* broadcasts.                                                              *)
(***************************************************************************)
EXTENDS Rooms, TLAPS

-------------------------------------------------------------------------------
(* The inductive invariant. *)

\* A handler that got past its handshake serves an account that may have the room.
Authorised ==
    \A c \in Clients :
       /\ conn[c] \in {"accept", "open", "gone"} => user[c] # None
       /\ user[c] # None => /\ conn[c] # "new" /\ wants[c] \in AllRooms
                            /\ MaySubscribe(user[c], wants[c])

Concerns(b, c) == user[c] # None /\ wants[c] \in {about[b], Dashboard}

\* Whom a broadcast is to be sent to, was sent to, and was meant for.
MeantFor ==
    \A b \in Broadcasts :
       /\ at[b] = "idle" => present[b] = {} /\ \A c \in Clients : b \notin sent[c]
       /\ at[b] # "idle" => about[b] \in TicketIds
       /\ at[b] \in {"idle", "done", "lost"} => pending[b] = {}
       /\ \A c \in pending[b] :
             user[c] # None /\ wants[c] = (IF at[b] = "ticket" THEN about[b] ELSE Dashboard)
       /\ \A c \in Clients : b \in sent[c] => Concerns(b, c)
       /\ \A c \in present[b] : conn[c] \in {"open", "gone", "closed"} /\ Concerns(b, c)

\* Whoever is present is sent the broadcast by the end of the room it is in.
Reached ==
    \A b \in Broadcasts : \A c \in present[b] :
       conn[c] = "open" /\ b \notin sent[c] =>
          \/ at[b] \in {"idle", "lost"}
          \/ c \in pending[b]
          \/ at[b] = "ticket" /\ wants[c] = Dashboard

Inv ==
    /\ TypeOK /\ RoomsAreListeners /\ Authorised /\ MeantFor /\ Reached

-------------------------------------------------------------------------------
(* The rooms. *)

\* The listeners of one room.
In(r) == {c \in Listening : wants[c] = r}

\* The invariant of the rooms, room by room.
LEMMA RoomByRoom ==
    ASSUME Inv
    PROVE  /\ \A t \in TicketIds : Members(t) = In(t)
           /\ DOMAIN rooms = {wants[c] : c \in Listening} \ {Dashboard}
           /\ \A t \in DOMAIN rooms : rooms[t] = In(t)
           /\ dashboard = In(Dashboard)
  <1>1. /\ DOMAIN rooms = {wants[c] : c \in Listening} \ {Dashboard}
        /\ \A t \in DOMAIN rooms : rooms[t] = In(t)
        /\ dashboard = In(Dashboard)
    BY DEF Inv, RoomsAreListeners, In
  <1>2. \A t \in TicketIds : Members(t) = In(t)
    BY <1>1, DashboardIsNoTicket DEF Members, In
  <1> QED
    BY <1>1, <1>2

\* A step that moves nobody in or out of the receive loop leaves the rooms right.
LEMMA NobodyMoves ==
    ASSUME Inv, UNCHANGED manager,
           \A c \in Clients : conn'[c] \in {"open", "gone"} <=> conn[c] \in {"open", "gone"},
           \A c \in Listening : wants'[c] = wants[c]
    PROVE  RoomsAreListeners'
  <1>1. Listening' = Listening
    BY DEF Listening
  <1>2. {wants'[c] : c \in Listening} = {wants[c] : c \in Listening}
    OBVIOUS
  <1>3. \A r : {c \in Listening : wants'[c] = r} = {c \in Listening : wants[c] = r}
    OBVIOUS
  <1> QED
    BY <1>1, <1>2, <1>3 DEF Inv, RoomsAreListeners, manager

-------------------------------------------------------------------------------
(* The clients and their handlers: what a broadcast knows of a client is settled   *)
(* when the client is authorised.                                                  *)

\* A step of the clients alone keeps the invariant if no account, room or ticket is
\* taken from a connection that was let in.
LEMMA ClientStep ==
    ASSUME Inv, UNCHANGED <<at, about, pending, sent, present>>,
           \A c \in Clients : user[c] # None => user'[c] = user[c] /\ wants'[c] = wants[c],
           \A c \in Clients : /\ conn[c] \in {"open", "gone", "closed"} =>
                                    conn'[c] \in {"open", "gone", "closed"}
                              /\ conn'[c] = "open" => conn[c] \in {"open", "accept"}
    PROVE  MeantFor' /\ Reached'
  <1> USE DEF Inv
  <1>1. /\ \A b \in Broadcasts : pending[b] \subseteq Clients /\ present[b] \subseteq Clients
    BY DEF TypeOK
  <1>2. MeantFor'
    BY <1>1 DEF MeantFor, Concerns
  <1>3. Reached'
    <2> SUFFICES ASSUME NEW b \in Broadcasts, NEW c \in present[b],
                        conn'[c] = "open", b \notin sent[c]
                 PROVE  \/ at[b] \in {"idle", "lost"}
                        \/ c \in pending[b]
                        \/ at[b] = "ticket" /\ wants'[c] = Dashboard
      BY DEF Reached
    <2>1. c \in Clients /\ user[c] # None /\ conn[c] \in {"open", "gone", "closed"}
      BY <1>1 DEF MeantFor, Concerns
    <2>2. wants'[c] = wants[c] /\ conn[c] = "open"
      BY <2>1
    <2> QED
      BY <2>2 DEF Reached
  <1> QED
    BY <1>2, <1>3

\* A handshake lets in whom ws.py lets in, and to the room asked for.
LEMMA AuthoriseStep ==
    ASSUME Inv, NEW c \in Clients, NEW u \in Users \cup {None}, NEW r \in AllRooms,
           Authorise(c, u, r)
    PROVE  Inv'
  <1> USE DEF Inv, Authorise, Become, event
  <1>1. TypeOK'
    BY DEF TypeOK, manager
  <1>2. user[c] = None
    BY DEF Authorised
  <1>3. /\ \A d \in Clients \ {c} : /\ user'[d] = user[d] /\ wants'[d] = wants[d]
                                    /\ conn'[d] = conn[d]
        /\ conn'[c] \in {"accept", "closed"}
    BY DEF TypeOK
  <1>4. Authorised'
    <2>1. CASE u # None /\ MaySubscribe(u, r)
      <3>1. user'[c] = u /\ wants'[c] = r /\ conn'[c] = "accept"
        BY <2>1 DEF TypeOK
      <3> QED
        BY <1>3, <2>1, <3>1 DEF Authorised, MaySubscribe
    <2>2. CASE ~(u # None /\ MaySubscribe(u, r))
      <3>1. user'[c] = None /\ conn'[c] = "closed"
        BY <1>2, <2>2 DEF TypeOK
      <3> QED
        BY <1>3, <3>1 DEF Authorised, MaySubscribe
    <2> QED
      BY <2>1, <2>2
  <1>5. RoomsAreListeners'
    BY <1>3, NobodyMoves DEF Listening
  <1>6. MeantFor' /\ Reached'
    BY <1>2, <1>3, ClientStep
  <1> QED
    BY <1>1, <1>4, <1>5, <1>6

\* A connection that joins is added to the room it was let into, and to no other.
LEMMA JoinStep ==
    ASSUME Inv, NEW c \in Clients, Join(c)
    PROVE  Inv'
  <1> USE DEF Inv, Join, Become, WantsTicket, event
  <1>1. wants[c] \in AllRooms /\ user[c] # None /\ c \notin Listening
    BY DEF Authorised, Listening
  <1>2. Listening' = Listening \cup {c}
    BY DEF Listening, TypeOK
  <1>3. \A r : In(r)' = IF r = wants[c] THEN In(r) \cup {c} ELSE In(r)
    BY <1>2 DEF In
  <1>4. {wants[d] : d \in Listening \cup {c}} = {wants[d] : d \in Listening} \cup {wants[c]}
    OBVIOUS
  <1>5. TypeOK' /\ RoomsAreListeners'
    <2>1. CASE wants[c] = Dashboard
      <3>1. rooms' = rooms /\ dashboard' = dashboard \cup {c}
        BY <2>1
      <3>2. dashboard' = In(Dashboard)'
        BY <1>3, <2>1, <3>1, RoomByRoom
      <3>3. rooms = [t \in {wants[d] : d \in Listening} \ {Dashboard} |-> In(t)]
        BY DEF RoomsAreListeners, In
      <3>4. {wants[d] : d \in Listening} \ {Dashboard}
               = {wants[d] : d \in Listening'} \ {Dashboard}
        BY <1>2, <1>4, <2>1
      <3>5. \A t \in {wants[d] : d \in Listening} \ {Dashboard} : In(t) = In(t)'
        BY <1>3, <2>1
      <3>6. rooms' = [t \in {wants[d] : d \in Listening'} \ {Dashboard} |-> In(t)']
        BY <3>1, <3>3, <3>4, <3>5
      <3>7. RoomsAreListeners'
        BY <3>2, <3>6 DEF RoomsAreListeners, In
      <3>8. TypeOK'
        BY <3>1 DEF TypeOK
      <3> QED
        BY <3>7, <3>8
    <2>2. CASE wants[c] # Dashboard
      <3>1. /\ rooms' = [t \in DOMAIN rooms \cup {wants[c]} |->
                            IF t = wants[c] THEN Members(t) \cup {c} ELSE rooms[t]]
            /\ dashboard' = dashboard
        BY <2>2
      <3>2. wants[c] \in TicketIds
        BY <1>1, <2>2 DEF AllRooms
      <3>4. DOMAIN rooms \cup {wants[c]} = {wants[d] : d \in Listening'} \ {Dashboard}
        BY <1>2, <1>4, <2>2, RoomByRoom
      <3>5. \A t \in DOMAIN rooms \cup {wants[c]} :
               In(t)' = IF t = wants[c] THEN Members(t) \cup {c} ELSE rooms[t]
        BY <1>3, <3>2, RoomByRoom
      <3>6. rooms' = [t \in {wants[d] : d \in Listening'} \ {Dashboard} |-> In(t)']
        BY <3>1, <3>4, <3>5
      <3>7. dashboard' = In(Dashboard)'
        BY <1>3, <2>2, <3>1, RoomByRoom
      <3>8. RoomsAreListeners'
        BY <3>6, <3>7 DEF RoomsAreListeners, In
      <3>9. TypeOK'
        BY <3>1, <3>2 DEF TypeOK, Members
      <3> QED
        BY <3>8, <3>9
    <2> QED
      BY <2>1, <2>2
  <1>6. Authorised'
    BY <1>1 DEF Authorised, TypeOK, MaySubscribe
  <1>7. MeantFor' /\ Reached'
    BY ClientStep DEF TypeOK
  <1> QED
    BY <1>5, <1>6, <1>7

\* The finally takes a connection out of its room, and the room away with its last one.
LEMMA LeaveStep ==
    ASSUME Inv, NEW c \in Clients, Leave(c)
    PROVE  Inv'
  <1> USE DEF Inv, Leave, Become, event
  <1> DEFINE r == wants[c]
             rest == Members(r) \ {c}
  <1>1. r \in AllRooms /\ c \in Listening
    BY DEF Authorised, Listening
  <1>2. Listening' = Listening \ {c}
    BY DEF Listening, TypeOK
  <1>3. \A s : In(s)' = IF s = r THEN In(s) \ {c} ELSE In(s)
    BY <1>2 DEF In
  <1>5. TypeOK' /\ RoomsAreListeners'
    <2>1. CASE r = Dashboard
      <3>1. rooms' = rooms /\ dashboard' = dashboard \ {c}
        BY <2>1
      <3>2. dashboard' = In(Dashboard)'
        BY <1>3, <2>1, <3>1, RoomByRoom
      <3>3. rooms = [t \in {wants[d] : d \in Listening} \ {Dashboard} |-> In(t)]
        BY DEF RoomsAreListeners, In
      <3>4. {wants[d] : d \in Listening} \ {Dashboard}
               = {wants[d] : d \in Listening'} \ {Dashboard}
        BY <1>2, <2>1
      <3>5. \A t \in {wants[d] : d \in Listening} \ {Dashboard} : In(t) = In(t)'
        BY <1>3, <2>1
      <3>6. rooms' = [t \in {wants[d] : d \in Listening'} \ {Dashboard} |-> In(t)']
        BY <3>1, <3>3, <3>4, <3>5
      <3>7. RoomsAreListeners'
        BY <3>2, <3>6 DEF RoomsAreListeners, In
      <3>8. TypeOK'
        BY <3>1 DEF TypeOK
      <3> QED
        BY <3>7, <3>8
    <2>2. CASE r # Dashboard
      <3>1. /\ rooms' = IF rest = {} THEN Restrict(rooms, DOMAIN rooms \ {r})
                                     ELSE [rooms EXCEPT ![r] = rest]
            /\ dashboard' = dashboard
        BY <2>2
      <3>2. r \in TicketIds /\ r \in DOMAIN rooms
        BY <1>1, <2>2, RoomByRoom DEF AllRooms
      <3>3. rest = In(r)'
        BY <1>3, <3>2, RoomByRoom
      <3>4. DOMAIN rooms = {wants[d] : d \in Listening} \ {Dashboard}
        BY RoomByRoom
      <3>5. dashboard' = In(Dashboard)'
        BY <1>3, <2>2, <3>1, RoomByRoom
      <3>6. rooms' = [t \in {wants[d] : d \in Listening'} \ {Dashboard} |-> In(t)']
        <4>1. CASE rest = {}
          <5>1. rooms' = [t \in DOMAIN rooms \ {r} |-> rooms[t]]
            BY <3>1, <4>1 DEF Restrict
          <5>2. DOMAIN rooms \ {r} = {wants[d] : d \in Listening'} \ {Dashboard}
            BY <1>2, <3>3, <3>4, <4>1 DEF In
          <5>3. \A t \in DOMAIN rooms \ {r} : rooms[t] = In(t)'
            BY <1>3, RoomByRoom
          <5> QED
            BY <5>1, <5>2, <5>3
        <4>2. CASE rest # {}
          <5>1. rooms' = [t \in DOMAIN rooms |-> IF t = r THEN rest ELSE rooms[t]]
            BY <3>1, <4>2
          <5>2. DOMAIN rooms = {wants[d] : d \in Listening'} \ {Dashboard}
            <6>1. PICK d \in Listening' : wants[d] = r
              BY <3>3, <4>2 DEF In
            <6> QED
              BY <1>2, <3>4, <6>1
          <5>3. \A t \in DOMAIN rooms : In(t)' = IF t = r THEN rest ELSE rooms[t]
            BY <1>3, <3>3, RoomByRoom
          <5> QED
            BY <5>1, <5>2, <5>3
        <4> QED
          BY <4>1, <4>2
      <3>8. RoomsAreListeners'
        BY <3>5, <3>6 DEF RoomsAreListeners, In
      <3>9. TypeOK'
        <4>1. DOMAIN rooms' \subseteq DOMAIN rooms
          BY <1>2, <3>4, <3>6
        <4>2. \A t \in DOMAIN rooms' : rooms'[t] \subseteq Clients
          BY <3>6 DEF In, Listening
        <4> QED
          BY <3>1, <4>1, <4>2 DEF TypeOK
      <3> QED
        BY <3>8, <3>9
    <2> QED
      BY <2>1, <2>2
  <1>6. Authorised'
    BY DEF Authorised, TypeOK, MaySubscribe
  <1>7. MeantFor' /\ Reached'
    BY ClientStep DEF TypeOK
  <1> QED
    BY <1>5, <1>6, <1>7

\* The transport: the rooms keep a client that is gone until its handler leaves.
LEMMA TransportStep ==
    ASSUME Inv, NEW c \in Clients, Transport(c) \/ AcceptFails(c)
    PROVE  Inv'
  <1> USE DEF Inv, Transport, Stalls, CatchesUp, Quits, AcceptFails, Become, Release, event
  <1>1. TypeOK'
    BY DEF TypeOK, manager
  <1>2. /\ UNCHANGED <<manager, user, wants, at, about, pending, sent, present>>
        /\ \A d \in Clients :
              \/ conn'[d] = conn[d]
              \/ conn[d] = "open" /\ conn'[d] = "gone"
              \/ conn[d] = "accept" /\ conn'[d] = "closed"
    BY DEF TypeOK
  <1>3. RoomsAreListeners'
    BY <1>2, NobodyMoves DEF Listening
  <1>4. Authorised'
    BY <1>2 DEF Authorised, MaySubscribe
  <1>5. MeantFor' /\ Reached'
    BY <1>2, ClientStep
  <1> QED
    BY <1>1, <1>3, <1>4, <1>5

-------------------------------------------------------------------------------
(* The broadcasts. *)

\* A step of one broadcast, the rooms and connections as they were.
LEMMA BroadcastFrame ==
    ASSUME Inv, UNCHANGED <<manager, client>>
    PROVE  RoomsAreListeners' /\ Authorised'
  BY DEF Inv, manager, client, RoomsAreListeners, Listening, Authorised, MaySubscribe

\* A broadcast to a ticket takes its room as it is; who is in it may hear.
LEMMA StartStep ==
    ASSUME Inv, NEW b \in Broadcasts, NEW t \in TicketIds, Start(b, t)
    PROVE  Inv'
  <1> USE DEF Inv, Start, Goto, LookedUp, client
  <1>1. UNCHANGED manager
    BY DEF manager
  <1>2. Members(t) = {c \in Clients : conn[c] \in {"open", "gone"} /\ wants[c] = t}
    BY RoomByRoom DEF In, Listening
  <1>3. /\ at'[b] = "ticket" /\ about'[b] = t /\ pending'[b] = Members(t)
        /\ present'[b] = {c \in Clients : conn[c] = "open" /\ wants[c] \in {t, Dashboard}}
        /\ sent' = sent
    BY DEF TypeOK
  <1>4. \A e \in Broadcasts \ {b} : /\ at'[e] = at[e] /\ about'[e] = about[e]
                                    /\ pending'[e] = pending[e] /\ present'[e] = present[e]
    BY DEF TypeOK
  <1>5. TypeOK'
    BY <1>1, <1>2 DEF TypeOK, manager
  <1>6. MeantFor'
    <2>1. /\ \A c \in Clients : b \notin sent[c]
      BY DEF MeantFor
    <2>2. \A c \in pending'[b] : user[c] # None /\ wants[c] = t
      BY <1>2, <1>3 DEF Authorised
    <2>3. \A c \in present'[b] : conn[c] \in {"open", "gone", "closed"} /\ Concerns(b, c)'
      BY <1>3 DEF Authorised, Concerns
    <2> QED
      BY <1>3, <1>4, <2>1, <2>2, <2>3 DEF MeantFor, Concerns
  <1>7. Reached'
    BY <1>2, <1>3, <1>4 DEF Reached
  <1> QED
    BY <1>1, <1>5, <1>6, <1>7, BroadcastFrame

\* A send reaches its client or breaks its connection; the others are still pending.
LEMMA SendStep ==
    ASSUME Inv, NEW b \in Broadcasts, NEW c \in Clients, Send(b, c)
    PROVE  Inv'
  <1> USE DEF Inv, Send, AfterFailure, client
  <1>1. /\ pending' = [pending EXCEPT ![b] = @ \ {c}]
        /\ sent' = IF conn[c] = "open" THEN [sent EXCEPT ![c] = @ \cup {b}] ELSE sent
        /\ UNCHANGED <<at, about, present>>
    BY DEF TypeOK
  <1>2. TypeOK'
    BY <1>1 DEF TypeOK, manager
  <1>3. pending'[b] = pending[b] \ {c} /\ \A e \in Broadcasts \ {b} : pending'[e] = pending[e]
    BY <1>1 DEF TypeOK
  <1>4. /\ \A d \in Clients \ {c} : sent'[d] = sent[d]
        /\ sent'[c] \subseteq sent[c] \cup {b} /\ sent[c] \subseteq sent'[c]
        /\ conn[c] = "open" => b \in sent'[c]
    BY <1>1 DEF TypeOK
  <1>5. MeantFor'
    <2>1. Concerns(b, c) /\ at[b] # "idle"
      BY DEF MeantFor, Concerns
    <2>2. \A e \in Broadcasts, d \in Clients : e \in sent'[d] => e \in sent[d] \/ (e = b /\ d = c)
      BY <1>4
    <2> QED
      BY <1>1, <1>3, <2>1, <2>2 DEF MeantFor, Concerns
  <1>6. Reached'
    <2> SUFFICES ASSUME NEW e \in Broadcasts, NEW d \in present[e],
                        conn[d] = "open", e \notin sent'[d]
                 PROVE  \/ at[e] \in {"idle", "lost"}
                        \/ d \in pending'[e]
                        \/ at[e] = "ticket" /\ wants[d] = Dashboard
      BY <1>1 DEF Reached
    <2>1. d \in Clients
      BY DEF TypeOK
    <2>2. e \notin sent[d] /\ ~(e = b /\ d = c)
      BY <1>4, <2>1
    <2> QED
      BY <1>3, <2>2 DEF Reached
  <1> QED
    BY <1>2, <1>5, <1>6, BroadcastFrame

\* Once everybody in the ticket's room was sent the event, the dashboard is next.
LEMMA SnapshotStep ==
    ASSUME Inv, NEW b \in Broadcasts, SnapshotDashboard(b)
    PROVE  Inv'
  <1> USE DEF Inv, SnapshotDashboard, SentToAll, Goto, client
  <1>1. dashboard = {c \in Clients : conn[c] \in {"open", "gone"} /\ wants[c] = Dashboard}
    BY RoomByRoom DEF In, Listening
  <1>2. at'[b] = "dashboard" /\ pending'[b] = dashboard
    BY DEF TypeOK
  <1>3. \A e \in Broadcasts \ {b} : at'[e] = at[e] /\ pending'[e] = pending[e]
    BY DEF TypeOK
  <1>4. TypeOK'
    BY DEF TypeOK, manager
  <1>5. MeantFor'
    <2>1. \A c \in dashboard : user[c] # None /\ wants[c] = Dashboard
      BY <1>1 DEF Authorised
    <2> QED
      BY <1>2, <1>3, <2>1 DEF MeantFor, Concerns
  <1>6. Reached'
    <2>1. \A c \in present[b] : conn[c] = "open" /\ b \notin sent[c] => c \in dashboard
      BY <1>1 DEF Reached, TypeOK
    <2> QED
      BY <1>2, <1>3, <2>1 DEF Reached
  <1> QED
    BY <1>4, <1>5, <1>6, BroadcastFrame

\* A broadcast ends with nobody of its snapshots left out.
LEMMA FinishStep ==
    ASSUME Inv, NEW b \in Broadcasts, Finish(b)
    PROVE  Inv'
  <1> USE DEF Inv, Finish, SentToAll, Goto, client
  <1>1. at'[b] = "done" /\ \A e \in Broadcasts \ {b} : at'[e] = at[e]
    BY DEF TypeOK
  <1>2. TypeOK'
    BY DEF TypeOK, manager
  <1>3. MeantFor'
    BY <1>1 DEF MeantFor, Concerns
  <1>4. Reached'
    BY <1>1 DEF Reached
  <1> QED
    BY <1>2, <1>3, <1>4, BroadcastFrame

\* Nobody is left open, and nothing is left to send.
LEMMA CrashStep ==
    ASSUME Inv, Crash
    PROVE  Inv'
  <1> USE DEF Inv, Crash
  <1>1. TypeOK'
    BY DEF TypeOK
  <1>2. Listening' = {}
    BY DEF Listening
  <1>3. RoomsAreListeners'
    BY <1>2 DEF RoomsAreListeners
  <1>4. Authorised'
    BY DEF Authorised, MaySubscribe
  <1>5. MeantFor' /\ Reached'
    BY DEF TypeOK, MeantFor, Concerns, Reached
  <1> QED
    BY <1>1, <1>3, <1>4, <1>5

-------------------------------------------------------------------------------
(* Every behaviour. *)

\* Without connections and broadcasts the invariant holds.
LEMMA Initially == Init => Inv
  <1> SUFFICES ASSUME Init
               PROVE  Inv
    OBVIOUS
  <1>1. Listening = {}
    BY DEF Init, Listening
  <1>2. TypeOK /\ RoomsAreListeners
    BY <1>1 DEF Init, TypeOK, RoomsAreListeners
  <1>3. Authorised /\ MeantFor /\ Reached
    BY DEF Init, Authorised, MeantFor, Reached
  <1> QED
    BY <1>2, <1>3 DEF Inv

\* Every step of clients, handlers and broadcasts keeps the invariant.
LEMMA Inductive == Inv /\ [Next]_vars => Inv'
  <1> SUFFICES ASSUME Inv, [Next]_vars
               PROVE  Inv'
    OBVIOUS
  <1>1. CASE \E c \in Clients, u \in Users \cup {None}, r \in AllRooms : Authorise(c, u, r)
    BY <1>1, AuthoriseStep
  <1>2. CASE \E c \in Clients : Handle(c) \/ AcceptFails(c) \/ Transport(c)
    BY <1>2, JoinStep, LeaveStep, TransportStep DEF Handle
  <1>3. CASE \E b \in Broadcasts, t \in TicketIds : Start(b, t)
    BY <1>3, StartStep
  <1>4. CASE \E b \in Broadcasts : Announce(b)
    BY <1>4, SendStep, SnapshotStep, FinishStep DEF Announce
  <1>5. CASE Crash
    BY <1>5, CrashStep
  <1>6. CASE UNCHANGED vars
    <2> USE <1>6 DEF vars, client, manager, Inv
    <2>1. TypeOK' /\ MeantFor' /\ Reached'
      BY DEF TypeOK, MeantFor, Concerns, Reached
    <2> QED
      BY <2>1, BroadcastFrame
  <1> QED
    BY <1>1, <1>2, <1>3, <1>4, <1>5, <1>6 DEF Next

\* The invariant holds in every behaviour of the connection manager.
THEOREM Invariance == Spec => []Inv
  <1>1. Init => Inv
    BY Initially
  <1>2. Inv /\ [Next]_vars => Inv'
    BY Inductive
  <1> QED
    BY <1>1, <1>2, PTL DEF Spec

\* The manager's rooms, the connections and the broadcasts keep their types.
THEOREM TypeCorrect == Spec => []TypeOK
  <1>1. Inv => TypeOK
    BY DEF Inv
  <1> QED
    BY <1>1, Invariance, PTL

\* Whatever joins, leaves, stalls and broadcasts do to each other, the rooms hold
\* exactly the connections whose handlers listen, and no emptied room stays.
THEOREM RoomsHoldListeners == Spec => []RoomsAreListeners
  <1>1. Inv => RoomsAreListeners
    BY DEF Inv
  <1> QED
    BY <1>1, Invariance, PTL

\* An event is only ever sent to its ticket's customer and to agents, although the
\* broadcast itself looks at nothing but the rooms.
THEOREM NobodyElseHears == Spec => []OnlyEntitledHear
  <1>1. Inv => OnlyEntitledHear
    <2> SUFFICES ASSUME Inv, NEW c \in Clients, NEW b \in sent[c]
                 PROVE  /\ user[c] \in Agents \/ user[c] = Owner[about[b]]
                        /\ wants[c] \in {about[b], Dashboard}
      BY DEF OnlyEntitledHear
    <2>1. b \in Broadcasts
      BY DEF Inv, TypeOK
    <2>2. Concerns(b, c) /\ about[b] \in TicketIds
      BY <2>1 DEF Inv, MeantFor
    <2>3. MaySubscribe(user[c], wants[c])
      BY <2>2 DEF Inv, Authorised, Concerns
    <2> QED
      BY <2>2, <2>3, DashboardIsNoTicket DEF Concerns, MaySubscribe
  <1> QED
    BY <1>1, Invariance, PTL

\* Who was in one of its rooms when a broadcast began and is open when it ends has been
\* sent it: the snapshots and the failures of others drop nobody.
THEOREM EveryonePresentHears == Spec => []PresentHear
  <1>1. Inv => PresentHear
    BY DEF Inv, PresentHear, Reached, MeantFor
  <1> QED
    BY <1>1, Invariance, PTL

===============================================================================
