---------------------------- MODULE StaleWorkflow ----------------------------
(***************************************************************************)
(* What the ticket table promises when requests race: every write is a step *)
(* of TicketWorkflow, but one decided on a copy of the ticket that was      *)
(* loaded before, and applied to what is stored by then.  Nothing is        *)
(* written that was decided on anything else.                               *)
(***************************************************************************)
EXTENDS TicketData

CONSTANT TicketIds
VARIABLES
    tickets,  \* the `tickets` table
    copies    \* for each ticket, the copies somebody is about to act on

vars == <<tickets, copies>>

Init ==
    /\ tickets \in [TicketIds -> Ticket \cup {None}]
    /\ copies = [t \in TicketIds |-> {}]

\* Nobody holds a copy of a ticket that is not there yet: ids are not used twice.
Open(t) ==
    /\ tickets[t] = None /\ copies[t] = {}
    /\ \E row \in Ticket :
          /\ row.status = "open"
          /\ tickets' = [tickets EXCEPT ![t] = row]
    /\ UNCHANGED copies

Load(t) ==
    /\ tickets[t] # None
    /\ copies' = [copies EXCEPT ![t] = @ \cup {tickets[t]}]
    /\ UNCHANGED tickets

\* Whoever acts on a copy is done with it; somebody else may hold the same one.
Release(t, copy) == copies' = copies \/ copies' = [copies EXCEPT ![t] = @ \ {copy}]

Advance(t, copy) ==
    /\ tickets[t] # None
    /\ \E s \in Statuses :
          /\ CanMove(copy.status, s)
          /\ tickets' = [tickets EXCEPT ![t].status = s]

Edit(t, copy) ==
    /\ copy.status = "open" /\ tickets[t] # None
    /\ \E c \in Contents : tickets' = [tickets EXCEPT ![t].content = c]

Remove(t, copy) ==
    /\ copy.status = "open"
    /\ tickets' = [tickets EXCEPT ![t] = None]

\* Somebody decides on a copy, or gives up.
Act(t, copy) ==
    /\ Release(t, copy)
    /\ Advance(t, copy) \/ Edit(t, copy) \/ Remove(t, copy) \/ UNCHANGED tickets

\* The server dies, and every copy with it.
Crash == copies' = [t \in TicketIds |-> {}] /\ UNCHANGED tickets

Next ==
    \/ \E t \in TicketIds : Open(t) \/ Load(t) \/ \E copy \in copies[t] : Act(t, copy)
    \/ Crash

Spec == Init /\ [][Next]_vars
===============================================================================
