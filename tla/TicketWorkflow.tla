---------------------------- MODULE TicketWorkflow ----------------------------
(***************************************************************************)
(* What the ticket table promises: tickets are opened, move strictly        *)
(* forward one status at a time, and are edited or removed only while open. *)
(* This is the workflow diagram the repository ships, with no handlers.     *)
(***************************************************************************)
EXTENDS TicketData

CONSTANT TicketIds
VARIABLE tickets

Init == tickets \in [TicketIds -> Ticket \cup {None}]

Open(t) ==
    /\ tickets[t] = None
    /\ \E row \in Ticket :
          /\ row.status = "open"
          /\ tickets' = [tickets EXCEPT ![t] = row]

IsOpen(t) == tickets[t] # None /\ tickets[t].status = "open"

Edit(t) ==
    /\ IsOpen(t)
    /\ \E c \in Contents : tickets' = [tickets EXCEPT ![t].content = c]

Remove(t) ==
    /\ IsOpen(t)
    /\ tickets' = [tickets EXCEPT ![t] = None]

Advance(t) ==
    /\ tickets[t] # None
    /\ \E s \in Statuses :
          /\ CanMove(tickets[t].status, s)
          /\ tickets' = [tickets EXCEPT ![t].status = s]

Next == \E t \in TicketIds : Open(t) \/ Edit(t) \/ Remove(t) \/ Advance(t)

Spec == Init /\ [][Next]_tickets
===============================================================================
