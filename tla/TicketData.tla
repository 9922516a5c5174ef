------------------------------ MODULE TicketData ------------------------------
(***************************************************************************)
(* The rows of the `tickets` table and the status workflow, shared by the   *)
(* abstract workflow (TicketWorkflow) and by the request handlers (Tickets).*)
(* Title, description, category and priority are one abstract `content`.    *)
(***************************************************************************)
CONSTANTS
    Customers,  \* accounts whose role is `customer`
    Contents,   \* what the editable columns of a ticket may hold
    None        \* Python's None: no such row, an explicit null in a payload

Statuses == {"open", "in_progress", "resolved", "closed"}

ALLOWED_STATUS_TRANSITIONS ==
    {<<"open", "in_progress">>, <<"in_progress", "resolved">>, <<"resolved", "closed">>}

\* apply_status_transition raises InvalidStatusTransition unless this holds.
CanMove(current, requested) == <<current, requested>> \in ALLOWED_STATUS_TRANSITIONS

Ticket == [owner : Customers, status : Statuses, content : Contents]

ASSUME NoneIsNoValue == None \notin Contents /\ None \notin Ticket
===============================================================================
