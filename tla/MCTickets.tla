------------------------------ MODULE MCTickets ------------------------------
(***************************************************************************)
(* Instances of Tickets for TLC.                                            *)
(***************************************************************************)
EXTENDS Tickets, TLC

\* Requests are interchangeable; used by the runs without liveness.
Symmetry ==
    Permutations(Requests) \cup Permutations(Contents) \cup Permutations(Customers)
===============================================================================
