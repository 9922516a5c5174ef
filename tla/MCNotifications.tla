--------------------------- MODULE MCNotifications ---------------------------
(***************************************************************************)
(* An instance of Notifications for TLC.                                    *)
(***************************************************************************)
EXTENDS Notifications

\* Every stored ticket starts out open: two requests cannot use up more of the
\* workflow than that leaves.
MCInit == Init /\ \A t \in Existing : tickets[t].status = "open"

MCSpec == MCInit /\ [][Next]_vars /\ \A r \in Requests : WF_vars(Proceed(r))
===============================================================================
