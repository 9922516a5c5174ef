-------------------------------- MODULE MCRooms --------------------------------
(***************************************************************************)
(* An instance of Rooms for TLC.                                            *)
(***************************************************************************)
EXTENDS Rooms, TLC

CONSTANTS alice, bob, t1, t2, t3

\* A ticket of each customer, and an id that names none.
TicketOwner == (t1 :> alice) @@ (t2 :> bob) @@ (t3 :> None)
===============================================================================
