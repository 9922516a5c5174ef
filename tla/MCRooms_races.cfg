CONSTANTS
    alice = alice
    bob = bob
    t1 = t1
    t2 = t2
    t3 = t3
    Clients = {c1, c2, c3}
    Customers = {alice, bob}
    Agents = {agent}
    TicketIds = {t1, t2, t3}
    Owner <- TicketOwner
    Broadcasts = {b1}
    Dashboard = dashboard
    None = None
SPECIFICATION FairSpec
INVARIANTS TypeOK RoomsAreListeners OnlyEntitledHear PresentHear
PROPERTY BroadcastEnds
CHECK_DEADLOCK FALSE
