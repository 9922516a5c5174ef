CONSTANTS
    Events = {e1}
    Regs = {g1, g2}
    Deleters = {d1, d2}
    EventTypes = {created, changed}
    MAX_ATTEMPTS = 4
    None = None
SPECIFICATION FairSpec
INVARIANTS TypeOK NoOrphanDeliveries AtMostOneStalePost AttemptsInOrder DoneMeansSettled AtMostOneUnlogged
PROPERTY DispatchEnds
CHECK_DEADLOCK FALSE
