CONSTANTS
    TicketIds = {t1}
    Customers = {alice}
    Statuses = {open, solved}
    Priorities = {low}
    Filters = {open}
    Readers = {q1}
    Writers = {w1, w2}
    None = None
    StatsKey = stats
    MaxWrites = 2
SPECIFICATION FairSpec
INVARIANTS TypeOK StalenessExplained
PROPERTY EventuallyFresh
CHECK_DEADLOCK FALSE
