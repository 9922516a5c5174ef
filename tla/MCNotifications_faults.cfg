CONSTANTS
    Customers = {alice}
    Agents = {agent}
    Contents = {x}
    Existing = {t1}
    Requests = {r1, r2}
    Regs = {g1}
    Deleters = {d1}
    MAX_ATTEMPTS = 2
    None = None
SPECIFICATION MCSpec
INVARIANTS OnlyAcknowledgedIsPosted SubscribersHear
PROPERTY ImplementsNotices
CHECK_DEADLOCK FALSE
