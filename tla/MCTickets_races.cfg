CONSTANTS
    Customers = {alice, bob}
    Agents = {agent}
    Contents = {x, y}
    None = None
    Existing = {t1}
    Requests = {r1, r2, r3}
SPECIFICATION Spec
SYMMETRY Symmetry
INVARIANTS TypeOK CommentsBelong AcknowledgedWritesLast StoredStatusAnnounced
PROPERTIES OnlyRacesBreakTheWorkflow NeverReopened ImplementsWorkflow
CHECK_DEADLOCK FALSE
