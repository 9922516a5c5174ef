CONSTANTS
    Events = {e1}
    Regs = {g1, g2}
    Deleters = {d1}
    EventTypes = {created}
    MAX_ATTEMPTS = 2
    None = None
SPECIFICATION Faultless
INVARIANT EveryRegistrationPosted
CHECK_DEADLOCK FALSE
