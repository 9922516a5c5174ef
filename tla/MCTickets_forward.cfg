CONSTANTS
    Customers = {alice}
    Agents = {agent}
    Contents = {x}
    None = None
    Existing = {t1}
    Requests = {r1, r2, r3}
SPECIFICATION Spec
PROPERTY ForwardOnly
CHECK_DEADLOCK FALSE
