SPECIFICATION Spec
CONSTANTS
    Callers = {c1, c2}
    Services = {service}
    Tools = {tool}
    None = None
    MaxCalls = 2
    MaxAsks = 2
    MaxUnloads = 1
    MaxFaults = 1
CHECK_DEADLOCK FALSE
INVARIANTS  NoneLeft
PROPERTIES CallsReturn
