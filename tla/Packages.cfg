SPECIFICATION Spec
CONSTANTS
    a = a
    b = b
    c = c
    d = d
    Files = {a, b, c, d}
    Services = {a, b}
    Versions = {0, 1, 2}
    Users = {u1, u2}
    None = None
    Targets <- TheTargets
    At <- TheStore
    Needs <- TheNeeds
    Pips <- ThePips
    Others <- NoOthers
    Kernel = {}
    Norm <- Lower
    MaxOps = 3
    MaxFaults = 2
CHECK_DEADLOCK FALSE
INVARIANTS  EnabledIsThere
PROPERTIES InstallsWhole
