CONSTANTS
    a = a
    b = b
    c = c
    d = d
    Names = {a, b}
    Channels = {c, d}
    Default = b
    Shape <- Repeating
    Offers <- Reminders
    Period = 1
    None = None
    MaxTime = 3
    MaxEdits = 2
    MaxFaults = 1
SPECIFICATION Spec
INVARIANTS AtMostOnce EveryMoment
PROPERTIES MomentsKept DueFires
CHECK_DEADLOCK FALSE
