SPECIFICATION Spec
CONSTANTS
    Paths = {p, q}
    Absent = Absent
    Old = Old
    MaxTxns = 3
    MaxFaults = 2
INVARIANTS AllOrNothing
 
CHECK_DEADLOCK FALSE
