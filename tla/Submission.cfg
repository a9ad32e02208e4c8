SPECIFICATION FairSpec
CONSTANTS
    Callers = {c1, c2}
    Faults = {"drop"}
    MaxCalls = 6
    MaxFaults = 1
INVARIANTS OneJob StartsBacked
PROPERTY ApprovalEnqueued
CHECK_DEADLOCK FALSE
