SPECIFICATION Spec
CONSTANTS
    Suppliers = {prime, maker, miner}
    Boms = {b1, b2}
    NoSupplier = none
    Prime = prime
    Maker = maker
    Callers = {c1, c2}
    MaxCalls = 2
INVARIANTS CycleNeedsOverlap OneConnect InvitedInTree
CHECK_DEADLOCK FALSE
