\* The seeded map in its four shapes, two changes and one reader.
SPECIFICATION MapSpec
CONSTANTS
    Suppliers = {prime, maker, miner}
    Prime = prime
    Maker = maker
    Miner = miner
    Miners = {miner}
    NoSupplier = none
    Null = null
    Parts = {p1, p2}
    First = p1
    Second = p2
    f1 = f1
    f2 = f2
    f3 = f3
    Factories = {f1, f2, f3}
    Owner <- MCOwner
    Whole = 2
    Targets = {{}, {maker}}
    MaxOps = 2
SYMMETRY Symmetry
INVARIANTS NotToldEarly AskedOnce TreeShowsGaps ValidMakesWhole
CHECK_DEADLOCK FALSE
