\* Three versions, every catalogue of three parts and three tiers.
SPECIFICATION Spec
CONSTANTS
    Versions = {v1, v2, v3}
    Parts = {p1, p2, p3}
    Null = Null
    MaxDepth = 1
    Callers = {c1, c2}
    MaxCalls = 3
SYMMETRY Symmetry
INVARIANTS OneActive TreeComplete
PROPERTY DeprecatedStays
CHECK_DEADLOCK FALSE
