SPECIFICATION FairSpec
CONSTANTS
    Procs = {p1, p2}
    Events = {e1}
    Handlers = 2
    Regulations = {searched, unsearched}
    Searched = {searched}
    Citations = {c1, c2}
    Limits = {1, 3}
    MaxFaults = 2
INVARIANT FoundWhole
PROPERTIES FoundStays ImplementsChannel StartsUp TakenOver
CHECK_DEADLOCK FALSE
