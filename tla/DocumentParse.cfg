SPECIFICATION FairSpec
CONSTANTS
    Files = {f1}
    Deleted = {gone}
    Handlers = {h1, h2}
    Faults = {"fail", "restart", "crash"}
    MaxEvents = 3
    MaxTriggers = 2
    MaxFaults = 2
INVARIANTS ParsedOnce ClaimHasResult
PROPERTY EventuallyClaimed
CHECK_DEADLOCK FALSE
