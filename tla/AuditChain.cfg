SPECIFICATION ChainSpec
CONSTANTS
    Writers = {w1, w2, w3}
    Outputs = {h1, h2}
    NoHash = null
    MaxCalls = 4
    MaxChanges = 2
INVARIANTS OverlapWarned ChangeCaught
CHECK_DEADLOCK FALSE
