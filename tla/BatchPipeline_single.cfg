SPECIFICATION FairSpec
CONSTANTS
    StartPaths = {"SubmissionCompleted"}
    Clerks = {"c1", "c2"}
    RaisingStages = {"stage_geo"}
    SupplierCases = {TRUE}
    SeededStages = {"stage_risk"}
    Faults = {"redeliver"}
    MaxDecisions = 3
    MaxFaults = 2
INVARIANT NoStranded
PROPERTIES JudgedIsFinal EventuallySettled
CHECK_DEADLOCK FALSE
