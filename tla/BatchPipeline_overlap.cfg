\* Two paths start the same batch and the workers fail.
SPECIFICATION Spec
CONSTANTS
    StartPaths = {"SubmissionCompleted", "pipelineJob"}
    Clerks = {"clerk"}
    RaisingStages = {"stage_extraction"}
    SupplierCases = {TRUE}
    SeededStages = {"stage_compliance", "stage_risk"}
    Faults = {"fail", "api", "restart"}
    MaxDecisions = 2
    MaxFaults = 1
INVARIANTS OnePendingPerStop JudgedAfterChecks
PROPERTY ImplementsGate
CHECK_DEADLOCK FALSE
