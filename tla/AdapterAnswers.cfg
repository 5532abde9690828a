\* Every controller type, every answer of at most two entries a field.
SPECIFICATION Spec
CONSTANTS
    Jobs = {j1, j2}
    NoJob = NoJob
    MaxEntries = 2
    MaxSigAttempts = 1
INVARIANTS
    PoliciesFailClosed
    MalformedAnswersRefuse
    MutatorsKeepTheContract
    WarningsReachTheHandler
    SilenceMeansVerified
    ImageRuleRefuses
