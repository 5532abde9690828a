\* A job ID with a slash: what CHANGELOG.md says of job IDs, against the code.
SPECIFICATION Spec
CONSTANTS
    Requests = {r1}
    Jobs = {j1}
    NoJob = NoJob
    NumMutators = 0
    NumValidators = 1
    MaxWarnings = 1
    Garbled = Garbled
    NotSent = NotSent
    Segments <- PathSegments
    RequestLines <- SlashedLines
    JobIDs <- IDs
    ResolveToken = FALSE
    NomadBasePath <- NoPath
INVARIANTS
    EveryJobIDIsAdmitted
