\* What README.md says of validation errors, against what the code does.
SPECIFICATION Spec
CONSTANTS
    Requests = {r1}
    Jobs = {j1}
    NoJob = NoJob
    NumMutators = 0
    NumValidators = 1
    MaxWarnings = 0
    Garbled = Garbled
    NotSent = NotSent
    Segments <- PathSegments
    RequestLines <- ValidateLines
    JobIDs <- IDs
    ResolveToken = FALSE
    NomadBasePath <- NoPath
INVARIANTS
    ValidationErrorsAreMerged
