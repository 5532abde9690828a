\* Nomad behind a path prefix: what README.md says of warnings, against the code.
SPECIFICATION Spec
CONSTANTS
    Requests = {r1}
    Jobs = {j1}
    NoJob = NoJob
    NumMutators = 0
    NumValidators = 1
    MaxWarnings = 1
    Garbled = Garbled
    NotSent = NotSent
    Segments <- PathSegments
    RequestLines <- RegisterLines
    JobIDs <- IDs
    ResolveToken = FALSE
    NomadBasePath <- PathPrefix
INVARIANTS
    SuccessCarriesAllWarnings
