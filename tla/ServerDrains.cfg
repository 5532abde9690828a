\* One request on every route in a process that may end at any moment.
SPECIFICATION FairServerSpec
CONSTANTS
    Requests = {r1}
    Jobs = {j1}
    NoJob = NoJob
    NumMutators = 1
    NumValidators = 1
    MaxWarnings = 0
    Garbled = Garbled
    NotSent = NotSent
    Segments <- PathSegments
    RequestLines <- RouteLines
    JobIDs <- IDs
    ResolveToken = TRUE
    NomadBasePath <- NoPath
INVARIANTS
    CleanExitSettlesRequests
    RunningRequestsAreCounted
PROPERTIES
    NoRequestHangs
