\* One request on every route, one mutator and two validators; seen
\* through the gate as well.
SPECIFICATION FairSpec
CONSTANTS
    Requests = {r1}
    Jobs = {j1, j2}
    NoJob = NoJob
    NumMutators = 1
    NumValidators = 2
    MaxWarnings = 1
    Garbled = Garbled
    NotSent = NotSent
    Segments <- PathSegments
    RequestLines <- AllLines
    JobIDs <- IDs
    ResolveToken = TRUE
    NomadBasePath <- NoPath
INVARIANTS
    TypeOK
    ProxyInv
    OnlyApprovedJobsReachNomad
    ValidationSeesTheRenderedJob
    ErrorMeansNeverSent
    PoliciesKnowTheToken
    SuccessCarriesAllWarnings
    ValidationReportsObjections
    AnswersAreWellFramed
    OtherTrafficIsUntouched
PROPERTIES
    ImplementsGate
    EveryRequestEnds
