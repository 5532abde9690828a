\* One call, two mutators and two validators: order, chaining, isolation, counts.
SPECIFICATION HandlerSpec
CONSTANTS
    Requests = {r1}
    Jobs = {j1, j2}
    NoJob = NoJob
    NumMutators = 2
    NumValidators = 2
    MaxWarnings = 1
INVARIANTS
    MutatorsChain
    ValidatorsSeeTheFinalJob
    NoErrorMeansUnanimous
    EveryObjectionReported
    EveryWarningReturned
    MetricsCountCalls
