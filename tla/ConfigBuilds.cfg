\* Every kind of configuration file, from its decoding to the built server.
SPECIFICATION Spec
CONSTANTS
    Files <- MCFiles
INVARIANTS
    ConfigTypeOK
    OnlyWellFormedStarts
    WellFormedIsNotRefused
    AcceptedConfigBuilds
    ServerIsTheConfigured
    VerifiersTry
    EnabledLogsAreOpen
