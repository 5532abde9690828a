\* Every way into and out of run, with two connections.
SPECIFICATION FairSpec
CONSTANTS
    Conns = {c1, c2}
INVARIANTS
    LifecycleInv
    CleanExitCutsNobody
    CleanExitNeedsSignal
    NothingLeaks
    PoliciesOutliveRequests
PROPERTIES
    SignalEndsRun
