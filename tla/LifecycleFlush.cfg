\* What CHANGELOG.md says of shutdown failures, against the code.
SPECIFICATION Spec
CONSTANTS
    Conns = {c1}
INVARIANTS
    ShutdownFailuresPropagate
