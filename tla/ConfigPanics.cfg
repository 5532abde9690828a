\* What the change log says of startup panics.
SPECIFICATION Spec
CONSTANTS
    Files <- LevelFiles
INVARIANTS
    NoPanicOnConfiguration
