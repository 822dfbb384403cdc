CONSTANTS
    a = a
    b = b
    c = c
    NoMod = NoMod
    Mod <- Three
    Sources <- AllSources
    MaxImports = 1
    ImportFrom = {"script", "walk", "async", "resume"}
    AwaitFrom = {"resume"}
SPECIFICATION FairSpec
INVARIANTS PendingExact FulfilledMeansComplete FailureReachesImporters ForceCompletes
PROPERTIES ImplementsEvaluationOrder ImportSettles CapabilitySettles
CHECK_DEADLOCK FALSE
