SPECIFICATION Spec
CONSTANTS
    Kinds = {"stream", "consumer"}
    StreamSpecs <- MCStreamSpecs
    ConsumerSpecs <- MCConsumerSpecs
    MirrorRecreate = TRUE
    PromoteRefused = {TRUE, FALSE}
    MaxRetries = 1
    MaxGen = 2
    Scenarios <- MCScenarios
CHECK_DEADLOCK FALSE
PROPERTY CleanupSparesKnown
PROPERTY PromoteKeepsStream
PROPERTY ReadOnlyKeepsStreams
PROPERTY LegacySettles
PROPERTY OrphansCleaned
