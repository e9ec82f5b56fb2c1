SPECIFICATION PipelineSpec
CONSTANTS
    u1 = u1
    t1 = t1
    t2 = t2
    Uri = {u1}
    Text = {t1, t2}
    NoText = NoText
    LombokText = {t1, t2}
    Panicking = {t2}
    Root <- WholeWorkspace
    NoRoot = NoRoot
    Version = {1, 2}
    MaxGeneration = 1
    MaxInitialized = 1
    Refers <- Standalone
CONSTRAINT IndexingElsewhere
INVARIANTS
    PipelineTypeOK
    NoSaveUnserved
    StubsFollowClasses
PROPERTIES
    RefinesServer
