SPECIFICATION PipelineSpec
CONSTANTS
    u1 = u1
    u2 = u2
    t1 = t1
    Uri = {u1, u2}
    Text = {t1}
    NoText = NoText
    LombokText = {t1}
    Panicking = {}
    Root <- WholeWorkspace
    NoRoot = NoRoot
    Version = {1}
    MaxGeneration = 1
    MaxInitialized = 1
    Refers <- Mutual
CONSTRAINT IndexingElsewhere
INVARIANTS
    NoDuplicateEntries
