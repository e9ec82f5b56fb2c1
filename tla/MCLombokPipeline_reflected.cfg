SPECIFICATION PipelineSpec
CONSTANTS
    u1 = u1
    u2 = u2
    t1 = t1
    t2 = t2
    Uri = {u1, u2}
    Text = {t1, t2}
    NoText = NoText
    LombokText = {t1, t2}
    Panicking = {}
    Root <- WholeWorkspace
    NoRoot = NoRoot
    Version = {1}
    MaxGeneration = 1
    MaxInitialized = 1
    Refers <- Standalone
CONSTRAINT SweptBesideSaved
INVARIANTS
    EditsAreReflected
