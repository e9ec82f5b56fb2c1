SPECIFICATION FairSpec
CONSTANTS
    u1 = u1
    t1 = t1
    t2 = t2
    Uri = {u1}
    Text = {t1, t2}
    NoText = NoText
    LombokText = {}
    Panicking = {}
    Root <- WholeWorkspace
    NoRoot = NoRoot
    Version = {1, 2}
    MaxGeneration = 2
    MaxInitialized = 1
INVARIANTS
    TypeOK
    NewestEditShown
PROPERTIES
    RefinesEditPromise
    KeepsEditPromise
