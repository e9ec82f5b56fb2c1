SPECIFICATION FairSpec
CONSTANTS
    u1 = u1
    u2 = u2
    t1 = t1
    t2 = t2
    Uri = {u1, u2}
    Text = {t1, t2}
    NoText = NoText
    LombokText = {t2}
    Panicking = {t2}
    Root <- WholeWorkspace
    NoRoot = NoRoot
    Version = {1}
    MaxGeneration = 1
    MaxInitialized = 1
PROPERTIES
    ScanReachesFile
