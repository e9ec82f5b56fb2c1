SPECIFICATION Spec
CONSTANTS
    Name <- Names
    Entry = {"j1", "j2"}
    Project <- Projects
    File <- Files
    Parent = ".."
    MaxPath = 5
    MaxDepth = 6
    Class <- Classes
    SimpleName <- SimpleNames
    Internal = {"sun.X"}
    Nameless = {"Map$1"}
    Content = {"e1", "x1", "n1", "u1", "v1", "v2", "w2"}
    Home <- Homes
    Installation <- Installations
    MaxSession = 2
    Path <- Paths
CHECK_DEADLOCK FALSE
INVARIANTS
    TypeOK
    ModelIsProject
    CacheIsFaithful
    UrisLeadBack
PROPERTY
    IndexingEnds
