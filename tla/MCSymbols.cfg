SPECIFICATION Spec
CONSTANTS
    MaxNodes = 5
    Variable <- X
    Stem <- A
    TypeKind <- TypeKinds
    TypeName <- TypeNames
    MethodName <- GetX
    Accessor <- Accessors
    Added <- AddedMethods
    Usual <- UsualBuilds
    Unusual <- UnusualBuilds
    MaxUnusual = 3
CHECK_DEADLOCK FALSE
INVARIANTS
    TypeOK
    ParsedIsCompiled
    ReceiverIsInnermost
    OwnersMeetReceivers
    StubShowsClass
    MembersAreListedOnce
