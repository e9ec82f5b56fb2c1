SPECIFICATION Spec
CONSTANTS
    Uri = {1, 2}
    Letter = {1, 2}
    Symbol <- Symbols
    NoOwner = "none"
    Key <- Keys
    MaxSymbols = 2
INVARIANTS
    TypeOK
    BucketsMatchFiles
    CompletionsAreBest
    MembersAreComplete
    HoverIsOrderFree
