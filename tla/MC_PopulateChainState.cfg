CONSTANTS
    Chains <- MC_Chains
    Branches <- MC_Branches
    BitsCount = 2
    VersionCount = 3
    TimestampCount = 3
    RetargetInterval = 2
    CollisionsHeight = 2
    Word <- MC_Word
    Unrequested = Unrequested
    Unspecified = Unspecified
    NullHash = NullHash
    NoHeader = NoHeader
    NoState = NoState
    MaxCalls = 3
    MaxWrites = 2
SPECIFICATION Spec
INVARIANTS
    TypeOK
    PopulatedStateMatchesChain
CHECK_DEADLOCK FALSE
