SPECIFICATION Spec
CONSTANTS
    Jobs <- MCJobs
    Nolints <- MCNolints
    Headers <- MCHeaders
    MinNamespaceLines = 2
    MinSectionLines = 3
    NormalTrigger = 2
    TestTrigger = 3
    CopyrightLines = 2
INVARIANTS
    TypeOK
    FiltersAreRestored
    CountsAddUp
    NolintSilencesItsLine
    StackFollowsBraces
    UnconditionalIncludesAreKnown
    BracketsAgree
    LongFunctionsAreReported
    ElidedHasNoComments
    SameFileSameErrors
PROPERTIES
    LateIncludesAreFound
    StepsAreBounded
