SPECIFICATION Spec
CONSTANTS
    a1 = a1
    a2 = a2
    Types = {"int", "string"}
    Builds = {TRUE, FALSE}
    MaxScopes = 1
    Names = {"table"}
    Addresses <- MCAddresses
    Schemas <- MCSchemas
    MaxOperators = 2
    NoTable = NoTable
SYMMETRY MCSymmetry
INVARIANTS
    TypeOK
    DisabledInScopesOnly
    ShownOncePerType
    OutputsPassOn
PROPERTIES
    NamesKeepTheirTable
    PrintedTablesStay
CHECK_DEADLOCK FALSE
