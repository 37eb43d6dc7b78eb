SPECIFICATION Spec
CONSTANTS
    a1 = a1
    a2 = a2
    Types = {"int", "string"}
    Builds = {TRUE}
    MaxScopes = 1
    Names = {"table"}
    Addresses <- MCAddresses
    Schemas <- MCSchemas
    MaxOperators = 1
    NoTable = NoTable
INVARIANT WarningIsShownOnce
CHECK_DEADLOCK FALSE
