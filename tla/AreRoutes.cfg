SPECIFICATION Spec
CONSTANTS
    Methods = {"GET", "POST", "TRACE"}
    Paths <- MCPaths
    Requested <- MCRequested
    Identifiers = {"id", "name"}
    KnownTypes = {"UserId"}
    MaxRoutes = 2
INVARIANTS TypeOK ParamsSpellThePath FirstInstanceServes ServedIffDocumented
\* A refused service is the end of it.
CHECK_DEADLOCK FALSE
