SPECIFICATION Spec
CONSTANTS
    Functions <- NoteFunctions
    Structs <- MCStructs
    Models <- MCModels
    Enums <- MCEnums
    StringAliases = {"Email"}
    Capitals <- MCCapitals
    Entries <- MCEntries
    Decoded <- MCDecoded
    Stored <- MCStored
    JsonOf <- MCJsonOf
    Optionals <- MCOptionals
    HostErrors <- MCHostErrors
    MaxDepth = 2
    Orders <- NoteOrders
    Statements <- NoteStatements
    MaxStatements <- NoteLengths
INVARIANT MissingReturnTypeIsUnit
\* A module that was refused is not run, one that was run has ended.
CHECK_DEADLOCK FALSE
