SPECIFICATION Spec
CONSTANTS
    Functions <- ArmFunctions
    Structs <- MCStructs
    Models <- MCModels
    Enums <- MCEnums
    StringAliases = {"Email"}
    Capitals <- MCCapitals
    Entries <- MCEntries
    Decoded <- MCDecoded
    Stored <- MCStored
    JsonOf <- MCJsonOf
    Optionals <- MCOptionals
    HostErrors <- MCHostErrors
    MaxDepth = 2
    Orders <- ArmOrders
    Statements <- ArmStatements
    MaxStatements <- ArmLengths
INVARIANT BindingsAreDeclared
\* A module that was refused is not run, one that was run has ended.
CHECK_DEADLOCK FALSE
