SPECIFICATION Spec
CONSTANTS
    Functions <- MCFunctions
    Structs <- MCStructs
    Models <- MCModels
    Enums <- MCEnums
    StringAliases = {"Email"}
    Capitals <- MCCapitals
    Entries <- MCEntries
    Decoded <- MCDecoded
    Stored <- MCStored
    JsonOf <- MCJsonOf
    Optionals <- MCOptionals
    HostErrors <- MCHostErrors
    MaxDepth = 4
    Orders <- MCOrders
    Statements <- MCStatements
    MaxStatements <- MCLengths
INVARIANTS TypeOK NamesHoldTheirTypes AcceptedBodiesFailInKnownWays RaisesWhatItDeclares ReturnsWhatItDeclares
\* A module that was refused is not run, one that was run has ended.
CHECK_DEADLOCK FALSE
