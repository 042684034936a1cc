SPECIFICATION Spec
CONSTANTS
    RefNames <- MCRefNames
    header_name_for_field <- MCHeader
    to_ascii_lowercase <- MCLower
    Json <- MCJson
    Depth = 50
    Sources <- MCSources
    Bodies <- MCBodies
    Texts <- MCTexts
    Sent <- MCSent
INVARIANTS TypeOK AcceptedIsDocumented DocumentedIsAccepted ParametersFollowTheDocument OverflowsOnlyOnCircles
\* A project that was refused stops.
CHECK_DEADLOCK FALSE
