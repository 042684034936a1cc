SPECIFICATION Spec
CONSTANTS
    a = a
    NoText = NoText
    Collections = {"users"}
    Model <- MCModel
    Inputs <- MCInputs
    Ids <- MCIds
    Texts <- MCTexts
    Base = 10
    MaxI64 = 2
    MaxId = 2
    Routes <- MCRoutes
    Manifests <- AllManifests
    Statuses = {200, 201, 404}
    Made <- MCMade
    Raisable <- MCRaisable
    MaxCalls = 2
INVARIANTS TypeOK SuccessHonoursContract DeclaredErrorsReachTheClient HeldValuesConform
PROPERTIES KeepsTheStore EveryRequestAnswered
