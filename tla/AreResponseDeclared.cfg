SPECIFICATION Spec
CONSTANTS
    a = a
    NoText = NoText
    Collections = {"users"}
    Model <- MCModel
    Inputs <- MCInputs
    Ids <- MCIds
    Texts <- MCTexts
    Base = 10
    MaxI64 = 2
    MaxId = 2
    Routes <- MCRoutes
    Manifests <- RenamedContract
    Statuses = {200, 201, 404}
    Made <- MCMade
    Raisable <- MCRaisable
    MaxCalls = 2
INVARIANT RaisedErrorsAreDeclared

