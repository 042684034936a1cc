SPECIFICATION ServerSpec
CONSTANTS
    a = a
    b = b
    p = p
    q = q
    NoText = NoText
    Collections = {"users"}
    Model <- MCModel
    Inputs <- MCInputs
    Ids <- MCIds
    Texts <- MCTexts
    Base = 10
    MaxI64 = 9
    MaxId = 4
    Clients = {p, q}
    MaxSends = 2
    MaxEpochs = 2
INVARIANTS ServerTypeOK AwaitedIsInTheServer ConfirmedRecordsStay ReadYourWrites OneRecordPerRequest
PROPERTY EveryRequestSettles
\* Clients that have used up their requests stop.
CHECK_DEADLOCK FALSE
