SPECIFICATION StoreSpec
CONSTANTS
    a = a
    b = b
    NoText = NoText
    Collections = {"users", "tags", "floats"}
    Model <- MCModel
    Inputs <- MCInputs
    Ids <- MCIds
    Texts <- MCTexts
    Base = 3
    MaxI64 = 2
    MaxId = 3
INVARIANTS StoreTypeOK RecordsKeyedByTheirId StoredRecordsValid ListingIsComplete
PROPERTIES BurnedIdsStayUnused ImplementsTable
