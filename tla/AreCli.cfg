SPECIFICATION Spec
CONSTANTS
    Files <- MCFiles
    Main = "main.are"
    Contents <- MCContents
    Manifests <- MCManifests
    Template <- MCTemplate
    MaxEdits = 1
INVARIANTS TypeOK FmtKeepsThePrograms AuditVouchesForRun OnlyEditsDrift
