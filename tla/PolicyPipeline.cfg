SPECIFICATION Spec
CONSTANTS
    Null = Null
    Catalog <- MCCatalog
    MaxRows = 4
    Requests <- MCRequests
    Bundles <- MCBundles
    Sessions <- MCSessions
    Databases <- MCDatabases
INVARIANTS
    TypeOK
    SelectIsViewQuery
    HiddenRowsDoNotMatter
    WriteIsPolicyWrite
    DescriptorsHold
    AcceptedWriteStores
    ExpectationsDecide
    CatalogIsHonest
CHECK_DEADLOCK FALSE
