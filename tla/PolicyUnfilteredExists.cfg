SPECIFICATION Spec
CONSTANTS
    Null = Null
    Catalog <- MCCatalog
    MaxRows = 4
    Requests <- MCUnfiltered
    Bundles <- MCBundles
    Sessions <- MCSessions
    Databases <- MCDatabases
INVARIANT
    RowFilterEverywhere
CHECK_DEADLOCK FALSE
