\* Two tables, an index name that may be taken twice, two rows, a crash anywhere
\* and any number of restarts.
SPECIFICATION Spec
CONSTANTS
    t = t
    u = u
    i = i
    TableName = {t, u}
    IndexName = {i}
    Row <- MCRows
    KeyOf <- MCKeyOf
    MaxId = 4
    MaxCrashes = 1
SYMMETRY Names
INVARIANTS
    CatalogNamesFiles
    IdsLeadToTheirFiles
    CleanRestartKeepsAll
