SPECIFICATION FairSpec
CONSTANTS
    HIP = HIP
    BRIGHT = BRIGHT
    angle = angle
    dot = dot
    sphere = sphere
    plane = plane
    AngleTables = {angle}
    TrioTables = {sphere, plane}
    DotTables = {dot}
    CatalogSize = 5
    BrightSize = 4
    Setup <- SetupOrder
INVARIANTS IndexedComplete AllOrNothing CatalogFirst QuietMeansComplete
PROPERTIES OldTablesUntouched SetupCompletes
