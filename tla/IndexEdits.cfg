\* Two calls of Index over up to two roots while files are being edited.
SPECIFICATION FinderSpec
CONSTANTS
    Paths <- MCPaths
    StPaths <- MCStPaths
    FileName <- MCFileName
    Roots <- MCRoots
    Under <- MCUnder
    Ids <- MCIds
    Blank = ""
    Sources <- MCSources
    Absent = Absent
    Disks <- MCDisks
    MaxRoots = 2
    MaxIndexes = 2
    MaxEdits = 2
INVARIANTS FinderTypeOK Dense Coherent LatestWins LaterRootOverrides
PROPERTIES MetaImmutable IndexFinishes
CHECK_DEADLOCK FALSE
