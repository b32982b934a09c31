\* Two states that include each other.
SPECIFICATION ResolverSpec
CONSTANTS
    Paths <- StFiles
    StPaths <- StFiles
    FileName <- MCFileName
    Roots = {"r"}
    Under <- MCUnder
    Ids <- MCIds
    Blank = ""
    Sources <- MutualSources
    Absent = Absent
    Disks <- Mutual
    MaxRoots = 1
    MaxIndexes = 1
    MaxEdits = 0
    IndexAgain = FALSE
    MaxCompiles = 1
PROPERTIES CompileTerminates
CHECK_DEADLOCK FALSE
