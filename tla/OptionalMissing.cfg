\* A missing id that two states include optionally.
SPECIFICATION ResolverSpec
CONSTANTS
    Paths <- StFiles
    StPaths <- StFiles
    FileName <- MCFileName
    Roots = {"r"}
    Under <- MCUnder
    Ids <- MCIds
    Blank = ""
    Sources <- OptionalTwiceSources
    Absent = Absent
    Disks <- OptionalTwice
    MaxRoots = 1
    MaxIndexes = 1
    MaxEdits = 0
    IndexAgain = FALSE
    MaxCompiles = 1
PROPERTIES OptionalNeverPanics
CHECK_DEADLOCK FALSE
