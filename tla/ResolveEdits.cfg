\* Two rounds of Index and Compile while files are edited.
SPECIFICATION ResolverSpec
CONSTANTS
    Paths <- StFiles
    StPaths <- StFiles
    FileName <- MCFileName
    Roots = {"r"}
    Under <- MCUnder
    Ids <- MCIds
    Blank = ""
    Sources <- EditSources
    Absent = Absent
    Disks <- EditDisks
    MaxRoots = 1
    MaxIndexes = 2
    MaxEdits = 1
    IndexAgain = TRUE
    MaxCompiles = 2
INVARIANTS ResolverTypeOK ResolvedClosed
PROPERTIES KeepsPromise RetriesEnd
CHECK_DEADLOCK FALSE
