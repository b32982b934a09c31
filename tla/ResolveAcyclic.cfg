\* One index and one Compile over every acyclic reference graph of three files,
\* and over two files of one id.
SPECIFICATION ResolverSpec
CONSTANTS
    Paths <- AllFiles
    StPaths <- StFiles
    FileName <- MCFileName
    Roots = {"r"}
    Under <- MCUnder
    Ids <- MCIds
    Blank = ""
    Sources <- FlatSources
    Absent = Absent
    Disks <- FlatDisks
    MaxRoots = 1
    MaxIndexes = 1
    MaxEdits = 0
    IndexAgain = FALSE
    MaxCompiles = 1
INVARIANTS ResolvedClosed GivenUpIsUnknown BreakerMeansUnknown ExactlyReachable
PROPERTIES CompileTerminates
CHECK_DEADLOCK FALSE
