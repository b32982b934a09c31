\* Two Bootstraps of two hosts, with an edit and a fault.
SPECIFICATION CmsSpec
CONSTANTS
    Paths <- MCPaths
    StPaths <- MCPaths
    FileName <- MCFileName
    Roots = {"base"}
    Under <- MCUnder
    Ids <- MCIds
    Blank = ""
    Sources <- MCSources
    Absent = Absent
    Disks <- MCDisks
    MaxRoots = 1
    MaxIndexes = 1
    MaxEdits = 1
    IndexAgain = FALSE
    MaxCompiles = 2
    Hosts = {"h1", "h2"}
    Users = {"root", "admin"}
    Root = "root"
    Fleets <- MCFleets
    Foreign = {"h1"}
    Wanted = {"a", "b"}
    MaxFaults = 1
INVARIANTS CmsTypeOK KeyDeployed RunsWhatWasAsked
PROPERTIES PanicsAreExplained BootstrapEnds
CHECK_DEADLOCK FALSE
