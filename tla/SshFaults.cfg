SPECIFICATION MCSpec
CONSTANTS
    Hosts <- MCHosts
    States <- MixedStates
    ArchOf <- OneUnknownArch
    Runners <- MCRunners
    Client = "ansiblerunner"
    Settings <- AllSettings
    NoAnsible = {"h2"}
    Lacks <- MCLacks
    MaxFaults = 2
    IdBound = 3
INVARIANT SshTypeOK
INVARIANT AtMostTwice
INVARIANT AnswersAreTrue
INVARIANT ReportComplete
INVARIANT LogTellsTruth
INVARIANT FreshHostServed
INVARIANT NoConnectionLeft
PROPERTY ClientStays
PROPERTY KeepsPromise
PROPERTY RunEnds
