SPECIFICATION MCSpec
CONSTANTS
    Hosts <- MCHosts
    States <- TwoModules
    ArchOf <- KnownArch
    Runners <- MCRunners
    Client = "ansiblerunner"
    Settings <- Permanent
    NoAnsible = {}
    Lacks <- MCLacks
    MaxFaults = 1
    IdBound = 3
INVARIANT PermanentModeCreates
