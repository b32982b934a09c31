SPECIFICATION LocalSpec
CONSTANTS
    Callers = {c1, c2}
    Libs <- MCLibs
    Dirs = {"hostdir", "otherdir"}
    Names <- MCNames
    Loaded = {"re"}
    MaxFaults = 1
    StateRoots <- MCRoots
    Modules <- MCModules
    DirOf <- MCDirOf
    Inside <- MCInside
    Calls <- MCCalls
    Chroots <- MCChroots
    MaxCalls = 2
INVARIANT FirstRootWins
CHECK_DEADLOCK FALSE
