\* Every program of a root with up to two lines over a state with up to two.
SPECIFICATION NanoSpec
CONSTANTS
    Programs <- MCPrograms
    MaxCalls = 2
INVARIANTS TreeIsMeaning GroupsAreTree
PROPERTIES TreeEnds
CHECK_DEADLOCK FALSE
