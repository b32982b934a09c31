\* A job with a dependency on two blocks.
SPECIFICATION NanoSpec
CONSTANTS
    Programs <- TwoDependencies
    MaxCalls = 1
INVARIANTS DependencyFirst
CHECK_DEADLOCK FALSE
