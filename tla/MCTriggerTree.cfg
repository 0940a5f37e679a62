\* Up to three builds of the tree, in every order of loading, binding and waking.
CONSTANTS
    v = v  a = a  n = n  l = l
    NoSource = NoSource
    Triggers <- MCTriggers
    Kind <- MCKind
    Outs <- MCOuts
    Ins <- MCIns
    Commands <- MCCommands
    Dumped = {v}
    CallerStops = {"exit4"}
    MaxBuilds = 3
SPECIFICATION TreeLiveSpec
INVARIANTS
    TreeTypeOK
    FirstBuildQueues
    PostprocessIffQueued
    FirstBuildOrder
    EveryLeafHasLayer
PROPERTY BuildEnds
\* a halted process takes no step
CHECK_DEADLOCK FALSE
