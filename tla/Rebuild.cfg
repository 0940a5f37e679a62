\* The script builds the tree a second time.
CONSTANTS
    v = v  a = a  n = n  l = l
    NoSource = NoSource
    Triggers <- MCTriggers
    Kind <- MCKind
    Outs <- MCOuts
    Ins <- MCIns
    Commands <- MCCommands
    Dumped = {v}
    CallerStops = {"exit4"}
    MaxBuilds = 2
SPECIFICATION TreeSpec
INVARIANT TouchedIffQueued
\* a halted process takes no step
CHECK_DEADLOCK FALSE
