\* Output 1 of a virtual trigger feeds input 0 of a time trigger.
CONSTANTS
    v = v  a = a  n = n  l = l
    NoSource = NoSource
    Triggers <- MCTriggers
    Kind <- MCKind
    Outs <- MCOuts
    Ins <- MCIns
    Reads <- MCReads
    Commands <- CrossedCommands
    Dumped = {v}
    CallerStops = {"exit4", "null_input", "freed_input", "fpe", "race"}
    MaxBuilds = 1
    LocalRates = {1}
    RemoteRates = {1}
    MinRates = {1}
    MaxTime = 1
SPECIFICATION Spec
INVARIANT OutputWakesDependents
\* a halted process takes no step
CHECK_DEADLOCK FALSE
