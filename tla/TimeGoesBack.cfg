\* The DSP counts two samples while the machine counts one.
CONSTANTS
    v = v  a = a  n = n  l = l
    NoSource = NoSource
    Triggers <- MCTriggers
    Kind <- MCKind
    Outs <- MCOuts
    Ins <- MCIns
    Reads <- MCReads
    Commands <- MCCommands
    Dumped = {v}
    CallerStops = {"exit4", "null_input", "freed_input", "fpe", "race"}
    MaxBuilds = 1
    LocalRates = {1}
    RemoteRates = {2}
    MinRates = {1}
    MaxTime = 2
SPECIFICATION LiveSpec
PROPERTY TimeNeverGoesBack
\* a halted process takes no step
CHECK_DEADLOCK FALSE
