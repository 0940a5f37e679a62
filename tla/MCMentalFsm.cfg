\* The network thread and the script, two samples to a message and one to a step.
CONSTANTS
    v = v  a = a  n = n  l = l
    NoSource = NoSource
    Triggers <- MCTriggers
    Kind <- MCKind
    Outs <- MCOuts
    Ins <- MCIns
    Reads <- MCReads
    Commands <- MCCommands
    Dumped = {v}
    CallerStops = {"exit4", "null_input", "freed_input", "fpe", "race"}
    MaxBuilds = 2
    LocalRates = {2}
    RemoteRates = {0}
    MinRates = {2}
    MaxTime = 1
SPECIFICATION LiveSpec
INVARIANTS
    TypeOK
    OncePerStep
    WakeNotLost
PROPERTIES
    StepComplete
    NoLeap
    TimeReached
\* a halted process takes no step
CHECK_DEADLOCK FALSE
