SPECIFICATION MCSpec
CONSTANTS
    x = x
    y = y
    values = values
    nothing = nothing
    net_file = net_file
    first = first
    second = second
    c = c
    Names = {x, y}
    DataFiles = {values, nothing}
    Contents <- MCContents
    NetFiles = {net_file}
    MaxSize <- MCMaxSize
    MergeLists <- MCMergeLists
    MaxEntries = 2
    MaxRows = 2
    ProjectFiles = {first, second}
    UserIds <- MCUserIds
    MaxCommits = 3
    MaxData = 7
    MaxHistory = 9
INVARIANTS
    TrainerTypeOK
    MisfitExplained
    HistoryIsTree
PROPERTIES
    CommitsKept
CHECK_DEADLOCK FALSE
