SPECIFICATION GuardSpec
CONSTANTS
    read = read
    find = find
    run = run
    made = made
    page = page
    new = new
    error = error
    Call <- MCCall
    ToolOf <- MCToolOf
    UrlOf <- MCUrlOf
    NoUrl = NoUrl
    Idempotent = {"web_fetch"}
    Outcome = {new, error}
    Failed = {error}
    Unknown = Unknown
    Undeclared = {"made_up"}
    HardStop = TRUE
    MaxBatch = 2
    ExactBlock = 2
    SameToolHalt = 3
    NoProgressBlock = 2
    UrlBlock = 3
    UnknownBlock = 2
    StagnantWarn = 2
    StagnantHalt = 3
    BreakerWarn = 2
    BreakerHalt = 3
    PingPongHalt = 4
    HistorySize = 4
    Window = 2
    WindowAbort = 2
SYMMETRY Reads
INVARIANTS
    EndlessCallingIsStopped
    PageIsNotRefetched
CHECK_DEADLOCK FALSE
