CONSTANTS
    t1 = t1
    t2 = t2
    s1 = s1
    x1 = x1
    x2 = x2
    h1 = h1
    h2 = h2
    NoAttempt = NoAttempt
    NoTurn = NoTurn
    NoKey = NoKey
    NoExecutor = NoExecutor
    Turn = {t1}
    Session = {s1}
    SessionOf <- OneSession
    Executor = {x1, x2}
    Host = {h1, h2}
    HostOf <- TwoProcesses
    Side = {"external_mutation", "mutation"}
    Mirrored <- NoEvents
    Outcome = {"success"}
    Answer = {"denied"}
    Attempt <- MCAttempt
    Name <- MCName
SPECIFICATION Spec
INVARIANTS
    LiveTurnIsAttended
