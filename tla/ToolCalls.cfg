CONSTANTS
    t1 = t1
    s1 = s1
    send = send
    read = read
    c1 = c1
    w1 = w1
    w2 = w2
    h1 = h1
    h2 = h2
    NoAttempt = NoAttempt
    NoTurn = NoTurn
    NoKey = NoKey
    NoCall = NoCall
    Turn = {t1}
    Session = {s1}
    SessionOf <- OneSession
    Op = {send, read}
    SideEffect <- Sides
    CallId = {c1}
    Worker = {w1, w2}
    Host = {h1, h2}
    HostOf <- TwoProcesses
    MaxEffects = 2
    Attempt <- MCAttempt
    Name <- MCName
SPECIFICATION Spec
INVARIANTS
    ExternalAtMostOnce
    PendingEffectIsVisible
    CompletedTookEffect
    RunningCallIsShown
