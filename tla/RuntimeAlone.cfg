CONSTANTS
    t1 = t1
    t2 = t2
    s1 = s1
    x1 = x1
    x2 = x2
    h1 = h1
    h2 = h2
    NoAttempt = NoAttempt
    NoTurn = NoTurn
    NoKey = NoKey
    NoExecutor = NoExecutor
    Turn = {t1}
    Session = {s1}
    SessionOf <- OneSession
    Executor = {x1}
    Host = {h1}
    HostOf <- OneProcess
    Side = {"external_mutation", "mutation"}
    Mirrored <- Verdicts
    Outcome = {"success", "unvalidated", "cancelled"}
    Answer = {"approved", "widened", "denied"}
    Attempt <- MCAttempt
    Name <- MCName
SPECIFICATION FairSpec
INVARIANTS
    ResultAgreesWithTurn
    CompletedTurnIsSettled
PROPERTIES
    EngagedTurnEnds
