CONSTANTS
    a1 = a1
    n1 = n1
    n2 = n2
    NoAttempt = NoAttempt
    NoTurn = NoTurn
    NoKey = NoKey
    NoSession = NoSession
    Attempt = {a1}
    Turn = {t1}
    Name = {n1, n2}
    Session = {s1}
    Offered <- EveryRequest
    MaxEvents = 5
SPECIFICATION RebuildSpec
INVARIANTS
    ProjectionIsReplay
    CompletedOnEvidence
    OpenAttemptsAreUnfinished
    LogsAreReplayable
PROPERTIES
    EndedTurnIsFinal
    LedgerSpec
