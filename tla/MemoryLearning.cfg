CONSTANTS
    redis = redis
    sqlite = sqlite
    k1 = k1
    u1 = u1
    w1 = w1
    t1 = t1
    t2 = t2
    NoWord = NoWord
    NoTurn = NoTurn
    Content = {redis, sqlite}
    Claim = {k1}
    ClaimOf <- Claims
    Near <- Alikes
    Protected = {redis}
    Said = {sqlite}
    Query = {{k1}}
    Agent = {u1, w1}
    User = {u1}
    Worker = {w1}
    Turn = {t1, t2}
    Evidence <- Shown
    Verified = {t1, t2}
    MaxRecords = 3
    MaxDeaths = 1
    Attempts = 2
SPECIFICATION Spec
INVARIANTS
    DoneIsLearned
    UserWordStands
    ContradictionIsNotSettled
CHECK_DEADLOCK FALSE
