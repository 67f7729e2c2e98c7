CONSTANTS
    r1 = r1
    r2 = r2
    c1 = c1
    c2 = c2
    c3 = c3
    c4 = c4
    fetch = fetch
    send = send
    leave = leave
    NoCall = NoCall
    Request = {r1, r2}
    Call = {c1, c2, c3, c4}
    OwnerOf <- Owners
    KindOf <- Kinds
    Action = {fetch, send, leave}
    ActionOf <- Actions
    Attended = {r1, r2}
    AutoApproved = {}
    MaxRounds = 1
SPECIFICATION GateSpec
INVARIANTS
    OneQuestionPerGate
    RiskyCallIsAuthorised
