CONSTANTS
    r1 = r1
    r2 = r2
    c1 = c1
    c2 = c2
    h1 = h1
    fetch = fetch
    NoCall = NoCall
    None = None
    Request = {r1, r2}
    Call = {c1, c2}
    OwnerOf <- Owners
    KindOf <- Kinds
    Action = {fetch}
    ActionOf <- Actions
    Attended = {r1, r2}
    AutoApproved = {}
    MaxRounds = 2
    Thread = {h1}
    ThreadOf <- Chats
    Offered = {"once", "session", "suggest"}
    Streaming = {r2}
    MaxTurns = 2
SPECIFICATION FairSpec
INVARIANTS
    ShownQuestionWaits
    StreamShowsItsTurn
PROPERTIES
    GateSpec
    EveryQuestionIsShown
    EveryRequestIsAnswered
