CONSTANTS
    anna = anna
    bob = bob
    m1 = m1
    m2 = m2
    m3 = m3
    Chat = {anna, bob}
    ChatOf <- Chats
    MessageIdOf <- MessageIds
    Reply <- Replies
    Apology = "sorry"
    MaxUpdates = 4
    MaxCrashes = 1
SPECIFICATION FairSpec
INVARIANTS
    OneTurnPerMessage
    OutboxIsAccounted
    QuietListenerSettles
PROPERTIES
    EveryUpdateIsTaken
