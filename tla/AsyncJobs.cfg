SPECIFICATION Spec
CONSTANTS
    k1 = k1
    k2 = k2
    Canceller = {k1, k2}
    Crashes = TRUE
SYMMETRY Cancellers
INVARIANTS
    JobTypeOK
    SuccessIsEarned
    CancelIsForgottenByRaceOnly
    AbandonedByRaceOnly
    AttachFindsTheTurn
CHECK_DEADLOCK FALSE
