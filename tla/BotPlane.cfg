CONSTANTS
    MinDelay = 10
    MaxDelay = 30
    FactorNum = 9
    FactorDen = 5
    MaxPower = 2
    MaxConversations = 2
    Slots = {s1, s2}
    MaxCrashes = 1
SYMMETRY AnySlot
SPECIFICATION Spec
INVARIANTS
    TypeOK
    AnswersAtHand
    OneConversation
PROPERTIES
    BackoffFits
    GivesUpLate
    EndedForGood
CHECK_DEADLOCK FALSE
