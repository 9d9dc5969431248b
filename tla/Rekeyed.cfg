\* One screen of the app: a card is confirmed twice, and drawn anew between.
CONSTANTS
    Parties = {"p1"}
    MaxItems = 1
    LastAsk = 4
    LastKey = 3
SPECIFICATION PhoneSpec
INVARIANTS
    OneKeyPerCard
CHECK_DEADLOCK FALSE
