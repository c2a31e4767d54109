CONSTANTS
    s1 = s1
    Subs = {s1}
    Listeners = {"none", "clone", "fresh"}
    Unreadable = {2}
    MaxWord = 3
    MaxStored = 3
    MaxErrors = 1
    MaxWire = 6
    MaxFaults = 1
SPECIFICATION RelayFairSpec
CHECK_DEADLOCK FALSE
INVARIANTS
    RelayTypeOK
    Consecutive
    SubscriberNotLeftBehind
    EndsAtTheHead
    InFlight
    NoFalseAlarm
    DoneAtTheHead
PROPERTIES
    EveryBlockDelivered
