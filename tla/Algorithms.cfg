SPECIFICATION Spec
CONSTANTS
    None = None
    Empty = Empty
    CM_DELAY_SOON = 1
    CM_DELAY_MONITOR_POLL = 4
    CM_DELAY_MONITOR_POLL_MINIMUM = 1
    CM_DELAY_MONITOR_POLL_MAXIMUM = 6
    Ttls <- MCTtls
    Lifetime = 7
    MaxTime = 7
INVARIANTS ValuesAreKept 
    AddingIsModifying MessagesAreRead OptionsReachTheRequest CommandsFindTheRequest ChainsAreOrdered
    ThresholdsNoticed LooksInTime
CHECK_DEADLOCK FALSE
