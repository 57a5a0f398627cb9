SPECIFICATION LinkSpec
CONSTANTS
    MaxMsgs <- Msgs
    MaxRetrans = 1
INVARIANTS ReadyOnceConnected LostBeforeNone NothingUnsent
PROPERTIES ImplementsChannel ConnectAnswered SendAnswered Delivered
CHECK_DEADLOCK FALSE
