SPECIFICATION NasSpec
CONSTANTS
    SeqSpace = 4
    CountSpace = 16
    MaxSent = 9
INVARIANTS NoReplay InTouch Window
PROPERTY CountsForward
CHECK_DEADLOCK FALSE
