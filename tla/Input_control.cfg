SPECIFICATION Spec
CONSTANTS
    Sessions <- MCSessions
    AnsiTerms <- MCAnsiTerms
    SayLetter = 115
    MaxSize = 24
    MaxText = 6
INVARIANT ControlCodesRemoved
\* The peer says no more; or the io thread is gone.
CHECK_DEADLOCK FALSE
