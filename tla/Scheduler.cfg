SPECIFICATION FairSpec
CONSTANTS
    e1 = e1
    e2 = e2
    main = main
    disp = disp
    Events <- MCEvents
    Callers <- MCCallers
    Delays <- MCDelays
    Main = main
    MinTicks = 2
    MaxEventId = 2
    MaxTime = 4
    NoEvent = NoEvent
INVARIANTS TypeOK TimeoutHasEvent NoOversleep NotEarly StopIsExact ValidIds
PROPERTIES ImplementsEventTimer EventsFire
\* A run ends when every event was created and the clock reached its bound.
CHECK_DEADLOCK FALSE
