CONSTANTS
    main = main
    t1 = t1
    t2 = t2
    Threads <- ThreeThreads
    Main = main
    Names <- Stdout
SPECIFICATION LiveLife
CHECK_DEADLOCK FALSE
INVARIANT LifeTypeOK
INVARIANT BodyOnlyOnIo
INVARIANT NoNestedDispatch
INVARIANT OthersStandStill
INVARIANT OneEventAtATime
INVARIANT StreamsSurvive
PROPERTY EventAnswered
PROPERTY IoThreadEnds
PROPERTY OnlyHooksTraceLate
