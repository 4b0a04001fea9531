CONSTANTS
    main = main
    t1 = t1
    t2 = t2
    Threads <- ThreeThreads
    Main = main
SPECIFICATION Spec
CHECK_DEADLOCK FALSE
INVARIANT NoGilDeadlock
