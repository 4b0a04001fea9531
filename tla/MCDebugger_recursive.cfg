CONSTANTS
    t1 = t1
    t2 = t2
    f1 = f1
    f2 = f2
    f3 = f3
    f4 = f4
    g1 = g1
    g2 = g2
    NoFrame = NoFrame
    NoFile = NoFile
    Threads <- TwoThreads
    Main = t1
    Frames <- ThreeFrames
    Files <- OneFile
    Lines <- OneLine
    LineBreaks <- CondOnly
SPECIFICATION Spec
SYMMETRY FrameSymmetry
INVARIANT OnlyRecursiveEventsDropped
