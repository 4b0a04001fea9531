CONSTANTS
    t1 = t1
    t2 = t2
    f1 = f1
    f2 = f2
    f3 = f3
    f4 = f4
    g1 = g1
    g2 = g2
    NoFrame = NoFrame
    NoFile = NoFile
    Threads <- OneThread
    Main = t1
    Frames <- TwoFrames
    Files <- OneFile
    Lines <- OneLine
    LineBreaks <- Conditional
SPECIFICATION Spec
SYMMETRY FrameSymmetry
PROPERTY UnhandledIgnoresCaught
