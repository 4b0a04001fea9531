CONSTANTS
    t1 = t1
    t2 = t2
    f1 = f1
    f2 = f2
    c1 = c1
    c2 = c2
    c3 = c3
    k1 = k1
    d1 = d1
    d2 = d2
    globals = globals
    Globals = globals
    NoDict = NoDict
    NoThread = NoThread
    Threads <- TwoThreads
    Frames <- TwoFrames
    Codes <- ThreeCodes
    CodeKind <- Kinds
    Keys <- OneKey
    Dicts <- TwoDicts
    MaxSourceId = 3
SPECIFICATION Spec
CONSTRAINT DictsOrSources
SYMMETRY Interchangeable
INVARIANT TypeOK
INVARIANT StoppedFramesLive
INVARIANT StoppedDictsLive
INVARIANT ShownFramesKept
INVARIANT SourceFaithful
