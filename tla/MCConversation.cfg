CONSTANTS
    t1 = t1
    f1 = f1
    f2 = f2
    g1 = g1
    NoFrame = NoFrame
    NoFile = NoFile
    Threads <- OneThread
    Main = t1
    Frames <- TwoFrames
    Files <- OneFile
    Lines <- OneLine
    LineBreaks <- CondOnly
SPECIFICATION LiveConversation
PROPERTY ClientBelief
PROPERTY RequestsServed
PROPERTY EntryTold
PROPERTY PauseStops
