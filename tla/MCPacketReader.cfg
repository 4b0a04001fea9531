CONSTANTS
    r1 = r1
    r2 = r2
    r3 = r3
    Requests <- AllRequests
    Body <- Bodies
    Disconnects <- OneDisconnect
    MaxSent = 3
SPECIFICATION LiveSpec
CHECK_DEADLOCK FALSE
PROPERTY HandledInOrder
PROPERTY AllHandled
