\* Two user threads, each with its kernel server.
CONSTANTS
    r1 = r1
    r2 = r2
    Rings = {r1, r2}
    Commands = {"write", "seek", "tell", "write_other_fd", "other"}
    MaxCalls = 2
SPECIFICATION FairSpec
INVARIANTS TypeOK ReceiveFits WokenFindsMessage ReplyBelongsToCall
PROPERTIES RefinesMailbox CallsReturn
CHECK_DEADLOCK FALSE
