SPECIFICATION FairSpec
CONSTANTS
    c1 = c1
    c2 = c2
    k1 = k1
    k2 = k2
    Calls <- TwoCalls
    Conns <- TwoConns
    NoCall = NoCall
    NoConn = NoConn
    Mixes <- SomeMixes
    Pool = 1
    MaxGit = 1
    Handshakes = 1
    FrameQueue = 1
INVARIANTS AnswersAreOwn WritesRunOnce PoolIsUsable
PROPERTY CallsReturn
CHECK_DEADLOCK FALSE
