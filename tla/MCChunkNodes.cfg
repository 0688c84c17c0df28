\* Two nodes relay under the same message id; rate limit, a dropped buffer.
CONSTANTS
    s1 = s1  s2 = s2  t1 = t1  t2 = t2
    NoId = NoId
    Nodes = {s1, s2}
    MsgIds = {7}
    Txs = {t1, t2}
    Owner <- OwnerTwo
    Chunks <- TwoChunks
    Retries = 0
    Burst = 1
    MaxLosses = 0
    MaxDrops = 1
    MaxRefills = 2
SPECIFICATION Spec
INVARIANTS TypeOK BroadcastsAreWhole OkMeansAccepted
CHECK_DEADLOCK FALSE
