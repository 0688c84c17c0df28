\* One relay of two chunks: as many losses as retries, denials, a dropped buffer.
CONSTANTS
    s1 = s1  s2 = s2  t1 = t1  t2 = t2
    NoId = NoId
    Nodes = {s1}
    MsgIds = {7}
    Txs = {t1}
    Owner <- OwnerOfOne
    Chunks <- OneInTwo
    Retries = 2
    Burst = 3
    MaxLosses = 2
    MaxDrops = 1
    MaxRefills = 0
SPECIFICATION FairSpec
INVARIANT AcknowledgedIsBroadcast
 
CHECK_DEADLOCK FALSE
