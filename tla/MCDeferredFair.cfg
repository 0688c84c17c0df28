\* A daemon alone with the queue and the commands that edit it, one at a time.
CONSTANTS
    p1 = p1  p2 = p2  a = a  b = b
    NoProc = NoProc
    Procs <- OneProc
    Commands = {"add", "remove", "clear", "listen"}
    Payments = {a, b}
    Unlocked = {a}
    Faults = {"raise"}
    MaxIntents = 2
    MaxAttempts = 2
    MaxMsgs = 5
    MaxCrashes = 1
    MaxOutages = 1
SPECIFICATION FairSpec
INVARIANTS TypeOK SentMeansPaid SendsBounded TransmitOnlyMarked NoOpenTwins
PROPERTIES NeverForgets OrphanedOnlyByRaise EventuallySettled KeepsPromise
