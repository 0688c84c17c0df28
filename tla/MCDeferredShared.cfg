\* Two processes share the queue file and interleave at every load and save.
CONSTANTS
    p1 = p1  p2 = p2  a = a  b = b
    NoProc = NoProc
    Procs <- TwoProcs
    Commands = {"add", "list", "flush"}
    Payments = {a}
    Unlocked = {a}
    Faults = {"raise", "wrong_passphrase"}
    MaxIntents = 1
    MaxAttempts = 2
    MaxMsgs = 2
    MaxCrashes = 1
    MaxOutages = 0
SPECIFICATION Spec
SYMMETRY Interchangeable
INVARIANTS SentMeansPaid FlushExclusive
