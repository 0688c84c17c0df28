\* A queue command next to the daemon: the file is rewritten from a stale copy.
CONSTANTS
    p1 = p1  p2 = p2  a = a  b = b
    NoProc = NoProc
    Procs <- TwoProcs
    Commands = {"add", "listen"}
    Payments = {a, b}
    Unlocked = {a}
    Faults = {}
    MaxIntents = 2
    MaxAttempts = 2
    MaxMsgs = 2
    MaxCrashes = 0
    MaxOutages = 0
SPECIFICATION Spec
PROPERTY SentIsFinal
