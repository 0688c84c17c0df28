\* An exception while the intent is dispatched.
CONSTANTS
    p1 = p1  p2 = p2  a = a  b = b
    NoProc = NoProc
    Procs <- OneProc
    Commands = {"add", "listen"}
    Payments = {a}
    Unlocked = {a}
    Faults = {"raise"}
    MaxIntents = 1
    MaxAttempts = 2
    MaxMsgs = 2
    MaxCrashes = 0
    MaxOutages = 0
SPECIFICATION Spec
INVARIANT SendingHasOwner
