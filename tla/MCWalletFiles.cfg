\* Three commands at once, two keys of different length, one killed process.
CONSTANTS
    p1 = p1  p2 = p2  p3 = p3
    short = short  long = long
    Procs = {p1, p2, p3}
    Keys = {short, long}
    Size <- Lengths
    MaxInodes = 3
    MaxCrashes = 1
SPECIFICATION Spec
INVARIANTS TypeOK NoWalletLost BrokenOnlyByAccident
SYMMETRY Alike
