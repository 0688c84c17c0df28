\* Two requests of one HTTP caller at once.
CONSTANTS
    w1 = w1  w2 = w2  node = node  key = key
    NoBucket = NoBucket
    Nobody = Nobody
    Threads <- TwoThreads
    Callers = {key}
    Patient = {}
    Burst = 1
    MaxTime = 1
SPECIFICATION Spec
INVARIANTS EveryoneBounded
