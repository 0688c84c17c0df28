\* Two threads serve a mesh node and an HTTP caller with several requests at once.
CONSTANTS
    w1 = w1  w2 = w2  node = node  key = key
    NoBucket = NoBucket
    Nobody = Nobody
    Threads <- TwoThreads
    Callers = {node, key}
    Patient = {node}
    Burst = 2
    MaxTime = 1
SPECIFICATION Spec
INVARIANTS TypeOK WindowBounded DenialsEarned
SYMMETRY Interchangeable
