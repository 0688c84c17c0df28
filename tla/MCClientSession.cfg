\* Three calls in one or two processes, two gateways.
CONSTANTS
    g1 = g1  g2 = g2
    Gateways = {g1, g2}
    Nobody = Nobody
    MaxRetries = 1
    MaxCalls = 3
    MaxProcesses = 2
SPECIFICATION Spec
INVARIANTS TypeOK AnswersAreOwn SharesAreStored OneGateway
SYMMETRY Alike
CHECK_DEADLOCK FALSE
