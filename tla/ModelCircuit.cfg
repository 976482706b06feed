CONSTANTS
    Calls = {c1, c2, c3}
    Threshold = 2
    Attempts = 2
SPECIFICATION FairSpec
INVARIANTS TypeOK CircuitCoherent FailuresBounded
PROPERTIES LostProbeIsForever ProbeSettles
