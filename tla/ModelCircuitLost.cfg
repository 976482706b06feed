CONSTANTS
    Calls = {c1, c2}
    Threshold = 2
    Attempts = 2
SPECIFICATION FairSpec
PROPERTY ProbeDecided
