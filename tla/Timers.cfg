SPECIFICATION Spec
CONSTANTS
    Wrap = 6
    Divisors = {1, 3}
    Targets <- MCValues
    Counts <- MCValues
    Chunks = {1, 2, 5, 13}
    Far = 19
    MaxFires = 2
INVARIANTS
    ChunksAreTicks
    SplitInvisible
    PredictionExact
