\* Runs of up to three shards, any number of runs.  The program ends with its
\* shutdown; a thread left waiting is what RunEnds excludes.
SPECIFICATION FairSpec
CONSTANTS
    MaxShards = 3
    Attempts = 3
INVARIANTS
    OneHandoff
    NothingLeft
    SuccessMeansAll
PROPERTIES
    RunEnds
CHECK_DEADLOCK FALSE
