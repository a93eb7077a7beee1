\* One machine's cards: two saves, two faults, any match.
SPECIFICATION Spec
CONSTANTS
    MaxWrites = 2
    MaxFaults = 2
    OpenFaults = FALSE
    StartTails = {"big"}
    SlotSettings = {{0, 1}, {0}}
INVARIANTS
    TypeOK
    OwnCard
    AckDurable
    CleanMeansSaved
PROPERTIES
    NeverTorn
    TailKept
