\* A match with seat 1's card, as the host sees it.
SPECIFICATION Spec
CONSTANTS
    MaxWrites = 1
    MaxFaults = 0
    OpenFaults = FALSE
    StartTails = {"kept"}
    SlotSettings = {{0, 1}}
INVARIANTS
    HostCardUnread
