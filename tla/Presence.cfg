SPECIFICATION Spec
CONSTANTS
    Handler = {h1, h2}
    Half = 2
    Deadline = 2
    MaxFaults = 2
INVARIANTS
    TypeOK
    OfflineMeansSilent
    OnlineIsRecent
