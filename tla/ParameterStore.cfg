SPECIFICATION FairSpec
CONSTANTS
    Name = {n1, n2}
    Proc = {p1, p2}
    Null = Null
    Jobs = {"update", "delete", "put", "get", "save", "capture"}
    MaxWrites = 3
    MaxFaults = 1
INVARIANTS
    TypeOK
    CopiesAreOfOneMoment
    
PROPERTY
    EventuallyFresh
