SPECIFICATION FairSpec
CONSTANTS
    Session = {s1, s2}
    Key = {a, x}
    InformKeys = {a}
    Null = Null
    MaxChanges = 1
    MaxJobs = 2
    MaxDeletes = 1
    MaxFaults = 1
INVARIANTS
    TypeOK

    
    
