SPECIFICATION Spec
CONSTANTS
    Task = {t1, t2}
    Api = {a1}
    Session = {s1, s2}
    NoTask = NoTask
    MaxFaults = 1
SYMMETRY Symmetry
INVARIANTS
    TypeOK
    
    
    FinishedLeavesFifo
    

    
