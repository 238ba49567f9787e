SPECIFICATION Spec
CONSTANTS
    Absent = Absent
    Null = Null
    NoPassword = NoPassword
    ReportsCode = TRUE
    MaxTasks = 1
    MaxCaptures = 1
    MaxMishaps = 2
INVARIANTS
    TypeOK
    OneMishapLosesNothing
    

    
