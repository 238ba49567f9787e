SPECIFICATION Spec
CONSTANTS
  d1 = d1
  d2 = d2
  s1 = s1
  s2 = s2
  t1 = t1
  t2 = t2
  t3 = t3
  NoObj = NoObj
  Device = {d1, d2}
  Sid = {s1, s2}
  SidOf <- OwnSids
  Rotates = {d1, d2}
  Obj = {o1, o2, o3, o4, o5, o6, o7}
  Task = {t1, t2, t3}
  Owner <- OwnerOther
  Kind <- DelGetDiag
  Unbuildable = {}
  WanSteps <- AddSet
  Batches = 1
  GlobalDefaults = FALSE
  DriverDefaults = FALSE
  Events = {"periodic", "diagnostics"}
  MaxDrops = 1
  MaxFaults = 0
  MaxTriggers = 0
  MaxRestarts = 1
INVARIANTS
  TypeOK
  DoneWasExecuted
  AnswerReachesItsTask
  SessionTasksArePending
  
PROPERTIES
  FirstDispatchInOrder
  FinishedStaysFinished
