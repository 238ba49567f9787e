SPECIFICATION FairSpec
CONSTANTS
  d1 = d1
  d2 = d2
  s1 = s1
  s2 = s2
  t1 = t1
  t2 = t2
  t3 = t3
  NoObj = NoObj
  Device = {d1}
  Sid = {s1}
  SidOf <- OneSid
  Rotates = {d1}
  Obj = {o1, o2, o3, o4}
  Task = {t1, t2, t3}
  Owner <- Owner3
  Kind <- WifiRebootGet
  Unbuildable = {}
  WanSteps <- AddSet
  Batches = 1
  GlobalDefaults = FALSE
  DriverDefaults = FALSE
  Events = {"periodic"}
  MaxDrops = 1
  MaxFaults = 1
  MaxTriggers = 1
  MaxRestarts = 1
PROPERTIES
  PendingIsServed
  TasksFinish
