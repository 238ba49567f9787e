SPECIFICATION Spec
CONSTANTS
  d1 = d1
  d2 = d2
  s1 = s1
  s2 = s2
  t1 = t1
  t2 = t2
  t3 = t3
  NoObj = NoObj
  Device = {d1}
  Sid = {s1}
  SidOf <- OneSid
  Rotates = {}
  Obj = {o1, o2, o3, o4}
  Task = {t1, t2, t3}
  Owner <- Owner3
  Kind <- WanMapFirmware
  Unbuildable = {}
  WanSteps <- DelAddSetSet
  Batches = 2
  GlobalDefaults = TRUE
  DriverDefaults = TRUE
  Events = {"periodic", "bootstrap"}
  MaxDrops = 0
  MaxFaults = 1
  MaxTriggers = 1
  MaxRestarts = 0
INVARIANTS
  MultiStepOwnsTheSession
  ProvisionedOnlyAfterAck
  CredentialsUntilAFault
