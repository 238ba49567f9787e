\* One session with each of eight devices and every list of at most two tasks.
SPECIFICATION Spec
CONSTANTS
    Devices <- MCDevices
    Todos <- MCTodos
    Informed <- MCInformed
    MaxFaults = 1
INVARIANTS
    PlanFitsTheDevice
    RequestedVlanIsSet
    WifiAddressesTheBand
\* A session ends.
CHECK_DEADLOCK FALSE
