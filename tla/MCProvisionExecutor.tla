------------------------ MODULE MCProvisionExecutor ------------------------
(* The shipped WAN flows as constants of the TLC run of ProvisionExecutor, *)
(* and the assumption its theorem about references needs of them.          *)
EXTENDS ProvisionExecutor

W == INSTANCE WanFlows
ShippedNames == W!AllNames
ShippedJobs == W!ShippedFlowJobs

ASSUME ShippedJobsAreWellFormed == \A j \in Jobs : WellFormed(j)
=============================================================================
