\* Every share type and copy, and at most two faults.
SPECIFICATION FairSpec
CONSTANTS
    Requests = {1, 2, 3, 4}
    Plans <- AllPlans
    Names = {"a", "b"}
    Volumes = {"a", "b"}
    SnapshotNames = {"s", "t"}
    VolumeIdOf <- VolumeIdDef
    ProtectSources = TRUE
    Ids = {1, 2}
    Setups <- AllSetups
INVARIANTS
    TypeOK
    AckedVolumesServe
    AckedCopiesAreWhole
    DeletionsLeaveNothing
PROPERTIES
    SharesOfOthersAreKept
    EveryRequestSucceeds
