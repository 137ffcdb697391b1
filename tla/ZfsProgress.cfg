\* Liveness: zvols and filesystems, whose sources the CO protects.
SPECIFICATION FairSpec
CONSTANTS
    Requests = {1, 2, 3, 4}
    Plans <- ProgressPlans
    Names = {"a", "b"}
    Volumes = {"a", "b"}
    SnapshotNames = {"s", "t"}
    VolumeIdOf <- VolumeIdDef
    ResourceTypes = {"filesystem", "volume"}
    EnableQuotas = FALSE
    IgnoreForeign = FALSE
    ProtectSources = TRUE
    Writable = {"a"}
    MaxWrites = 0
    MaxFaults = 2
PROPERTIES
    EveryRequestSucceeds
