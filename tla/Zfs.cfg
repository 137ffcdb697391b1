\* Safety: zvols, every kind of copy, two faults anywhere.
SPECIFICATION Spec
CONSTANTS
    Requests = {1, 2, 3, 4, 5}
    Plans <- SafetyPlans
    Names = {"a", "b"}
    Volumes = {"a", "b"}
    SnapshotNames = {"s", "t"}
    VolumeIdOf <- VolumeIdDef
    ResourceTypes = {"volume"}
    EnableQuotas = FALSE
    IgnoreForeign = TRUE
    ProtectSources = FALSE
    Writable = {"a"}
    MaxWrites = 1
    MaxFaults = 2
INVARIANTS
    TypeOK
    AckedVolumesAreUsable
    AckedSnapshotsAreKept
    CopiesAreFaithful
    OneVolumePerSnapshotName
    DeletionsLeaveNothing
