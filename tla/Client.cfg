\* Every driver; two failures anywhere and one that goes unnoticed.
SPECIFICATION FairSpec
CONSTANTS
    Requests = {1, 2, 3, 4}
    Plans <- AllPlans
    Volumes = {"a", "b"}
    Names = {"s", "t"}
    Files = {"f", "g"}
    Writable = {"a"}
    MaxWrites = 2
    MaxFaults = 2
    MaxUnnoticed = 1
INVARIANTS
    TypeOK
    AckedVolumesAreComplete
    AckedSnapshotsAreKept
    OneSnapshotPerName
PROPERTIES
    EveryRequestSucceeds
