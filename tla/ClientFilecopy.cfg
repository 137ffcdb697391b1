\* A filecopy snapshot of a volume with two files, one failure.
SPECIFICATION Spec
CONSTANTS
    Requests = {1, 2}
    Plans <- FilecopyPlans
    Volumes = {"a", "b"}
    Names = {"s", "t"}
    Files = {"f", "g"}
    Writable = {"a"}
    MaxWrites = 2
    MaxFaults = 1
    MaxUnnoticed = 0
INVARIANTS
    FilecopySnapshotsAreKept
