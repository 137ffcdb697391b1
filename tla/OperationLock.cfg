\* Safety, the promise of the lock, and progress although two handlers may hang:
\* eviction, restarts and a clock step backwards.
CONSTANTS
    Requests = {r1, r2, r3}
    Names = {"s"}
    Volumes = {"v1", "v2"}
    Snapshots = {"x"}
    Workload <- MixedWorkload
    MaxHold = 2
    Hung = {r1, r2}
    MaxRestarts = 1
    MaxClockSteps = 1
SPECIFICATION FairSpec
INVARIANTS TypeOK EveryEntryHasOwner
PROPERTIES KeysChangeHandsFairly LeasesSpec EveryRequestGetsIn
CHECK_DEADLOCK FALSE
