\* Every strategy, two volumes on one storage server, two faults, a reboot.
SPECIFICATION FairSpec
CONSTANTS
    Volumes = {"v", "w"}
    Strategies = {"targetCli", "nvmetCli", "spdkCli", "pcs", "setDatasetProperties"}
    MaxTries = 2
    MaxFaults = 2
    MaxReboots = 1
INVARIANTS TypeOK AckedSharesServe SharesHaveDatasets
PROPERTIES EveryCallSucceeds
