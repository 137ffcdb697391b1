SPECIFICATION FairSpec
CONSTANTS
    v = v
    p = p
    q = q
    Volumes = {v}
    Portals = {p, q}
    MinStale = 1
    Setups <- AllSetups
INVARIANTS TypeOK AckedUnstageIsDetached AckedStageIsUsable OrphansAreSwept
PROPERTIES HandlersSucceed StaleSessionsGo
