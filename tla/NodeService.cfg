\* Every kind of volume, published for two pods.
SPECIFICATION FairSpec
CONSTANTS
    t1 = t1
    t2 = t2
    NoTarget = NoTarget
    Targets = {t1, t2}
    Setups <- AllSetups
INVARIANTS TypeOK AckedCallsHold
PROPERTIES EveryCallSucceeds
CHECK_DEADLOCK FALSE
