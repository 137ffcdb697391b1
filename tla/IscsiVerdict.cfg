SPECIFICATION Spec
CONSTANTS
    v = v
    p = p
    q = q
    Volumes = {v}
    Portals = {p, q}
    MinStale = 1
    Setups <- OneOutage
PROPERTIES MountedSessionsAreKept
