\* Two execs over connections that fail twice, with timers (then commands and
\* channel requests may go unanswered) and without.
CONSTANTS
    Execs = {e1, e2}
    MaxFaults = 2
SPECIFICATION FairSpec
INVARIANTS TypeOK SettledLeavesNothing OnlyCurrentIsLive
PROPERTIES EveryExecSettles
CHECK_DEADLOCK FALSE
