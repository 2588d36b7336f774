CONSTANTS
    p1 = p1
    p2 = p2
    t1 = t1
    t2 = t2
    d1 = d1
    d2 = d2
    r1 = r1
    None = None
    Procs = {p1, p2}
    Tags = {t1, t2}
    Digests = {d1, d2}
    HostOf <- MCHostOf
    Mixes <- MCMixes
    MaxRetags = 1
SPECIFICATION MCSpec
INVARIANTS  NoGarbage 
PROPERTIES PullOkMeansCached  CommandsEnd
CHECK_DEADLOCK FALSE
