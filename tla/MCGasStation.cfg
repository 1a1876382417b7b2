CONSTANTS
    i1 = i1  i2 = i2  s1 = s1  p1 = p1  p2 = p2  r1 = r1  r2 = r2  r3 = r3
CONSTANTS
    Pods = {p1, p2}
    Requests = {r1, r2, r3}
    Inners = {i1, i2}
    Students = {s1}
    Owner <- MCOwner
    Fee <- MCFee
    Inner <- MCInner
    Pod <- MCPod
    Quota = 3
    MaxTries = 2
    Nobody = null
    Faults = {"redis", "config", "kms", "horizon", "timeout", "stall", "crash"}
    MaxFaults = 1
SPECIFICATION FairSpec
INVARIANTS TypeOK OneSponsorPerInner TakeTurns LandedIsCharged RefusedIsUndone QuotaLaw
PROPERTY EveryRequestEnds
CHECK_DEADLOCK FALSE
