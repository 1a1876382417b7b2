\* A failed cooperative settlement of a disputed channel.
CONSTANTS
    c1 = c1  m1 = m1  m2 = m2
CONSTANTS
    Channels = {c1}
    Requests = {r1, r2}
    Sweepers = {w1}
    Milestones = {m1, m2}
    Reward <- MCReward
    SignedStates <- FinalStates
    TxIds = {t1, t2, t3}
    NoTx = null
    Faults = {"rpc"}
    MaxFaults = 1
SPECIFICATION Spec
INVARIANT DisputeIsKept
CHECK_DEADLOCK FALSE
