\* Progress of a disputed channel beside cooperative settlements, two failures of the
\* ledger or its RPC node or answers that come too late.
CONSTANTS
    c1 = c1  m1 = m1  m2 = m2
CONSTANTS
    Channels = {c1}
    Requests = {r1, r2}
    Sweepers = {w1}
    Milestones = {m1, m2}
    Reward <- MCReward
    SignedStates <- FinalStates
    TxIds = {t1, t2, t3}
    NoTx = null
    Faults = {"rpc", "timeout", "chain"}
    MaxFaults = 2
SPECIFICATION FairSpec
PROPERTY DisputeSettles
CHECK_DEADLOCK FALSE
