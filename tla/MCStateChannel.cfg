\* One channel, two requests and one watcher, every fault, two of them.
CONSTANTS
    c1 = c1  m1 = m1  m2 = m2
CONSTANTS
    Channels = {c1}
    Requests = {r1, r2}
    Sweepers = {w1}
    Milestones = {m1, m2}
    Reward <- MCReward
    SignedStates <- RivalStates
    TxIds = {t1, t2, t3, t4}
    NoTx = null
    Faults = {"crash", "db", "rpc", "timeout", "chain"}
    MaxFaults = 2
SPECIFICATION Spec
INVARIANTS TypeOK JournalIsLinear OneSettler SettledIsPaid
PROPERTIES SettledIsFinal KeepsPromise
CHECK_DEADLOCK FALSE
SYMMETRY Symmetry
