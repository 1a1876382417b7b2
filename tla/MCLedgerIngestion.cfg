\* Two workers, two histories that part for one ledger, one fault.
CONSTANTS
    a = a  b = b
CONSTANTS
    Workers = {w1, w2}
    Members <- TwoMembers
    Ledgers <- ShallowLedgers
    History <- ShallowHistory
    OpsOf <- MCOpsOf
    PaymentOps <- MCPaymentOps
    PageSize = 3
    BatchSize = 2
    StartSequence = Unset
    Unset = Unset
    Faults = {"fetch", "db", "crash"}
    MaxFaults = 1
SPECIFICATION FairSpec
INVARIANTS TypeOK OneLedgerPerSequence EventsBelong EventsExact
PROPERTIES KeepsHistory CatchesUp
