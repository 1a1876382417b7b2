\* Two recorders and the anchor jobs of two instances, a scan row by row, one fault.
CONSTANTS
    i1 = i1  i2 = i2  r1 = r1  r2 = r2  v1 = v1  v2 = v2  g1 = g1  a1 = a1  a2 = a2
    e1 = e1  e2 = e2  Changed = Changed  NoOne = NoOne  NoRow = NoRow
    Instances = {i1, i2}
    Recorders = {r1, r2}
    Verifiers = {}
    Requests = {}
    Anchorers = {a1, a2}
    HomeOf <- HomeOfAll
    Events = {e1}
    BatchSize = 1
    MaxEntries = 2
    MaxAnchors = 5
    Faults = {"db", "submit", "crash"}
    MaxFaults = 1
SPECIFICATION Spec
INVARIANTS TypeOK NoAppendConflict ChainLinked AnchorsCover AnchorsTrue NoFalseMismatch
PROPERTY KeepsLog
