\* Progress with one fault, while a request verifies the replica.
CONSTANTS
    i1 = i1  i2 = i2  r1 = r1  r2 = r2  v1 = v1  v2 = v2  g1 = g1  a1 = a1  a2 = a2
    e1 = e1  e2 = e2  Changed = Changed  NoOne = NoOne  NoRow = NoRow
    Instances = {i1, i2}
    Recorders = {r1}
    Verifiers = {}
    Requests = {g1}
    Anchorers = {a1}
    HomeOf <- HomeOfAll
    Events = {e1}
    BatchSize = 1
    MaxEntries = 2
    MaxAnchors = 3
    Faults = {"db", "submit", "crash"}
    MaxFaults = 1
SPECIFICATION FairSpec
PROPERTY EntriesGetAnchored
