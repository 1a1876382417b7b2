\* Nothing is damaged and nothing fails.
CONSTANTS
    i1 = i1  i2 = i2  r1 = r1  r2 = r2  v1 = v1  v2 = v2  g1 = g1  a1 = a1  a2 = a2
    e1 = e1  e2 = e2  Changed = Changed  NoOne = NoOne  NoRow = NoRow
    Instances = {i1, i2}
    Recorders = {r1}
    Verifiers = {v1}
    Requests = {}
    Anchorers = {}
    HomeOf <- HomeOfAll
    Events = {e1}
    BatchSize = 2
    MaxEntries = 2
    MaxAnchors = 1
    Faults = {}
    MaxFaults = 0
SPECIFICATION Spec
INVARIANT NoFalseAlarm
