\* Rows change or go, or the end of the chain does, while it grows and is anchored.
CONSTANTS
    i1 = i1  i2 = i2  r1 = r1  r2 = r2  v1 = v1  v2 = v2  g1 = g1  a1 = a1  a2 = a2
    e1 = e1  e2 = e2  Changed = Changed  NoOne = NoOne  NoRow = NoRow
    Instances = {i1, i2}
    Recorders = {r1}
    Verifiers = {v1}
    Requests = {}
    Anchorers = {a2}
    HomeOf <- HomeOfAll
    Events = {e1, e2}
    BatchSize = 1
    MaxEntries = 2
    MaxAnchors = 1
    Faults = {"edit", "rewrite", "delete", "tail"}
    MaxFaults = 1
SYMMETRY EventsAlike
SPECIFICATION Spec
INVARIANTS DamageIsFound TamperedNotAnchored
