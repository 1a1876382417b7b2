\* One key, asked for twice on each of two instances.
CONSTANTS
    r1 = r1  r2 = r2  r3 = r3  r4 = r4  i1 = i1  i2 = i2
CONSTANTS
    Requests = {r1, r2, r3, r4}
    Instances = {i1, i2}
    HomeOf <- MCHomeOf
    Nobody = null
    Faults = {"redis", "crash", "lapse"}
    MaxFaults = 2
SPECIFICATION Spec
INVARIANTS TypeOK OneAtATime DoneOnce
SYMMETRY Symmetry
\* Every request has been answered.
CHECK_DEADLOCK FALSE
