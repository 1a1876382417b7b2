\* Ranges of up to six entries, each unchanged or changed.
CONSTANTS
    h1 = h1  h2 = h2
    Leaves = {h1, h2}
    Lists <- Short
SPECIFICATION Spec
INVARIANT RootTellsRange
\* The computation ends with the root.
CHECK_DEADLOCK FALSE
