SPECIFICATION Spec
CONSTANTS
    Processes = {p1, p2}
    Inodes = {i1, i2, i3}
    None = None
    MaxTries = 3
INVARIANTS
    TypeOK
    LocksAreHeld
PROPERTY
    AttemptEnds
