SPECIFICATION Spec
CONSTANTS
    k1 = k1
    k2 = k2
    k3 = k3
    f1 = f1
    f2 = f2
    NoValue = NoValue
    Values = {v1, v2}
    Keys <- MCKeys
    Files <- MCFiles
    FileOf <- MCFileOf
INVARIANTS
    TypeOK
    KeysAreView
    IndexMatchesData
    DiscardCanRollBack
    OverlayMatchesIndex
PROPERTY
    ImplementsTxMap
SYMMETRY Symm
